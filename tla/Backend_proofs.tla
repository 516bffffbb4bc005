--------------------------- MODULE Backend_proofs ---------------------------
(***************************************************************************)
(* Theorems about the components of the backend, for every value of their  *)
(* constants: the interview session follows its table and launches once,   *)
(* the user's decisions stand and tiers fit scores, versions and letters   *)
(* can be recovered and traced, a mail acts once, an accepted override is  *)
(* in force, a refused request has changed nothing, and a change of        *)
(* password ends the sessions begun before it.  Each section has the       *)
(* invariant of its component, one lemma per action, and the theorems.     *)
(***************************************************************************)
EXTENDS Interviews, Jobs, Resumes, Emails, Settings, Endpoints, Account,
        FiniteSetTheorems, SequenceTheorems, WellFoundedInduction, TLAPS

-----------------------------------------------------------------------------
\* Interviews: Interviews.tla.

\* A session that Start has not committed on has no external id, and one
\* without an external id has launched nothing.
SessionRowInv ==
    /\ ivStatus = "pending" => ~ivExternal
    /\ ~ivExternal => ivTasks = 0
    /\ ivStartedAt <= ivChanges

\* What a transaction that has read the row knows until it commits, and what
\* the one caller between its commit and its dispatch does.
CallInv(c) ==
    /\ ivOp[c].pc \in {"checked", "inTx"} /\ ivOp[c].start => ivOp[c].to = "starting"
    /\ ivOp[c].pc = "inTx" =>
          /\ CanTransition(ivOp[c].seen, ivOp[c].to)
          /\ ivOp[c].now \in 1 .. ivChanges + 1
          /\ ivOp[c].seen = "active" => 0 < ivStartedAt /\ ivStartedAt < ivOp[c].now
    /\ ivOp[c].pc = "dispatch" => ivExternal /\ ivStatus # "pending" /\ ivTasks = 0

OneDispatcher == \A c, d \in Callers :
                     ivOp[c].pc = "dispatch" /\ ivOp[d].pc = "dispatch" => c = d

InterviewsInv ==
    /\ InterviewsTypeOK
    /\ SessionRowInv
    /\ \A c \in Callers : CallInv(c)
    /\ OneDispatcher
    /\ OneVoiceSession
    /\ TimestampsTellTheStory

\* A step that only moves caller c to the operation o.
CallMoves(c, o) == ivOp' = [ivOp EXCEPT ![c] = o] /\ UNCHANGED <<ivRow, ivTasks>>

-----------------------------------------------------------------------------
\* The table: "starting" is entered from "pending" only, "active" from
\* "starting" only, a terminal status is never left, and every status has its
\* successors among the statuses.
LEMMA TableFacts ==
    ASSUME NEW s \in SessionStatus, NEW t \in SessionStatus, CanTransition(s, t)
    PROVE  /\ t # "pending"
           /\ t = "starting" => s = "pending"
           /\ t = "active" => s = "starting"
           /\ s \in {"pending", "starting", "active"}
           /\ t = "completed" => s = "active"
BY DEF SessionStatus, CanTransition, SessionTransitions

\* The initial state satisfies the invariant.
LEMMA InterviewsInitInv == InterviewsInit => InterviewsInv
<1> SUFFICES ASSUME InterviewsInit PROVE InterviewsInv
  OBVIOUS
<1>1. InterviewsTypeOK
  BY DEF InterviewsInit, InterviewsTypeOK, SessionStatus, CallerOps
<1>2. \A c \in Callers : ivOp[c] = CallerIdle
  BY DEF InterviewsInit
<1>3. QED
  BY <1>1, <1>2 DEF InterviewsInit, InterviewsInv, SessionRowInv, CallInv, OneDispatcher, OneVoiceSession,
     TimestampsTellTheStory, Terminal, CallerIdle

\* A step that moves one caller to an operation for which the invariant's
\* clauses hold, and that is no dispatch, keeps the invariant.
LEMMA MoveKeeps ==
    ASSUME InterviewsInv, NEW c \in Callers, NEW o \in CallerOps, CallMoves(c, o), o.pc # "dispatch",
           o.pc \in {"checked", "inTx"} /\ o.start => o.to = "starting",
           o.pc = "inTx" => /\ CanTransition(o.seen, o.to)
                            /\ o.now \in 1 .. ivChanges + 1
                            /\ o.seen = "active" => 0 < ivStartedAt /\ ivStartedAt < o.now
    PROVE  InterviewsInv'
<1>1. /\ UNCHANGED <<ivStatus, ivExternal, ivStartedAt, ivEndedAt, ivChanges, ivTasks>>
      /\ ivOp' = [ivOp EXCEPT ![c] = o]
  BY DEF CallMoves, ivRow
<1>2. InterviewsTypeOK'
  BY <1>1 DEF InterviewsInv, InterviewsTypeOK
<1>3. ivOp'[c] = o /\ \A d \in Callers : d # c => ivOp'[d] = ivOp[d]
  BY <1>1 DEF InterviewsInv, InterviewsTypeOK
<1>4. ASSUME NEW d \in Callers PROVE CallInv(d)'
  <2>1. CASE d = c
    BY <1>1, <1>3, <2>1 DEF CallInv, CanTransition
  <2>2. CASE d # c
    BY <1>1, <1>3, <2>2 DEF InterviewsInv, CallInv, CanTransition
  <2>3. QED BY <2>1, <2>2
<1>5. OneDispatcher'
  BY <1>3 DEF InterviewsInv, OneDispatcher
<1>6. SessionRowInv' /\ OneVoiceSession' /\ TimestampsTellTheStory'
  BY <1>1 DEF InterviewsInv, SessionRowInv, OneVoiceSession, TimestampsTellTheStory
<1>7. QED BY <1>2, <1>4, <1>5, <1>6 DEF InterviewsInv

-----------------------------------------------------------------------------
\* Service.Start and the checks of Stop and of a status event.
LEMMA CheckKeeps ==
    ASSUME InterviewsInv, NEW c \in Callers,
           Start(c) \/ \E to \in SessionStatus : CheckTransition(c, to)
    PROVE  InterviewsInv'
<1>1. PICK to \in SessionStatus, start \in BOOLEAN :
          /\ CallMoves(c, [pc |-> "checked", to |-> to, start |-> start])
          /\ start => to = "starting"
  <2>1. CASE Start(c)
    BY <2>1 DEF Start, CallMoves, SessionStatus
  <2>2. CASE \E to \in SessionStatus : CheckTransition(c, to)
    BY <2>2 DEF CheckTransition, CallMoves
  <2>3. QED BY <2>1, <2>2
<1> DEFINE o == [pc |-> "checked", to |-> to, start |-> start]
<1>2. o \in CallerOps /\ o.pc = "checked" /\ o.to = to /\ o.start = start
  BY DEF CallerOps
<1>3. QED BY <1>1, <1>2, MoveKeeps

\* The second read validates against the row and takes the time.
LEMMA ReadInTxKeeps ==
    ASSUME InterviewsInv, NEW c \in Callers, ReadInTx(c)
    PROVE  InterviewsInv'
<1> DEFINE o == [pc |-> "inTx", to |-> ivOp[c].to, start |-> ivOp[c].start,
                 seen |-> ivStatus, now |-> ivChanges + 1]
<1>1. ivOp[c] \in [pc : {"checked"}, to : SessionStatus, start : BOOLEAN]
  BY DEF InterviewsInv, InterviewsTypeOK, CallerOps, CallerIdle, ReadInTx
<1>2. ivStatus \in SessionStatus /\ ivChanges \in Nat /\ ivStartedAt \in Nat
  BY DEF InterviewsInv, InterviewsTypeOK
<1>3. o \in CallerOps
  BY <1>1, <1>2 DEF CallerOps
<1>4. CallMoves(c, o)
  BY DEF ReadInTx, CallMoves
<1>5. CanTransition(ivStatus, ivOp[c].to) /\ ivOp[c].pc = "checked"
  BY DEF ReadInTx
<1>6. ivOp[c].start => ivOp[c].to = "starting"
  BY <1>5 DEF InterviewsInv, CallInv
<1>7. ivStatus = "active" => 0 < ivStartedAt /\ ivStartedAt < ivChanges + 1
  BY <1>2 DEF InterviewsInv, SessionRowInv, TimestampsTellTheStory
<1>8. ivChanges + 1 \in 1 .. ivChanges + 1
  BY <1>2
<1>9. QED BY <1>3, <1>4, <1>5, <1>6, <1>7, <1>8, MoveKeeps

\* Giving up forgets the caller's operation.
LEMMA GiveUpKeeps ==
    ASSUME InterviewsInv, NEW c \in Callers, GiveUp(c)
    PROVE  InterviewsInv'
<1>1. CallerIdle \in CallerOps /\ CallerIdle.pc = "idle"
  BY DEF CallerOps, CallerIdle
<1>2. CallMoves(c, CallerIdle)
  BY DEF GiveUp, CallMoves
<1>3. QED BY <1>1, <1>2, MoveKeeps

\* The dispatch uses up the one permission its commit obtained.
LEMMA DispatchKeeps ==
    ASSUME InterviewsInv, NEW c \in Callers, DispatchVoiceSession(c)
    PROVE  InterviewsInv'
<1>1. /\ UNCHANGED <<ivStatus, ivExternal, ivStartedAt, ivEndedAt, ivChanges>>
      /\ ivOp' = [ivOp EXCEPT ![c] = CallerIdle]
      /\ ivTasks' \in {ivTasks, ivTasks + 1}
      /\ ivOp[c].pc = "dispatch"
  BY DEF DispatchVoiceSession, ivRow
<1>2. ivExternal /\ ivStatus # "pending" /\ ivTasks = 0
  BY <1>1 DEF InterviewsInv, CallInv
<1>3. CallerIdle \in CallerOps /\ CallerIdle.pc = "idle"
  BY DEF CallerOps, CallerIdle
<1>4. InterviewsTypeOK'
  BY <1>1, <1>2, <1>3 DEF InterviewsInv, InterviewsTypeOK
<1>5. /\ ivOp'[c] = CallerIdle
      /\ \A d \in Callers : d # c => ivOp'[d] = ivOp[d] /\ ivOp[d].pc # "dispatch"
  BY <1>1 DEF InterviewsInv, InterviewsTypeOK, OneDispatcher
<1>6. ASSUME NEW d \in Callers PROVE CallInv(d)'
  <2>1. CASE d = c
    BY <1>3, <1>5, <2>1 DEF CallInv
  <2>2. CASE d # c
    BY <1>1, <1>5, <2>2 DEF InterviewsInv, CallInv, CanTransition
  <2>3. QED BY <2>1, <2>2
<1>7. OneDispatcher'
  BY <1>3, <1>5 DEF OneDispatcher
<1>8. SessionRowInv' /\ OneVoiceSession'
  BY <1>1, <1>2 DEF InterviewsInv, SessionRowInv, OneVoiceSession
<1>9. TimestampsTellTheStory'
  BY <1>1 DEF InterviewsInv, TimestampsTellTheStory
<1>10. QED BY <1>4, <1>6, <1>7, <1>8, <1>9 DEF InterviewsInv

-----------------------------------------------------------------------------
\* What the guard of the UPDATE and the transaction's check give a commit: the
\* row moves along an edge of the table.
LEMMA CommitFollowsTable ==
    ASSUME InterviewsInv, NEW c \in Callers, Commit(c)
    PROVE  /\ ivOp[c] \in [pc : {"inTx"}, to : SessionStatus, start : BOOLEAN, seen : SessionStatus, now : Nat]
           /\ CanTransition(ivStatus, ivStatus') /\ ivStatus' = ivOp[c].to /\ ivStatus = ivOp[c].seen
           /\ ivOp[c].now \in 1 .. ivChanges + 1
           /\ ivStatus = "active" => 0 < ivStartedAt /\ ivStartedAt < ivOp[c].now
           /\ ivOp[c].start => ivOp[c].to = "starting"
<1>1. ivOp[c] \in [pc : {"inTx"}, to : SessionStatus, start : BOOLEAN, seen : SessionStatus, now : Nat]
  BY DEF InterviewsInv, InterviewsTypeOK, CallerOps, CallerIdle, Commit
<1>2. QED BY <1>1 DEF InterviewsInv, CallInv, Commit

\* The guarded UPDATE, conjunct by conjunct.
LEMMA CommitKeeps ==
    ASSUME InterviewsInv, NEW c \in Callers, Commit(c)
    PROVE  InterviewsInv'
<1> DEFINE o == ivOp[c]
           next == IF o.start THEN [pc |-> "dispatch"] ELSE CallerIdle
<1>1. /\ o \in [pc : {"inTx"}, to : SessionStatus, start : BOOLEAN, seen : SessionStatus, now : Nat]
      /\ CanTransition(ivStatus, ivStatus') /\ ivStatus' = o.to /\ ivStatus = o.seen
      /\ o.now \in 1 .. ivChanges + 1
      /\ ivStatus = "active" => 0 < ivStartedAt /\ ivStartedAt < o.now
      /\ o.start => o.to = "starting"
  BY CommitFollowsTable
<1>2. /\ ivExternal' = (ivExternal \/ o.start)
      /\ ivStartedAt' = IF o.to = "active" THEN o.now ELSE ivStartedAt
      /\ ivEndedAt' = IF o.to \in Terminal THEN o.now ELSE ivEndedAt
      /\ ivChanges' = ivChanges + 1
      /\ ivOp' = [ivOp EXCEPT ![c] = next]
      /\ ivTasks' = ivTasks
  BY DEF Commit
<1>3. /\ ivStatus \in SessionStatus /\ ivStatus' \in SessionStatus /\ ivChanges \in Nat
      /\ ivStartedAt \in Nat /\ ivEndedAt \in Nat /\ ivExternal \in BOOLEAN
      /\ o.now \in Nat /\ o.start \in BOOLEAN /\ ivTasks \in Nat
  BY <1>1 DEF InterviewsInv, InterviewsTypeOK
<1>4. /\ ivStatus' # "pending"
      /\ ivStatus' = "starting" => ivStatus = "pending"
      /\ ivStatus' = "active" => ivStatus = "starting"
      /\ ivStatus \in {"pending", "starting", "active"}
      /\ ivStatus' = "completed" => ivStatus = "active"
  BY <1>1, <1>3, TableFacts
<1>5. next \in CallerOps /\ next.pc = (IF o.start THEN "dispatch" ELSE "idle")
  BY <1>3 DEF CallerOps, CallerIdle
<1>6. InterviewsTypeOK'
  <2>1. ivOp' \in [Callers -> CallerOps]
    BY <1>2, <1>5 DEF InterviewsInv, InterviewsTypeOK
  <2>2. QED BY <1>2, <1>3, <2>1 DEF InterviewsTypeOK
<1>7. ivOp'[c] = next /\ \A d \in Callers : d # c => ivOp'[d] = ivOp[d]
  BY <1>2 DEF InterviewsInv, InterviewsTypeOK
\* Before Start's commit nobody is dispatching and nothing was launched.
<1>8. o.start => /\ ivStatus = "pending" /\ ~ivExternal /\ ivTasks = 0
                 /\ \A d \in Callers : ivOp[d].pc # "dispatch"
  BY <1>1, <1>4 DEF InterviewsInv, SessionRowInv, CallInv
<1>9. ASSUME NEW d \in Callers PROVE CallInv(d)'
  <2>1. CASE d = c
    BY <1>1, <1>2, <1>4, <1>5, <1>7, <1>8, <2>1 DEF CallInv
  <2>2. CASE d # c
    <3>1. ivOp'[d] = ivOp[d] /\ CallInv(d)
      BY <1>7, <2>2 DEF InterviewsInv
    <3>2. ivOp[d].pc = "inTx" => ivOp[d].now \in 1 .. ivChanges' + 1
      BY <1>2, <1>3, <3>1 DEF CallInv
    <3>3. ivOp[d].pc = "inTx" /\ ivOp[d].seen = "active" => 0 < ivStartedAt' /\ ivStartedAt' < ivOp[d].now
      \* Were this commit the one to "active", started_at would still be NULL.
      BY <1>1, <1>2, <1>3, <1>4, <3>1 DEF InterviewsInv, CallInv, TimestampsTellTheStory
    <3>4. ivOp[d].pc = "dispatch" => ivExternal' /\ ivStatus' # "pending" /\ ivTasks' = 0
      BY <1>2, <1>4, <3>1 DEF CallInv
    <3>5. QED BY <3>1, <3>2, <3>3, <3>4 DEF CallInv, CanTransition
  <2>3. QED BY <2>1, <2>2
<1>10. OneDispatcher'
  BY <1>5, <1>7, <1>8 DEF InterviewsInv, OneDispatcher
<1>11. SessionRowInv' /\ OneVoiceSession'
  BY <1>2, <1>3, <1>4, <1>1 DEF InterviewsInv, SessionRowInv, OneVoiceSession
<1>12. TimestampsTellTheStory'
  <2>1. ivStatus' \in {"pending", "starting"} => ivStartedAt' = 0
    BY <1>1, <1>2, <1>4 DEF InterviewsInv, TimestampsTellTheStory
  <2>2. ivStatus' \in {"active", "completed"} => ivStartedAt' > 0
    BY <1>1, <1>2, <1>3, <1>4 DEF InterviewsInv, TimestampsTellTheStory
  <2>3. ivEndedAt = 0
    BY <1>3, <1>4 DEF InterviewsInv, TimestampsTellTheStory, Terminal
  <2>4. ivEndedAt' > 0 <=> ivStatus' \in Terminal
    BY <1>1, <1>2, <1>3, <2>3
  <2>5. ivEndedAt' > 0 => ivStartedAt' < ivEndedAt'
    <3>1. ivStatus # "active" => ivStartedAt = 0
      BY <1>4 DEF InterviewsInv, TimestampsTellTheStory
    <3>2. QED BY <1>1, <1>2, <1>3, <2>4, <3>1 DEF Terminal
  <2>6. QED BY <2>1, <2>2, <2>4, <2>5 DEF TimestampsTellTheStory
<1>13. QED BY <1>6, <1>9, <1>10, <1>11, <1>12 DEF InterviewsInv

\* Every step keeps the invariant.
LEMMA InterviewsNextKeeps == InterviewsInv /\ [InterviewsNext]_interviewsVars => InterviewsInv'
<1> SUFFICES ASSUME InterviewsInv, [InterviewsNext]_interviewsVars PROVE InterviewsInv'
  OBVIOUS
<1>1. CASE UNCHANGED interviewsVars
  BY <1>1 DEF interviewsVars, ivRow, InterviewsInv, InterviewsTypeOK, SessionRowInv, CallInv, OneDispatcher, CanTransition,
     OneVoiceSession, TimestampsTellTheStory
<1>2. ASSUME NEW c \in Callers,
             \/ Start(c)
             \/ \E to \in SessionStatus : CheckTransition(c, to)
             \/ ReadInTx(c) \/ Commit(c) \/ DispatchVoiceSession(c) \/ GiveUp(c)
      PROVE  InterviewsInv'
  BY <1>2, CheckKeeps, ReadInTxKeeps, CommitKeeps, DispatchKeeps, GiveUpKeeps
<1>3. QED BY <1>1, <1>2 DEF InterviewsNext

-----------------------------------------------------------------------------
\* The strengthened invariant holds throughout.
THEOREM InterviewsInvariant == InterviewsSpec => []InterviewsInv
<1>1. InterviewsInit => InterviewsInv
  BY InterviewsInitInv
<1>2. InterviewsInv /\ [InterviewsNext]_interviewsVars => InterviewsInv'
  BY InterviewsNextKeeps
<1>3. QED BY <1>1, <1>2, PTL DEF InterviewsSpec

\* Every column keeps its shape, for any number of callers.
THEOREM InterviewsType == InterviewsSpec => []InterviewsTypeOK
<1>1. InterviewsInv => InterviewsTypeOK
  BY DEF InterviewsInv
<1>2. QED BY <1>1, InterviewsInvariant, PTL

\* Racing starts launch one voice session at most.
THEOREM LaunchesOnce == InterviewsSpec => []OneVoiceSession
<1>1. InterviewsInv => OneVoiceSession
  BY DEF InterviewsInv
<1>2. QED BY <1>1, InterviewsInvariant, PTL

\* started_at and ended_at agree with the status and with each other.
THEOREM InterviewTimestamps == InterviewsSpec => []TimestampsTellTheStory
<1>1. InterviewsInv => TimestampsTellTheStory
  BY DEF InterviewsInv
<1>2. QED BY <1>1, InterviewsInvariant, PTL

\* The session implements the abstract table: its initial status is the
\* table's, and every step of any caller is a step of the table or leaves the
\* status alone.
THEOREM SessionFollowsItsTable == InterviewsSpec => FollowsTransitionTable
<1>1. InterviewsInit => Table!Init
  BY DEF InterviewsInit, Table!Init
<1>2. InterviewsInv /\ [InterviewsNext]_interviewsVars => [Table!Next]_ivStatus
  <2> SUFFICES ASSUME InterviewsInv, [InterviewsNext]_interviewsVars PROVE [Table!Next]_ivStatus
    OBVIOUS
  <2>1. CASE UNCHANGED interviewsVars
    BY <2>1 DEF interviewsVars, ivRow
  <2>2. ASSUME NEW c \in Callers, Commit(c)
        PROVE  Table!Next
    <3>1. CanTransition(ivStatus, ivStatus') /\ ivStatus \in SessionStatus /\ ivStatus' \in SessionStatus
      BY <2>2, CommitFollowsTable DEF InterviewsInv, InterviewsTypeOK
    <3>2. <<ivStatus, ivStatus'>> \in SessionEdges
      BY <3>1 DEF SessionEdges
    <3>3. QED BY <3>2 DEF Table!Next
  <2>3. ASSUME NEW c \in Callers,
               \/ Start(c)
               \/ \E to \in SessionStatus : CheckTransition(c, to)
               \/ ReadInTx(c) \/ DispatchVoiceSession(c) \/ GiveUp(c)
        PROVE  UNCHANGED ivStatus
    BY <2>3 DEF Start, CheckTransition, ReadInTx, DispatchVoiceSession, GiveUp, ivRow
  <2>4. QED BY <2>1, <2>2, <2>3 DEF InterviewsNext
<1>3. QED
  BY <1>1, <1>2, InterviewsInvariant, PTL DEF InterviewsSpec, FollowsTransitionTable, Table!Spec

-----------------------------------------------------------------------------
\* The arithmetic of a score: Scoring.tla.

\* A non-empty set of natural numbers has a least element.
LEMMA LeastNumber ==
    ASSUME NEW S \in SUBSET Nat, S # {}
    PROVE  \E k \in S : \A n \in S : k <= n
<1>1. PICK k \in S : \A n \in S : ~ (<<n, k>> \in OpToRel(<, Nat))
  BY NatLessThanWellFounded, WFMin
<1>2. \A n \in S : ~ (n < k)
  BY <1>1 DEF OpToRel
<1>3. QED
  BY <1>2

\* A share of a finite set is a whole number of percents.
LEMMA ShareIsPercent ==
    ASSUME NEW A, NEW B, IsFiniteSet(B), B # {}, A \subseteq B
    PROVE  (100 * Cardinality(A)) \div Cardinality(B) \in 0..100
<1>1. /\ IsFiniteSet(A) /\ Cardinality(A) \in Nat /\ Cardinality(B) \in Nat
      /\ Cardinality(A) <= Cardinality(B) /\ Cardinality(B) # 0
  BY FS_Subset, FS_CardinalityType, FS_EmptySet
<1>2. PICK a \in Nat, b \in Nat : a = Cardinality(A) /\ b = Cardinality(B)
  BY <1>1
<1>3. a <= b /\ b > 0
  BY <1>1, <1>2
<1>4. PICK q \in Int : q = (100 * a) \div b
  BY <1>3
<1>5. q * b <= 100 * a /\ 100 * a < (q + 1) * b
  BY <1>3, <1>4
<1>6. q >= 0
  <2>1. SUFFICES ASSUME q + 1 <= 0 PROVE FALSE
    OBVIOUS
  <2>2. (q + 1) * b <= 0
    BY <1>3, <2>1
  <2>3. QED
    BY <1>5, <2>2
<1>7. q <= 100
  <2>1. SUFFICES ASSUME q >= 101 PROVE FALSE
    OBVIOUS
  <2>2. q * b >= 101 * b
    BY <1>3, <2>1
  <2>3. QED
    BY <1>3, <1>5, <2>2
<1>8. QED
  BY <1>2, <1>4, <1>6, <1>7

\* So are the two comparisons of the factors.
LEMMA OverlapsArePercents ==
    ASSUME NEW A, NEW B
    PROVE  /\ IsFiniteSet(A) => SkillOverlap(A, B) \in 0..100
           /\ IsFiniteSet(B) => KeywordOverlap(A, B) \in 0..100
BY ShareIsPercent DEF SkillOverlap, KeywordOverlap

\* The places of the scores of at least x among n.
AtLeast(s, n, x) == {i \in 1..n : s[i] >= x}

\* Fewer than k of them are above the greatest score that k of them reach.
LEMMA GreatestReached ==
    ASSUME NEW s, NEW n, NEW k \in Nat,
           \A x \in Int : Cardinality(AtLeast(s, n, x)) \in Nat,
           k <= Cardinality(AtLeast(s, n, 0)), Cardinality(AtLeast(s, n, 101)) < k
    PROVE  \E x \in 0..100 : /\ k <= Cardinality(AtLeast(s, n, x))
                             /\ Cardinality(AtLeast(s, n, x + 1)) < k
<1> DEFINE Reached(x) == k <= Cardinality(AtLeast(s, n, x))
           Low == {d \in 0..100 : Reached(100 - d)}
<1>1. Reached(0) /\ ~ Reached(101)
  BY DEF Reached
<1>2. \A x \in Int : Reached(x) \/ Cardinality(AtLeast(s, n, x)) < k
  BY DEF Reached
<1>3. \A x : Reached(x) => k <= Cardinality(AtLeast(s, n, x))
  BY DEF Reached
<1> HIDE DEF Reached
<1>4. 100 \in Low /\ Low \in SUBSET Nat
  <2>1. 100 - 100 = 0
    OBVIOUS
  <2>2. QED
    BY <1>1, <2>1
<1>5. PICK d \in Low : \A e \in Low : d <= e
  <2> HIDE DEF Low
  <2>1. QED
    BY <1>4, LeastNumber
<1>6. d \in 0..100 /\ Reached(100 - d)
  BY <1>5
<1>7. PICK x \in 0..100 : x = 100 - d
  BY <1>6
<1>8. Reached(x)
  BY <1>6, <1>7
<1>9. ~ Reached(x + 1)
  <2>1. CASE d = 0
    <3>1. x + 1 = 101
      BY <1>7, <2>1
    <3>2. QED
      BY <1>1, <3>1
  <2>2. CASE d # 0
    <3>1. PICK e \in 0..100 : e = d - 1
      BY <1>6, <2>2
    <3>2. e \notin Low
      BY <1>5, <1>6, <3>1
    <3>3. ~ Reached(100 - e)
      BY <3>2
    <3>4. 100 - e = x + 1
      BY <1>6, <1>7, <3>1
    <3>5. QED
      BY <3>3, <3>4
  <2>3. QED
    BY <2>1, <2>2
<1>10. x + 1 \in Int
  OBVIOUS
<1>11. QED
  BY <1>2, <1>3, <1>8, <1>9, <1>10

\* Of n scores there is a k-th best for every k up to n.
LEMMA KthBest ==
    ASSUME NEW n \in Nat, NEW s, \A i \in 1..n : s[i] \in 0..100, NEW k \in 1..n
    PROVE  \E x \in {s[i] : i \in 1..n} : /\ Cardinality({i \in 1..n : s[i] > x}) < k
                                          /\ k <= Cardinality({i \in 1..n : s[i] >= x})
<1>1. /\ \A x : AtLeast(s, n, x) \subseteq 1..n
      /\ \A x \in Int, i \in 1..n : i \in AtLeast(s, n, x) <=> s[i] >= x
  BY Zenon DEF AtLeast
<1>2. \A x \in Int : Cardinality(AtLeast(s, n, x)) \in Nat
  <2>1. IsFiniteSet(1..n)
    BY FS_Interval
  <2>2. QED
    BY <1>1, <2>1, FS_Subset, FS_CardinalityType
<1>3. k <= Cardinality(AtLeast(s, n, 0))
  <2>1. \A i \in 1..n : i \in AtLeast(s, n, 0)
    BY <1>1
  <2>2. AtLeast(s, n, 0) = 1..n
    BY <1>1, <2>1, Zenon
  <2>3. Cardinality(1..n) = n
    BY FS_Interval
  <2>4. QED
    BY <2>2, <2>3
<1>4. Cardinality(AtLeast(s, n, 101)) < k
  <2>1. \A i \in 1..n : i \notin AtLeast(s, n, 101)
    BY <1>1
  <2>2. AtLeast(s, n, 101) = {}
    BY <1>1, <2>1, Zenon
  <2>3. QED
    BY <2>2, FS_EmptySet
<1>5. PICK x \in 0..100 : /\ k <= Cardinality(AtLeast(s, n, x))
                          /\ Cardinality(AtLeast(s, n, x + 1)) < k
  <2>1. k \in Nat
    OBVIOUS
  <2>2. QED
    BY <1>2, <1>3, <1>4, <2>1, GreatestReached, Zenon
<1>6. PICK y \in Int : y = x + 1
  OBVIOUS
<1>7. \A i \in 1..n : s[i] > x <=> s[i] >= y
  BY <1>6
<1>8. {i \in 1..n : s[i] > x} = AtLeast(s, n, x + 1)
  <2>1. \A i \in 1..n : s[i] > x <=> i \in AtLeast(s, n, y)
    BY <1>1, <1>7
  <2>2. QED
    BY <1>1, <1>6, <2>1, Zenon
<1>9. \E i \in 1..n : s[i] = x
  <2>1. SUFFICES ASSUME \A i \in 1..n : s[i] # x PROVE FALSE
    OBVIOUS
  <2>2. \A i \in 1..n : i \in AtLeast(s, n, x) <=> i \in AtLeast(s, n, y)
    <3>1. \A i \in 1..n : s[i] >= x <=> s[i] >= y
      BY <1>7, <2>1
    <3>2. QED
      BY <1>1, <3>1
  <2>3. AtLeast(s, n, x) = AtLeast(s, n, x + 1)
    BY <1>1, <1>6, <2>2, Zenon
  <2>4. Cardinality(AtLeast(s, n, x)) \in Nat
    BY <1>2
  <2>5. QED
    BY <1>5, <2>3, <2>4
<1>10. /\ Cardinality({i \in 1..n : s[i] > x}) < k
      /\ k <= Cardinality({i \in 1..n : s[i] >= x})
  BY <1>5, <1>8, Zenon DEF AtLeast
<1>11. QED
  BY <1>9, <1>10, Zenon

\* So Best is one of the scores.
LEMMA BestIsScore ==
    ASSUME NEW n \in Nat, NEW s, DOMAIN s = 1..n, \A i \in 1..n : s[i] \in 0..100,
           NEW k \in 1..n
    PROVE  Best(s, k) \in 0..100
<1>1. \E x \in {s[i] : i \in DOMAIN s} : /\ Cardinality({i \in DOMAIN s : s[i] > x}) < k
                                         /\ k <= Cardinality({i \in DOMAIN s : s[i] >= x})
  BY KthBest, Zenon
<1>2. Best(s, k) \in {s[i] : i \in DOMAIN s}
  BY <1>1, Zenon DEF Best
<1>3. QED
  BY <1>2, Zenon

\* The mean of the best roles is a whole number, for one role or many.
LEMMA ExperienceIsNumber ==
    ASSUME NEW j \in JobIds, NEW profile \in Profiles
    PROVE  ExperienceMatch(Posting[j], profile.roles) \in Int
<1> DEFINE roles == profile.roles
           scores == [i \in DOMAIN roles |->
                        Better(KeywordOverlap(roles[i].title, Posting[j].title),
                               SkillOverlap(Posting[j].req, roles[i].skills))]
           n == IF Len(roles) < 3 THEN Len(roles) ELSE 3
           Unfold(f) == [k \in 0..n |-> IF k = 0 THEN 0 ELSE f[k - 1] + Best(scores, k)]
           sums == [k \in 0..n |->
                      IF k = 0 THEN 0
                      ELSE IF k = 1 THEN Best(scores, 1)
                      ELSE IF k = 2 THEN Best(scores, 1) + Best(scores, 2)
                      ELSE Best(scores, 1) + Best(scores, 2) + Best(scores, 3)]
           sum == CHOOSE f : f = Unfold(f)
<1>1. Len(roles) \in Nat /\ DOMAIN roles = 1..Len(roles)
  BY ComparedAssumption
<1>2. DOMAIN scores = 1..Len(roles) /\ \A i \in 1..Len(roles) : scores[i] \in 0..100
  <2>1. \A A, B : /\ KeywordOverlap(A, Posting[j].title) \in 0..100
                  /\ SkillOverlap(Posting[j].req, B) \in 0..100
    BY OverlapsArePercents, ComparedAssumption
  <2>2. \A a, b \in 0..100 : Better(a, b) \in 0..100
    BY DEF Better
  <2>3. QED
    BY <1>1, <2>1, <2>2, Zenon
<1> HIDE DEF scores, roles
<1>3. n \in 0..3 /\ n <= Len(roles)
  BY <1>1
<1> HIDE DEF n
<1>4. \A k \in 1..n : Best(scores, k) \in Int
  <2>1. \A k \in 1..n : k \in 1..Len(roles)
    BY <1>1, <1>3
  <2>2. \A k \in 1..Len(roles) : Best(scores, k) \in 0..100
    BY <1>1, <1>2, BestIsScore, Zenon
  <2>3. 0..100 \subseteq Int
    OBVIOUS
  <2>4. QED
    BY <2>1, <2>2, <2>3, Zenon
<1>5. sums = Unfold(sums)
  BY <1>3, <1>4
<1>6. sum = Unfold(sum)
  <2> HIDE DEF Unfold, sums
  <2>1. QED
    BY <1>5, Zenon
<1>7. n # 0 => sum[n] \in Int
  <2>1. \A k \in 0..n : sum[k] = IF k = 0 THEN 0 ELSE sum[k - 1] + Best(scores, k)
    <3> HIDE DEF sum
    <3>1. \A f : \A k \in 0..n : Unfold(f)[k] = IF k = 0 THEN 0 ELSE f[k - 1] + Best(scores, k)
      OBVIOUS
    <3>2. QED
      BY <1>6, <3>1, Zenon
  <2> HIDE DEF sum
  <2>2. sum[0] = 0
    BY <1>3, <2>1
  <2>3. n >= 1 => sum[1] \in Int
    BY <1>3, <1>4, <2>1, <2>2
  <2>4. n >= 2 => sum[2] \in Int
    BY <1>3, <1>4, <2>1, <2>3
  <2>5. n >= 3 => sum[3] \in Int
    BY <1>3, <1>4, <2>1, <2>4
  <2>6. QED
    BY <1>3, <2>3, <2>4, <2>5
<1>8. ExperienceMatch(Posting[j], roles) = IF n = 0 THEN 50 ELSE sum[n] \div n
  BY Zenon DEF ExperienceMatch, n, roles, scores
<1>9. QED
  BY <1>3, <1>7, <1>8 DEF roles

\* What the heuristic computes is a whole percent, whatever is compared.
LEMMA HeuristicIsPercent ==
    ASSUME NEW j \in JobIds, NEW profile \in Profiles
    PROVE  ComputeScore(computeFactors(Posting[j], profile)) \in 0..100
<1> DEFINE d == computeFactors(Posting[j], profile)
<1>1. d.skill \in Int /\ d.description \in Int
  <2>1. /\ SkillOverlap(Posting[j].req, profile.skills) \in 0..100
        /\ KeywordOverlap(Posting[j].text, profile.skills) \in 0..100
    BY OverlapsArePercents, ComparedAssumption, Zenon
  <2>2. QED
    BY <2>1 DEF computeFactors
<1>2. d.experience \in Int
  BY ExperienceIsNumber DEF computeFactors
<1>3. d.location \in Int
  <2>1. LocationMatch(Posting[j], profile.prefs) \in Int
    BY ComparedAssumption DEF LocationMatch
  <2>2. QED
    BY <2>1 DEF computeFactors
<1>4. d.salary \in Int
  <2>1. SalaryMatch(Posting[j], profile.prefs) \in Int
    BY ComparedAssumption DEF SalaryMatch
  <2>2. QED
    BY <2>1 DEF computeFactors
<1> HIDE DEF d
<1>5. \A x \in Int : NormalizeScore(x) \in 0..100
  BY DEF NormalizeScore
<1>6. PICK a \in Nat, b \in Nat, c \in Nat, e \in Nat, f \in Nat :
        /\ Weights.skill = a /\ Weights.experience = b /\ Weights.location = c
        /\ Weights.salary = e /\ Weights.description = f
  BY ThresholdAssumption
<1>7. PICK u \in Int, v \in Int, w \in Int, x \in Int, y \in Int :
        /\ d.skill = u /\ d.experience = v /\ d.location = w
        /\ d.salary = x /\ d.description = y
  BY <1>1, <1>2, <1>3, <1>4
<1>8. PICK t \in Nat : t = a + b + c + e + f
  OBVIOUS
<1>9. PICK m \in Int : m = u * a + v * b + w * c + x * e + y * f
  OBVIOUS
<1>10. ComputeScore(d) = IF t = 0 THEN 0 ELSE NormalizeScore(m \div t)
  BY <1>6, <1>7, <1>8, <1>9, Zenon DEF ComputeScore
<1>11. t # 0 => m \div t \in Int
  OBVIOUS
<1>12. QED
  BY <1>5, <1>10, <1>11 DEF d

-----------------------------------------------------------------------------
\* Jobs and scoring: Jobs.tla.

\* The scores there can be: what the heuristic computes for a posting, whatever
\* that is, an answer of the model, or none.
Heuristics == {ComputeScore(computeFactors(Posting[j], profile)) : j \in JobIds, profile \in Profiles}
Scored == Heuristics \cup 0..100 \cup {NoScore}
ScoreTiers == {Tier(score) : score \in Scored} \cup {"NULL"}
JobRowShapes == [status : JobStatus, saved : BOOLEAN, score : Scored, tier : ScoreTiers]
ScorerShapes == {ScorerIdle}
   \cup [pc : {"scoring"}, job : JobIds, task : BOOLEAN, mode : Modes, heuristic : Heuristics]
   \cup [pc : {"read", "chain", "approve"}, job : JobIds, score : Scored]
   \cup [pc : {"status"}, job : JobIds, score : Scored, to : JobStatus]
   \cup [pc : {"write"}, job : JobIds, score : Scored, seen : JobStatus]

JobsTyped ==
    /\ jobRow \in [JobIds -> JobRowShapes \cup {NoRow}]
    /\ jobScorer \in [Scorers -> ScorerShapes]
    /\ jobDecided \subseteq JobIds

\* What a scoring s knows of a job on which no decision raced with it: a status it
\* is about to write is none of the user's, and there is no such decision.
RespectsUser(s) ==
    /\ s.pc = "status" => s.job \notin jobDecided \ jobRaced
    /\ s.pc = "write" /\ s.job \in jobDecided \ jobRaced => s.seen \in UserOwned

\* The tier in the row is the one of the score that is still to be written.
AgreesOnTier(s) ==
    s.pc \in {"read", "write"} /\ s.job \notin jobCrossed /\ readable(s.job) =>
        jobRow[s.job].tier = Tier(s.score)

JobsInv ==
    /\ JobsTyped
    /\ UserDecisionKept /\ TierFitsScore
    /\ \A w \in Scorers : RespectsUser(jobScorer[w]) /\ AgreesOnTier(jobScorer[w])

-----------------------------------------------------------------------------
\* What a scoring holds, by where it is.
LEMMA ScorerHolds ==
    ASSUME NEW s \in ScorerShapes
    PROVE  /\ s.pc \in {"idle", "scoring", "read", "write", "chain", "approve", "status"}
           /\ s.pc # "idle" => s.job \in JobIds
           /\ s.pc = "scoring" => s.mode \in Modes /\ s.heuristic \in Heuristics
           /\ s.pc \notin {"idle", "scoring"} => s.score \in Scored
           /\ s.pc = "write" => s.seen \in JobStatus
           /\ s.pc = "status" => s.to \in JobStatus
BY DEF ScorerShapes, ScorerIdle

\* A row of a job is one of its shapes.
LEMMA JobRowHolds ==
    ASSUME NEW r \in JobRowShapes \cup {NoRow}
    PROVE  r # NoRow <=> r \in JobRowShapes
BY DEF JobRowShapes, NoRow, JobStatus

\* A score is the heuristic's or one of the model's.
LEMMA FinalScoreIsScored ==
    ASSUME NEW mode \in Modes, NEW heuristic \in Heuristics, NEW answer
    PROVE  finalScore(mode, heuristic, answer) \in Scored
<1>1. llmScore(answer) \in 0..100 \cup {NoScore}
  BY DEF llmScore
<1>2. QED
  BY <1>1, ModesAssumption DEF finalScore, Scored

\* A step of a scoring that touches no row.
LEMMA ScorerMoves ==
    ASSUME JobsInv, NEW w \in Scorers, NEW s \in ScorerShapes, setScorer(w, s),
           UNCHANGED <<jobRow, jobDecided, jobRaced, jobCrossed>>,
           RespectsUser(s), AgreesOnTier(s)
    PROVE  JobsInv'
<1>1. JobsTyped'
  BY DEF JobsInv, JobsTyped, setScorer
<1>2. ASSUME NEW v \in Scorers PROVE RespectsUser(jobScorer'[v]) /\ AgreesOnTier(jobScorer'[v])
  BY DEF JobsInv, JobsTyped, setScorer
<1>3. ASSUME NEW v \in Scorers PROVE (RespectsUser(jobScorer[v]) /\ AgreesOnTier(jobScorer[v]))'
  BY <1>2 DEF RespectsUser, AgreesOnTier, readable, jobExists
<1>4. QED
  BY <1>1, <1>3 DEF JobsInv, UserDecisionKept, TierFitsScore, readable, jobExists

\* Nothing is scored or decided at first.
LEMMA JobsInitInv == JobsInit => JobsInv
<1> SUFFICES ASSUME JobsInit PROVE JobsInv
  OBVIOUS
<1>1. 0 \in Scored /\ NoScore \in Scored
  BY DEF Scored
<1>2. seededRow \in JobRowShapes /\ seededRow.tier = Tier(seededRow.score)
  BY <1>1 DEF seededRow, JobRowShapes, JobStatus, ScoreTiers
<1>3. JobsTyped
  BY <1>2 DEF JobsInit, JobsTyped, ScorerShapes
<1>4. ASSUME NEW w \in Scorers PROVE RespectsUser(jobScorer[w]) /\ AgreesOnTier(jobScorer[w])
  BY DEF JobsInit, ScorerIdle, RespectsUser, AgreesOnTier
<1>5. UserDecisionKept
  BY DEF JobsInit, UserDecisionKept
<1>6. TierFitsScore
  BY <1>2 DEF JobsInit, TierFitsScore, readable, jobExists
<1>7. QED
  BY <1>3, <1>4, <1>5, <1>6 DEF JobsInv

-----------------------------------------------------------------------------
\* An import brings rows that cannot be read, on postings without a decision.
LEMMA ScrapeKeeps ==
    ASSUME JobsInv, NEW found \in SUBSET JobIds, ScrapeSource(found)
    PROVE  JobsInv'
<1>1. importedRow \in JobRowShapes /\ importedRow.tier = "NULL"
  BY DEF importedRow, JobRowShapes, JobStatus, Scored, ScoreTiers
<1>2. \A j \in JobIds : \/ jobRow'[j] = jobRow[j]
                        \/ jobRow[j] = NoRow /\ jobRow'[j] = importedRow
  BY DEF ScrapeSource, jobExists
<1>3. JobsTyped' /\ UNCHANGED <<jobScorer, jobDecided, jobRaced, jobCrossed>>
  BY <1>1 DEF JobsInv, JobsTyped, ScrapeSource
<1>4. UserDecisionKept'
  BY <1>2, <1>3 DEF JobsInv, JobsTyped, UserDecisionKept, UserOwned, NoRow
<1>5. TierFitsScore'
  BY <1>1, <1>2, <1>3 DEF JobsInv, TierFitsScore, readable, jobExists
<1>6. ASSUME NEW w \in Scorers PROVE (RespectsUser(jobScorer[w]) /\ AgreesOnTier(jobScorer[w]))'
  <2>1. RespectsUser(jobScorer[w])'
    BY <1>3 DEF JobsInv, RespectsUser
  <2>2. jobScorer[w].pc \in {"read", "write"} => jobScorer[w].job \in JobIds
    BY ScorerHolds DEF JobsInv, JobsTyped
  <2>3. AgreesOnTier(jobScorer[w])'
    BY <1>1, <1>2, <1>3, <2>2 DEF JobsInv, AgreesOnTier, readable, jobExists
  <2>4. QED
    BY <2>1, <2>3
<1>7. QED
  BY <1>3, <1>4, <1>5, <1>6 DEF JobsInv

\* A decision races with every scoring that has read the status before it.
LEMMA UpdateJobKeeps ==
    ASSUME JobsInv, NEW j \in JobIds, NEW status \in JobStatus, UpdateJob(j, status)
    PROVE  JobsInv'
<1>1. jobRow[j] \in JobRowShapes
  BY JobRowHolds DEF JobsInv, JobsTyped, UpdateJob, jobExists
<1>2. [jobRow[j] EXCEPT !.status = status] \in JobRowShapes
  BY <1>1 DEF JobRowShapes
<1>3. /\ jobRow' = [jobRow EXCEPT ![j] = [jobRow[j] EXCEPT !.status = status]]
      /\ UNCHANGED <<jobScorer, jobCrossed>>
      /\ jobDecided' = IF status \in UserOwned THEN jobDecided \cup {j} ELSE jobDecided \ {j}
      /\ jobRaced' = IF \E w \in Scorers : holdsStatus(w, j) THEN jobRaced \cup {j} ELSE jobRaced \ {j}
  BY DEF UpdateJob
<1>4. JobsTyped'
  BY <1>2, <1>3 DEF JobsInv, JobsTyped
<1>5. /\ jobRow'[j].status = status /\ jobRow'[j].tier = jobRow[j].tier
      /\ jobRow'[j].score = jobRow[j].score /\ jobRow'[j] # NoRow
      /\ \A i \in JobIds \ {j} : jobRow'[i] = jobRow[i]
  <2>1. jobRow'[j] = [jobRow[j] EXCEPT !.status = status]
    BY <1>3 DEF JobsInv, JobsTyped
  <2>2. jobRow'[j] # NoRow
    BY <1>2, <2>1, JobRowHolds
  <2>3. QED
    BY <1>1, <1>3, <2>1, <2>2 DEF JobsInv, JobsTyped, JobRowShapes
<1>6. UserDecisionKept'
  BY <1>3, <1>5 DEF JobsInv, JobsTyped, UserDecisionKept
<1>7. jobRow[j] # NoRow
  BY DEF UpdateJob, jobExists
<1>8. TierFitsScore'
  BY <1>3, <1>5, <1>7 DEF JobsInv, TierFitsScore, readable, jobExists
<1>9. ASSUME NEW w \in Scorers PROVE (RespectsUser(jobScorer[w]) /\ AgreesOnTier(jobScorer[w]))'
  <2>1. RespectsUser(jobScorer[w])'
    BY <1>3 DEF JobsInv, RespectsUser, holdsStatus
  <2>2. jobScorer[w].pc \in {"read", "write"} => jobScorer[w].job \in JobIds
    BY ScorerHolds DEF JobsInv, JobsTyped
  <2>3. AgreesOnTier(jobScorer[w])'
    BY <1>3, <1>5, <1>7, <2>2 DEF JobsInv, AgreesOnTier, readable, jobExists
  <2>4. QED
    BY <2>1, <2>3
<1>10. QED
  BY <1>4, <1>6, <1>8, <1>9 DEF JobsInv

\* Bookmarks, and the drafts of applications, touch neither status nor score.
LEMMA ToggleSaveKeeps ==
    ASSUME JobsInv, NEW j \in JobIds, NEW kept \in BOOLEAN, ToggleSave(j, kept)
    PROVE  JobsInv'
<1>1. jobRow[j] \in JobRowShapes /\ jobRow[j] # NoRow
  BY JobRowHolds DEF JobsInv, JobsTyped, ToggleSave, jobExists
<1>2. [jobRow[j] EXCEPT !.saved = kept] \in JobRowShapes
  BY <1>1 DEF JobRowShapes
<1>3. /\ jobRow' = [jobRow EXCEPT ![j] = [jobRow[j] EXCEPT !.saved = kept]]
      /\ UNCHANGED <<jobScorer, jobDecided, jobRaced, jobCrossed>>
  BY DEF ToggleSave
<1>4. JobsTyped'
  BY <1>2, <1>3 DEF JobsInv, JobsTyped
<1>5. \A i \in JobIds : /\ jobRow'[i].status = jobRow[i].status /\ (jobRow'[i] = NoRow) = (jobRow[i] = NoRow)
                        /\ jobRow[i] # NoRow => jobRow'[i].tier = jobRow[i].tier /\ jobRow'[i].score = jobRow[i].score
  <2>1. jobRow'[j] = [jobRow[j] EXCEPT !.saved = kept]
    BY <1>3 DEF JobsInv, JobsTyped
  <2>2. jobRow'[j] # NoRow
    BY <1>2, <2>1, JobRowHolds
  <2>3. QED
    BY <1>1, <1>3, <2>1, <2>2 DEF JobsInv, JobsTyped, JobRowShapes
<1>6. UserDecisionKept' /\ TierFitsScore'
  BY <1>3, <1>5 DEF JobsInv, JobsTyped, UserDecisionKept, TierFitsScore, readable, jobExists
<1>7. ASSUME NEW w \in Scorers PROVE (RespectsUser(jobScorer[w]) /\ AgreesOnTier(jobScorer[w]))'
  <2>1. jobScorer[w].pc \in {"read", "write"} => jobScorer[w].job \in JobIds
    BY ScorerHolds DEF JobsInv, JobsTyped
  <2>2. QED
    BY <1>3, <1>5, <2>1 DEF JobsInv, RespectsUser, AgreesOnTier, readable, jobExists
<1>8. QED
  BY <1>4, <1>6, <1>7 DEF JobsInv

\* A job is deleted with all that was written about it.
LEMMA DeleteJobKeeps ==
    ASSUME JobsInv, NEW j \in JobIds, DeleteJob(j)
    PROVE  JobsInv'
<1>1. /\ jobRow' = [jobRow EXCEPT ![j] = NoRow] /\ jobDecided' = jobDecided \ {j}
      /\ UNCHANGED <<jobScorer, jobRaced, jobCrossed>>
  BY DEF DeleteJob
<1>2. JobsTyped'
  BY <1>1 DEF JobsInv, JobsTyped
<1>3. jobRow'[j] = NoRow /\ \A i \in JobIds \ {j} : jobRow'[i] = jobRow[i]
  BY <1>1 DEF JobsInv, JobsTyped
<1>4. UserDecisionKept' /\ TierFitsScore'
  BY <1>1, <1>3 DEF JobsInv, JobsTyped, UserDecisionKept, TierFitsScore, readable, jobExists
<1>5. ASSUME NEW w \in Scorers PROVE (RespectsUser(jobScorer[w]) /\ AgreesOnTier(jobScorer[w]))'
  <2>1. jobScorer[w].pc \in {"read", "write"} => jobScorer[w].job \in JobIds
    BY ScorerHolds DEF JobsInv, JobsTyped
  <2>2. QED
    BY <1>1, <1>3, <2>1 DEF JobsInv, RespectsUser, AgreesOnTier, readable, jobExists
<1>6. QED
  BY <1>2, <1>4, <1>5 DEF JobsInv

-----------------------------------------------------------------------------
\* PersistScore writes score and tier together.
LEMMA PersistKeeps ==
    ASSUME JobsInv, NEW w \in Scorers, NEW answer, persistAndReturn(w, answer)
    PROVE  JobsInv'
<1>1. PICK s \in ScorerShapes : s = jobScorer[w] /\ s.pc = "scoring"
  BY DEF JobsInv, JobsTyped, persistAndReturn
<1>2. PICK j \in JobIds : j = s.job /\ jobRow[j] \in JobRowShapes
  BY <1>1, ScorerHolds, JobRowHolds DEF JobsInv, JobsTyped, persistAndReturn, jobExists
<1>3. PICK score \in Scored : score = finalScore(s.mode, s.heuristic, answer)
  BY <1>1, ScorerHolds, FinalScoreIsScored
<1>4. PICK row \in JobRowShapes : row = scoredRow(jobRow[j], score)
  BY <1>2, <1>3 DEF scoredRow, JobRowShapes, ScoreTiers
<1>5. /\ row.score = score /\ row.tier = Tier(score) /\ row.status = jobRow[j].status /\ row # NoRow
  BY <1>2, <1>4, JobRowHolds DEF scoredRow, JobRowShapes
<1>6. /\ jobRow' = [jobRow EXCEPT ![j] = row]
      /\ jobCrossed' = IF \E v \in Scorers : stillToWrite(v, j) THEN jobCrossed \cup {j}
                       ELSE jobCrossed \ {j}
      /\ UNCHANGED <<jobDecided, jobRaced>>
  BY <1>1, <1>2, <1>3, <1>4 DEF persistAndReturn
<1>7. PICK next \in ScorerShapes :
          /\ jobScorer' = [jobScorer EXCEPT ![w] = next]
          /\ next.pc = "idle" \/ (next.pc = "read" /\ next.job = j /\ next.score = score)
  <2>1. [pc |-> "read", job |-> j, score |-> score] \in ScorerShapes /\ ScorerIdle \in ScorerShapes
        /\ ScorerIdle.pc = "idle"
    BY DEF ScorerShapes, ScorerIdle
  <2>2. jobScorer' = [jobScorer EXCEPT ![w] = [pc |-> "read", job |-> j, score |-> score]]
        \/ jobScorer' = [jobScorer EXCEPT ![w] = ScorerIdle]
    BY <1>1, <1>2, <1>3 DEF persistAndReturn, setScorer
  <2>3. QED
    BY <2>1, <2>2
<1>8. JobsTyped'
  BY <1>6, <1>7 DEF JobsInv, JobsTyped
<1>9. jobRow'[j] = row /\ \A i \in JobIds \ {j} : jobRow'[i] = jobRow[i]
  BY <1>6 DEF JobsInv, JobsTyped
<1>10. UserDecisionKept'
  BY <1>5, <1>6, <1>9 DEF JobsInv, JobsTyped, UserDecisionKept
<1>11. TierFitsScore'
  BY <1>5, <1>6, <1>9 DEF JobsInv, TierFitsScore, readable, jobExists
<1>12. ASSUME NEW v \in Scorers PROVE (RespectsUser(jobScorer[v]) /\ AgreesOnTier(jobScorer[v]))'
  <2>1. CASE v = w
    <3>1. jobScorer'[v] = next
      BY <1>7, <2>1 DEF JobsInv, JobsTyped
    <3>2. QED
      BY <1>5, <1>7, <1>9, <3>1 DEF RespectsUser, AgreesOnTier
  <2>2. CASE v # w
    <3>1. jobScorer'[v] = jobScorer[v]
      BY <1>7, <2>2 DEF JobsInv, JobsTyped
    <3>2. jobScorer[v].pc \in {"read", "write"} => jobScorer[v].job \in JobIds
      BY ScorerHolds DEF JobsInv, JobsTyped
    <3>3. QED
      BY <1>6, <1>9, <3>1, <3>2
         DEF JobsInv, RespectsUser, AgreesOnTier, readable, jobExists, stillToWrite
  <2>3. QED
    BY <2>1, <2>2
<1>13. QED
  BY <1>8, <1>10, <1>11, <1>12 DEF JobsInv

\* UpdateMatchScore writes the score alone: the tier is that score's already.
LEMMA ApplyWriteKeeps ==
    ASSUME JobsInv, NEW w \in Scorers, ApplyMatchScoreWrite(w)
    PROVE  JobsInv'
<1>1. PICK s \in ScorerShapes : s = jobScorer[w] /\ s.pc = "write"
  BY DEF JobsInv, JobsTyped, ApplyMatchScoreWrite
<1>2. PICK j \in JobIds : j = s.job /\ s.score \in Scored /\ s.seen \in JobStatus
  BY <1>1, ScorerHolds
<1>3. PICK to : to = statusFromScore(s.seen, s.score)
  OBVIOUS
<1>4. to \in JobStatus /\ (s.seen \in UserOwned => to = s.seen)
  BY <1>2, <1>3 DEF statusFromScore, JobStatus, UserOwned
<1>5. PICK next \in ScorerShapes :
          /\ jobScorer' = [jobScorer EXCEPT ![w] = next]
          /\ next.pc = "chain" \/ (next.pc = "status" /\ next.job = j /\ to # s.seen)
  <2>1. /\ [pc |-> "status", job |-> j, score |-> s.score, to |-> to] \in ScorerShapes
        /\ [pc |-> "chain", job |-> j, score |-> s.score] \in ScorerShapes
    BY <1>2, <1>4 DEF ScorerShapes
  <2>2. \/ /\ jobScorer' = [jobScorer EXCEPT ![w] = [pc |-> "status", job |-> j, score |-> s.score, to |-> to]]
           /\ to # s.seen
        \/ jobScorer' = [jobScorer EXCEPT ![w] = [pc |-> "chain", job |-> j, score |-> s.score]]
    BY <1>1, <1>2, <1>3 DEF ApplyMatchScoreWrite, setScorer
  <2>3. QED
    BY <2>1, <2>2
<1>6. UNCHANGED <<jobDecided, jobRaced, jobCrossed>>
  BY DEF ApplyMatchScoreWrite
<1>7. \A i \in JobIds \ {j} : jobRow'[i] = jobRow[i]
  BY <1>1, <1>2 DEF ApplyMatchScoreWrite, JobsInv, JobsTyped
<1>8. CASE jobRow[j] # NoRow
  <2>1. jobRow[j] \in JobRowShapes
    BY <1>8, JobRowHolds DEF JobsInv, JobsTyped
  <2>2. PICK row \in JobRowShapes : row = [jobRow[j] EXCEPT !.score = s.score]
    BY <1>2, <2>1 DEF JobRowShapes
  <2>3. row.status = jobRow[j].status /\ row.tier = jobRow[j].tier /\ row.score = s.score /\ row # NoRow
    BY <2>1, <2>2, JobRowHolds DEF JobRowShapes
  <2>4. jobRow' = [jobRow EXCEPT ![j] = row]
    BY <1>1, <1>2, <1>8, <2>2 DEF ApplyMatchScoreWrite, jobExists
  <2>5. jobRow'[j] = row /\ JobsTyped'
    BY <1>5, <1>6, <2>4 DEF JobsInv, JobsTyped
  <2>6. UserDecisionKept'
    BY <1>6, <1>7, <2>3, <2>5 DEF JobsInv, JobsTyped, UserDecisionKept
  <2>7. TierFitsScore'
    <3>1. j \notin jobCrossed /\ readable(j) => row.tier = Tier(s.score)
      BY <1>1, <1>2, <2>3 DEF JobsInv, AgreesOnTier
    <3>2. readable(j)' = readable(j)
      BY <1>8, <2>3, <2>5 DEF readable, jobExists
    <3>3. QED
      BY <1>6, <1>7, <2>3, <2>5, <3>1, <3>2 DEF JobsInv, TierFitsScore, readable, jobExists
  <2>8. ASSUME NEW v \in Scorers PROVE (RespectsUser(jobScorer[v]) /\ AgreesOnTier(jobScorer[v]))'
    <3>1. CASE v = w
      <4>1. jobScorer'[v] = next
        BY <1>5, <3>1 DEF JobsInv, JobsTyped
      <4>2. next.pc = "status" => j \notin jobDecided \ jobRaced
        BY <1>1, <1>2, <1>4, <1>5 DEF JobsInv, RespectsUser
      <4>3. QED
        BY <1>5, <1>6, <4>1, <4>2 DEF RespectsUser, AgreesOnTier
    <3>2. CASE v # w
      <4>1. jobScorer'[v] = jobScorer[v]
        BY <1>5, <3>2 DEF JobsInv, JobsTyped
      <4>2. jobScorer[v].pc \in {"read", "write"} => jobScorer[v].job \in JobIds
        BY ScorerHolds DEF JobsInv, JobsTyped
      <4>3. QED
        BY <1>6, <1>7, <1>8, <2>3, <2>5, <4>1, <4>2
           DEF JobsInv, RespectsUser, AgreesOnTier, readable, jobExists
    <3>3. QED
      BY <3>1, <3>2
  <2>9. QED
    BY <2>5, <2>6, <2>7, <2>8 DEF JobsInv
<1>9. CASE jobRow[j] = NoRow
  <2>1. UNCHANGED jobRow
    BY <1>1, <1>2, <1>9 DEF ApplyMatchScoreWrite, jobExists
  <2>2. next.pc = "chain"
    <3>1. jobScorer' = [jobScorer EXCEPT ![w] = [pc |-> "chain", job |-> j, score |-> s.score]]
      BY <1>1, <1>2, <1>9 DEF ApplyMatchScoreWrite, jobExists, setScorer
    <3>2. QED
      BY <1>5, <3>1 DEF JobsInv, JobsTyped
  <2>3. RespectsUser(next) /\ AgreesOnTier(next)
    BY <2>2 DEF RespectsUser, AgreesOnTier
  <2>4. QED
    BY <1>5, <1>6, <2>1, <2>3, ScorerMoves DEF setScorer
<1>10. QED
  BY <1>8, <1>9

\* The unconditional UPDATE of the status: of a job whose decision, if there is
\* one, raced with this scoring.
LEMMA ApplyStatusKeeps ==
    ASSUME JobsInv, NEW w \in Scorers, ApplyMatchScoreStatus(w)
    PROVE  JobsInv'
<1>1. PICK s \in ScorerShapes : s = jobScorer[w] /\ s.pc = "status"
  BY DEF JobsInv, JobsTyped, ApplyMatchScoreStatus
<1>2. PICK j \in JobIds : j = s.job /\ s.to \in JobStatus /\ s.score \in Scored
  BY <1>1, ScorerHolds
<1>3. PICK next \in ScorerShapes : jobScorer' = [jobScorer EXCEPT ![w] = next] /\ next.pc = "chain"
  <2>1. [pc |-> "chain", job |-> j, score |-> s.score] \in ScorerShapes
    BY <1>2 DEF ScorerShapes
  <2>2. QED
    BY <1>1, <1>2, <2>1 DEF ApplyMatchScoreStatus, setScorer
<1>4. UNCHANGED <<jobDecided, jobRaced, jobCrossed>> /\ j \notin jobDecided \ jobRaced
  BY <1>1, <1>2 DEF ApplyMatchScoreStatus, JobsInv, RespectsUser
<1>5. RespectsUser(next) /\ AgreesOnTier(next)
  BY <1>3 DEF RespectsUser, AgreesOnTier
<1>6. CASE jobRow[j] # NoRow
  <2>1. jobRow[j] \in JobRowShapes
    BY <1>6, JobRowHolds DEF JobsInv, JobsTyped
  <2>2. PICK row \in JobRowShapes : row = [jobRow[j] EXCEPT !.status = s.to]
    BY <1>2, <2>1 DEF JobRowShapes
  <2>3. row.tier = jobRow[j].tier /\ row.score = jobRow[j].score /\ row # NoRow
    BY <2>1, <2>2, JobRowHolds DEF JobRowShapes
  <2>4. jobRow' = [jobRow EXCEPT ![j] = row]
    BY <1>1, <1>2, <1>6, <2>2 DEF ApplyMatchScoreStatus, jobExists
  <2>5. jobRow'[j] = row /\ JobsTyped' /\ \A i \in JobIds \ {j} : jobRow'[i] = jobRow[i]
    BY <1>3, <1>4, <2>4 DEF JobsInv, JobsTyped
  <2>6. UserDecisionKept'
    BY <1>4, <2>5 DEF JobsInv, JobsTyped, UserDecisionKept
  <2>7. TierFitsScore'
    BY <1>4, <1>6, <2>3, <2>5 DEF JobsInv, TierFitsScore, readable, jobExists
  <2>8. ASSUME NEW v \in Scorers PROVE (RespectsUser(jobScorer[v]) /\ AgreesOnTier(jobScorer[v]))'
    <3>1. jobScorer'[v] = next \/ jobScorer'[v] = jobScorer[v]
      BY <1>3 DEF JobsInv, JobsTyped
    <3>2. jobScorer[v].pc \in {"read", "write"} => jobScorer[v].job \in JobIds
      BY ScorerHolds DEF JobsInv, JobsTyped
    <3>3. QED
      BY <1>3, <1>4, <1>6, <2>3, <2>5, <3>1, <3>2
         DEF JobsInv, RespectsUser, AgreesOnTier, readable, jobExists
  <2>9. QED
    BY <2>5, <2>6, <2>7, <2>8 DEF JobsInv
<1>7. CASE jobRow[j] = NoRow
  <2>1. UNCHANGED jobRow
    BY <1>1, <1>2, <1>7 DEF ApplyMatchScoreStatus, jobExists
  <2>2. QED
    BY <1>3, <1>4, <1>5, <2>1, ScorerMoves DEF setScorer
<1>8. QED
  BY <1>6, <1>7

\* The steps that touch no row.
LEMMA QuietStepsKeep ==
    ASSUME JobsInv, NEW w \in Scorers,
           \/ \E j \in JobIds, task \in BOOLEAN, mode \in Modes, profile \in Profiles :
                 ScoreJob(w, j, task, mode, profile)
           \/ ApplyMatchScoreRead(w) \/ AnchorApproval(w) \/ CreateApproval(w) \/ AbandonScoring(w)
    PROVE  JobsInv'
<1>0. jobScorer[w] \in ScorerShapes /\ RespectsUser(jobScorer[w]) /\ AgreesOnTier(jobScorer[w])
  BY DEF JobsInv, JobsTyped
<1>1. /\ ScorerIdle \in ScorerShapes /\ ScorerIdle.pc = "idle"
      /\ \A s \in ScorerShapes : s.pc \notin {"read", "write", "status"} => RespectsUser(s) /\ AgreesOnTier(s)
  BY DEF ScorerShapes, ScorerIdle, RespectsUser, AgreesOnTier
<1>2. ASSUME NEW j \in JobIds, NEW task \in BOOLEAN, NEW mode \in Modes, NEW profile \in Profiles,
             ScoreJob(w, j, task, mode, profile)
      PROVE  JobsInv'
  <2>1. PICK h \in Heuristics : h = ComputeScore(computeFactors(Posting[j], profile))
    BY DEF Heuristics
  <2>2. [pc |-> "scoring", job |-> j, task |-> task, mode |-> mode, heuristic |-> h] \in ScorerShapes
    BY DEF ScorerShapes
  <2>3. QED
    BY <1>1, <1>2, <2>1, <2>2, ScorerMoves DEF ScoreJob
<1>3. CASE ApplyMatchScoreRead(w)
  <2>1. PICK j \in JobIds : j = jobScorer[w].job /\ jobScorer[w].score \in Scored /\ jobScorer[w].pc = "read"
    BY <1>0, <1>3, ScorerHolds DEF ApplyMatchScoreRead
  <2>2. CASE readable(j)
    <3>1. PICK status \in JobStatus : status = jobRow[j].status
      BY <2>2, JobRowHolds DEF readable, jobExists, JobsInv, JobsTyped, JobRowShapes
    <3> DEFINE s == [pc |-> "write", job |-> j, score |-> jobScorer[w].score, seen |-> status]
    <3>2. s \in ScorerShapes
      BY <2>1 DEF ScorerShapes
    <3>3. RespectsUser(s)
      BY <3>1 DEF RespectsUser, JobsInv, UserDecisionKept
    <3>4. AgreesOnTier(s)
      BY <1>0, <2>1 DEF AgreesOnTier
    <3>5. QED
      BY <1>3, <2>1, <2>2, <3>1, <3>2, <3>3, <3>4, ScorerMoves DEF ApplyMatchScoreRead
  <2>3. CASE ~readable(j)
    <3>1. [pc |-> "chain", job |-> j, score |-> jobScorer[w].score] \in ScorerShapes
      BY <2>1 DEF ScorerShapes
    <3>2. QED
      BY <1>1, <1>3, <2>1, <2>3, <3>1, ScorerMoves DEF ApplyMatchScoreRead
  <2>4. QED
    BY <2>2, <2>3
<1>4. CASE AnchorApproval(w)
  <2>1. jobScorer[w].job \in JobIds /\ jobScorer[w].score \in Scored
    BY <1>0, <1>4, ScorerHolds DEF AnchorApproval
  <2>2. [pc |-> "approve", job |-> jobScorer[w].job, score |-> jobScorer[w].score] \in ScorerShapes
    BY <2>1 DEF ScorerShapes
  <2>3. \/ setScorer(w, ScorerIdle)
        \/ setScorer(w, [pc |-> "approve", job |-> jobScorer[w].job, score |-> jobScorer[w].score])
    BY <1>4 DEF AnchorApproval
  <2>4. UNCHANGED <<jobRow, jobDecided, jobRaced, jobCrossed>>
    BY <1>4 DEF AnchorApproval
  <2>5. QED
    BY <1>1, <2>2, <2>3, <2>4, ScorerMoves
<1>5. CASE CreateApproval(w)
  BY <1>1, <1>5, ScorerMoves DEF CreateApproval
<1>6. CASE AbandonScoring(w)
  BY <1>1, <1>6, ScorerMoves DEF AbandonScoring
<1>7. QED
  BY <1>2, <1>3, <1>4, <1>5, <1>6

-----------------------------------------------------------------------------
\* Every step keeps the invariant of the jobs.
LEMMA JobsNextKeeps == JobsInv /\ [JobsNext]_jobVars => JobsInv'
<1> SUFFICES ASSUME JobsInv, [JobsNext]_jobVars PROVE JobsInv'
  OBVIOUS
<1>1. ASSUME UNCHANGED <<jobRow, jobScorer, jobDecided, jobRaced, jobCrossed>> PROVE JobsInv'
  BY <1>1 DEF JobsInv, JobsTyped, UserDecisionKept, TierFitsScore, RespectsUser, AgreesOnTier,
     readable, jobExists
<1>2. CASE UNCHANGED jobVars
  BY <1>1, <1>2 DEF jobVars
<1>3. ASSUME NEW found \in SUBSET JobIds, ScrapeSource(found) PROVE JobsInv'
  BY <1>3, ScrapeKeeps
<1>4. ASSUME NEW j \in JobIds,
             \/ \E status \in JobStatus : UpdateJob(j, status)
             \/ \E kept \in BOOLEAN : ToggleSave(j, kept)
             \/ DeleteJob(j)
      PROVE  JobsInv'
  BY <1>4, UpdateJobKeeps, ToggleSaveKeeps, DeleteJobKeeps
<1>5. ASSUME NEW j \in JobIds, ApplyJob(j) PROVE JobsInv'
  BY <1>1, <1>5 DEF ApplyJob
<1>6. ASSUME NEW w \in Scorers,
             \/ \E j \in JobIds, task \in BOOLEAN, mode \in Modes, profile \in Profiles :
                   ScoreJob(w, j, task, mode, profile)
             \/ ApplyMatchScoreRead(w) \/ AnchorApproval(w) \/ CreateApproval(w) \/ AbandonScoring(w)
      PROVE  JobsInv'
  BY <1>6, QuietStepsKeep
<1>7. ASSUME NEW w \in Scorers,
             \/ \E answer \in callOllama(Answers) \cup {NoopAnswer} : persistAndReturn(w, answer)
             \/ ApplyMatchScoreWrite(w) \/ ApplyMatchScoreStatus(w)
      PROVE  JobsInv'
  BY <1>7, PersistKeeps, ApplyWriteKeeps, ApplyStatusKeeps
<1>8. QED
  BY <1>2, <1>3, <1>4, <1>5, <1>6, <1>7 DEF JobsNext, ScoringStep

\* ApplyMatchScore preserves user-owned statuses, for any number of scorings,
\* whatever the heuristic and the model say, unless the decision came between the
\* scoring's read of the status and its write.
THEOREM UserDecisionsKept == JobsSpec => []UserDecisionKept
<1>1. JobsInv => UserDecisionKept
  BY DEF JobsInv
<1>2. QED
  BY <1>1, JobsInitInv, JobsNextKeeps, PTL DEF JobsSpec

\* The tier of a row is that of its score, although UpdateMatchScore writes the
\* score alone, unless two scorings of the job crossed.
THEOREM TiersFitScores == JobsSpec => []TierFitsScore
<1>1. JobsInv => TierFitsScore
  BY DEF JobsInv
<1>2. QED
  BY <1>1, JobsInitInv, JobsNextKeeps, PTL DEF JobsSpec

-----------------------------------------------------------------------------
\* With the counters at hand, the shape of the jobs' state is kept as well: what a
\* scoring holds is a whole percent from the moment it is persisted.
JobsTypedInv == JobsInv /\ JobsTypeOK

\* The parts of a typed row and of a typed scoring.
LEMMA JobRecordsHold ==
    /\ \A r \in JobRows \cup {NoRow} : r # NoRow => r \in JobRows
    /\ \A r \in JobRows : /\ \A status \in JobStatus : [r EXCEPT !.status = status] \in JobRows
                          /\ \A kept \in BOOLEAN : [r EXCEPT !.saved = kept] \in JobRows
                          /\ \A score \in 0..100 : /\ scoredRow(r, score) \in JobRows
                                                   /\ [r EXCEPT !.score = score] \in JobRows
                          /\ r.status \in JobStatus
<1>1. \A score \in 0..100 : Tier(score) \in {"NULL", "auto", "review", "reject"}
  BY ThresholdAssumption DEF Tier
<1>2. QED
  BY <1>1 DEF JobRows, NoRow, JobStatus, scoredRow

\* What a typed scoring holds, by where it is.
LEMMA JobScorersHold ==
    ASSUME NEW s \in JobScorers
    PROVE  /\ s.pc = "scoring" => s.mode \in Modes /\ s.heuristic \in 0..100
           /\ s.pc \notin {"idle", "scoring"} => s.score \in 0..100
BY DEF JobScorers, ScorerIdle

\* The shapes a scoring goes through.
LEMMA JobScorersShapes ==
    ASSUME NEW j \in JobIds, NEW score \in 0..100, NEW status \in JobStatus
    PROVE  /\ ScorerIdle \in JobScorers
           /\ \A pc \in {"read", "chain", "approve"} :
                 [pc |-> pc, job |-> j, score |-> score] \in JobScorers
           /\ [pc |-> "status", job |-> j, score |-> score, to |-> status] \in JobScorers
           /\ [pc |-> "write", job |-> j, score |-> score, seen |-> status] \in JobScorers
BY DEF JobScorers, ScorerIdle

\* The persisted score is one, whoever gave it.
LEMMA FinalScoreIsPercent ==
    ASSUME NEW mode \in Modes, NEW heuristic \in 0..100, NEW answer
    PROVE  finalScore(mode, heuristic, answer) \in 0..100 \cup {NoScore}
<1>1. llmScore(answer) \in 0..100 \cup {NoScore}
  BY DEF llmScore
<1>2. QED
  BY <1>1, ModesAssumption DEF finalScore

\* A scoring goes on to s and leaves rows, drafts and counters well typed.
LEMMA ScoringIsTyped ==
    ASSUME JobsTypedInv, JobsInv', NEW w \in Scorers, NEW s \in JobScorers, setScorer(w, s),
           jobRow' = jobRow \/ \E j \in JobIds, r \in JobRows : jobRow' = [jobRow EXCEPT ![j] = r],
           jobApplications' \in [JobIds -> 0..MaxApplications],
           jobApproval' \in JobIds \cup {NoJob}, jobScorings' \in 0..MaxScorings,
           UNCHANGED <<jobDecided, jobRaced>>, jobCrossed' \subseteq JobIds
    PROVE  JobsTypedInv'
<1>1. jobRow' \in [JobIds -> JobRows \cup {NoRow}]
  BY DEF JobsTypedInv, JobsTypeOK
<1>2. jobScorer' \in [Scorers -> JobScorers]
  BY DEF JobsTypedInv, JobsTypeOK, setScorer
<1>3. QED
  BY <1>1, <1>2 DEF JobsTypedInv, JobsTypeOK

\* Seeded rows have a score and its tier; nothing else is there.
LEMMA JobsInitTyped == JobsInit => JobsTypedInv
<1> SUFFICES ASSUME JobsInit PROVE JobsTypedInv
  OBVIOUS
<1>1. seededRow \in JobRows
  <2>1. Tier(0) \in {"NULL", "auto", "review", "reject"} /\ 0 \in {NoScore} \cup 0..100
    BY ThresholdAssumption DEF Tier
  <2>2. QED
    BY <2>1 DEF seededRow, JobRows, JobStatus
<1>2. ScorerIdle \in JobScorers
  BY DEF JobScorers
<1>3. JobsTypeOK
  BY <1>1, <1>2, JobBoundsAssumption DEF JobsInit, JobsTypeOK
<1>4. QED
  BY <1>3, JobsInitInv DEF JobsTypedInv

\* The requests and the imports.
LEMMA JobRequestsTyped ==
    ASSUME JobsTypedInv, JobsInv',
           \/ \E found \in SUBSET JobIds : ScrapeSource(found)
           \/ \E j \in JobIds : \/ \E status \in JobStatus : UpdateJob(j, status)
                                \/ \E kept \in BOOLEAN : ToggleSave(j, kept)
                                \/ DeleteJob(j) \/ ApplyJob(j)
    PROVE  JobsTypedInv'
<1>1. ASSUME NEW found \in SUBSET JobIds, ScrapeSource(found) PROVE JobsTypeOK'
  <2>1. importedRow \in JobRows
    BY DEF importedRow, JobRows, JobStatus
  <2>2. QED
    BY <1>1, <2>1 DEF JobsTypedInv, JobsTypeOK, ScrapeSource
<1>2. ASSUME NEW j \in JobIds, NEW status \in JobStatus, UpdateJob(j, status) PROVE JobsTypeOK'
  <2>1. jobRow[j] \in JobRows
    BY <1>2, JobRecordsHold DEF JobsTypedInv, JobsTypeOK, UpdateJob, jobExists
  <2>2. [jobRow[j] EXCEPT !.status = status] \in JobRows
    BY <2>1, JobRecordsHold
  <2>3. jobRow' = [jobRow EXCEPT ![j] = [jobRow[j] EXCEPT !.status = status]]
    BY <1>2 DEF UpdateJob
  <2>4. QED
    BY <1>2, <2>2, <2>3 DEF JobsTypedInv, JobsTypeOK, UpdateJob
<1>3. ASSUME NEW j \in JobIds, NEW kept \in BOOLEAN, ToggleSave(j, kept) PROVE JobsTypeOK'
  <2>1. jobRow[j] \in JobRows
    BY <1>3, JobRecordsHold DEF JobsTypedInv, JobsTypeOK, ToggleSave, jobExists
  <2>2. [jobRow[j] EXCEPT !.saved = kept] \in JobRows
    BY <2>1, JobRecordsHold
  <2>3. jobRow' = [jobRow EXCEPT ![j] = [jobRow[j] EXCEPT !.saved = kept]]
    BY <1>3 DEF ToggleSave
  <2>4. QED
    BY <1>3, <2>2, <2>3 DEF JobsTypedInv, JobsTypeOK, ToggleSave
<1>4. ASSUME NEW j \in JobIds, DeleteJob(j) PROVE JobsTypeOK'
  BY <1>4 DEF JobsTypedInv, JobsTypeOK, DeleteJob
<1>5. ASSUME NEW j \in JobIds, ApplyJob(j) PROVE JobsTypeOK'
  <2>1. jobApplications' \in [JobIds -> 0..MaxApplications]
    BY <1>5, JobBoundsAssumption DEF JobsTypedInv, JobsTypeOK, ApplyJob, createDraft
  <2>2. QED
    BY <1>5, <2>1 DEF JobsTypedInv, JobsTypeOK, ApplyJob
<1>6. QED
  BY <1>1, <1>2, <1>3, <1>4, <1>5 DEF JobsTypedInv

\* The steps of a scoring.
LEMMA ScoringsTyped ==
    ASSUME JobsTypedInv, JobsInv', NEW w \in Scorers,
           \/ \E j \in JobIds, task \in BOOLEAN, mode \in Modes, profile \in Profiles :
                 ScoreJob(w, j, task, mode, profile)
           \/ ScoringStep(w) \/ AbandonScoring(w)
    PROVE  JobsTypedInv'
<1> DEFINE s == jobScorer[w]
<1>1. s \in JobScorers /\ s \in ScorerShapes
  BY DEF JobsTypedInv, JobsTypeOK, JobsInv, JobsTyped
<1>2. /\ s.pc # "idle" => s.job \in JobIds
      /\ s.pc = "scoring" => s.mode \in Modes /\ s.heuristic \in 0..100
      /\ s.pc \notin {"idle", "scoring"} => s.score \in 0..100
      /\ s.pc = "write" => s.seen \in JobStatus
      /\ s.pc = "status" => s.to \in JobStatus
  BY <1>1, ScorerHolds, JobScorersHold
<1>3. ScorerIdle \in JobScorers
  BY DEF JobScorers
<1>4. /\ jobApplications \in [JobIds -> 0..MaxApplications]
      /\ jobApproval \in JobIds \cup {NoJob} /\ jobScorings \in 0..MaxScorings
      /\ jobCrossed \subseteq JobIds /\ jobRow \in [JobIds -> JobRows \cup {NoRow}]
  BY DEF JobsTypedInv, JobsTypeOK
<1>5. \A j \in JobIds : jobExists(j) => jobRow[j] \in JobRows
  BY <1>4, JobRecordsHold DEF jobExists
<1> HIDE DEF s
<1>6. ASSUME NEW j \in JobIds, NEW task \in BOOLEAN, NEW mode \in Modes, NEW profile \in Profiles,
             ScoreJob(w, j, task, mode, profile)
      PROVE  JobsTypedInv'
  <2> DEFINE next == [pc |-> "scoring", job |-> j, task |-> task, mode |-> mode,
                      heuristic |-> ComputeScore(computeFactors(Posting[j], profile))]
  <2>1. next \in JobScorers
    BY HeuristicIsPercent DEF JobScorers
  <2>2. setScorer(w, next)
    BY <1>6 DEF ScoreJob
  <2>3. jobScorings' \in 0..MaxScorings
    BY <1>4, <1>6, JobBoundsAssumption DEF ScoreJob
  <2>4. UNCHANGED <<jobRow, jobApplications, jobApproval, jobDecided, jobRaced, jobCrossed>>
    BY <1>6 DEF ScoreJob
  <2> HIDE DEF next
  <2>5. QED
    BY <1>4, <2>1, <2>2, <2>3, <2>4, ScoringIsTyped, Zenon
<1>7. ASSUME NEW answer, persistAndReturn(w, answer) PROVE JobsTypedInv'
  <2> DEFINE score == finalScore(s.mode, s.heuristic, answer)
             next == IF s.task THEN [pc |-> "read", job |-> s.job, score |-> score] ELSE ScorerIdle
  <2>1. /\ s.pc = "scoring" /\ score # NoScore /\ jobExists(s.job)
        /\ jobRow' = [jobRow EXCEPT ![s.job] = scoredRow(jobRow[s.job], score)]
        /\ setScorer(w, next)
        /\ jobCrossed' = IF \E v \in Scorers : stillToWrite(v, s.job)
                         THEN jobCrossed \cup {s.job} ELSE jobCrossed \ {s.job}
        /\ UNCHANGED <<jobApplications, jobApproval, jobScorings, jobDecided, jobRaced>>
    BY <1>7 DEF persistAndReturn, s
  <2>2. s.job \in JobIds /\ score \in 0..100
    BY <1>2, <2>1, FinalScoreIsPercent
  <2> HIDE DEF score
  <2>3. scoredRow(jobRow[s.job], score) \in JobRows
    BY <1>5, <2>1, <2>2, JobRecordsHold
  <2>4. next \in JobScorers
    BY <1>3, <2>2 DEF JobScorers
  <2>5. jobCrossed' \subseteq JobIds
    BY <1>4, <2>1, <2>2
  <2> HIDE DEF next
  <2>6. QED
    BY <1>4, <2>1, <2>2, <2>3, <2>4, <2>5, ScoringIsTyped, Zenon
<1>8. ASSUME ApplyMatchScoreRead(w) PROVE JobsTypedInv'
  <2>1. PICK next \in JobScorers : setScorer(w, next)
    <3>1. s.pc = "read" /\ s.job \in JobIds /\ s.score \in 0..100
      BY <1>2, <1>8 DEF ApplyMatchScoreRead, s
    <3>2. [pc |-> "chain", job |-> s.job, score |-> s.score] \in JobScorers
      BY <3>1 DEF JobScorers
    <3>3. jobExists(s.job) =>
            [pc |-> "write", job |-> s.job, score |-> s.score, seen |-> jobRow[s.job].status]
                \in JobScorers
      BY <1>5, <3>1, JobRecordsHold, JobScorersShapes
    <3>4. QED
      BY <1>8, <3>2, <3>3 DEF ApplyMatchScoreRead, readable, s
  <2>2. UNCHANGED <<jobRow, jobApplications, jobApproval, jobScorings, jobDecided, jobRaced, jobCrossed>>
    BY <1>8 DEF ApplyMatchScoreRead
  <2>3. QED
    BY <1>4, <2>1, <2>2, ScoringIsTyped, Zenon
<1>9. ASSUME ApplyMatchScoreWrite(w) PROVE JobsTypedInv'
  <2> DEFINE to == statusFromScore(s.seen, s.score)
  <2>1. s.pc = "write" /\ s.job \in JobIds /\ s.score \in 0..100 /\ s.seen \in JobStatus
    BY <1>2, <1>9 DEF ApplyMatchScoreWrite, s
  <2>2. to \in JobStatus
    BY <2>1 DEF statusFromScore, JobStatus
  <2>3. /\ jobRow' = IF jobExists(s.job)
                     THEN [jobRow EXCEPT ![s.job] = [jobRow[s.job] EXCEPT !.score = s.score]] ELSE jobRow
        /\ setScorer(w, IF jobExists(s.job) /\ to # s.seen
                        THEN [pc |-> "status", job |-> s.job, score |-> s.score, to |-> to]
                        ELSE [pc |-> "chain", job |-> s.job, score |-> s.score])
        /\ UNCHANGED <<jobApplications, jobApproval, jobScorings, jobDecided, jobRaced, jobCrossed>>
    BY <1>9 DEF ApplyMatchScoreWrite, s
  <2> HIDE DEF to
  <2>4. /\ [pc |-> "status", job |-> s.job, score |-> s.score, to |-> to] \in JobScorers
        /\ [pc |-> "chain", job |-> s.job, score |-> s.score] \in JobScorers
    BY <2>1, <2>2, JobScorersShapes
  <2>5. PICK next \in JobScorers : setScorer(w, next)
    BY <2>3, <2>4
  <2>6. jobExists(s.job) => [jobRow[s.job] EXCEPT !.score = s.score] \in JobRows
    BY <1>5, <2>1, JobRecordsHold
  <2>7. jobRow' = jobRow \/ \E j \in JobIds, r \in JobRows : jobRow' = [jobRow EXCEPT ![j] = r]
    BY <2>1, <2>3, <2>6, Zenon
  <2>8. QED
    BY <1>4, <2>3, <2>5, <2>7, ScoringIsTyped, Zenon
<1>10. ASSUME ApplyMatchScoreStatus(w) PROVE JobsTypedInv'
  <2>1. s.pc = "status" /\ s.job \in JobIds /\ s.score \in 0..100 /\ s.to \in JobStatus
    BY <1>2, <1>10 DEF ApplyMatchScoreStatus, s
  <2>2. /\ jobRow' = IF jobExists(s.job)
                     THEN [jobRow EXCEPT ![s.job] = [jobRow[s.job] EXCEPT !.status = s.to]] ELSE jobRow
        /\ setScorer(w, [pc |-> "chain", job |-> s.job, score |-> s.score])
        /\ UNCHANGED <<jobApplications, jobApproval, jobScorings, jobDecided, jobRaced, jobCrossed>>
    BY <1>10 DEF ApplyMatchScoreStatus, s
  <2>3. [pc |-> "chain", job |-> s.job, score |-> s.score] \in JobScorers
    BY <2>1, JobScorersShapes
  <2>4. jobExists(s.job) => [jobRow[s.job] EXCEPT !.status = s.to] \in JobRows
    BY <1>5, <2>1, JobRecordsHold
  <2>5. jobRow' = jobRow \/ \E j \in JobIds, r \in JobRows : jobRow' = [jobRow EXCEPT ![j] = r]
    BY <2>1, <2>2, <2>4, Zenon
  <2>6. QED
    BY <1>4, <2>2, <2>3, <2>5, ScoringIsTyped, Zenon
<1>11. ASSUME AnchorApproval(w) PROVE JobsTypedInv'
  <2>1. s.pc = "chain" /\ s.job \in JobIds /\ s.score \in 0..100
    BY <1>2, <1>11 DEF AnchorApproval, s
  <2>2. jobApplications' \in [JobIds -> 0..MaxApplications]
    BY <1>4, <1>11, <2>1, JobBoundsAssumption DEF AnchorApproval, createDraft, s
  <2>3. [pc |-> "approve", job |-> s.job, score |-> s.score] \in JobScorers
    BY <2>1 DEF JobScorers
  <2>4. PICK next \in JobScorers : setScorer(w, next)
    BY <1>3, <1>11, <2>3 DEF AnchorApproval, s
  <2>5. UNCHANGED <<jobRow, jobApproval, jobScorings, jobDecided, jobRaced, jobCrossed>>
    BY <1>11 DEF AnchorApproval
  <2>6. QED
    BY <1>4, <2>2, <2>4, <2>5, ScoringIsTyped, Zenon
<1>12. ASSUME CreateApproval(w) PROVE JobsTypedInv'
  <2>1. jobApproval' \in JobIds \cup {NoJob} /\ setScorer(w, ScorerIdle)
    BY <1>2, <1>4, <1>12 DEF CreateApproval, s
  <2>2. UNCHANGED <<jobRow, jobApplications, jobScorings, jobDecided, jobRaced, jobCrossed>>
    BY <1>12 DEF CreateApproval
  <2>3. QED
    BY <1>3, <1>4, <2>1, <2>2, ScoringIsTyped, Zenon
<1>13. ASSUME AbandonScoring(w) PROVE JobsTypedInv'
  <2>1. setScorer(w, ScorerIdle)
    BY <1>13 DEF AbandonScoring
  <2>2. UNCHANGED <<jobRow, jobApplications, jobApproval, jobScorings, jobDecided, jobRaced, jobCrossed>>
    BY <1>13 DEF AbandonScoring
  <2>3. QED
    BY <1>3, <1>4, <2>1, <2>2, ScoringIsTyped, Zenon
<1>14. QED
  BY <1>6, <1>7, <1>8, <1>9, <1>10, <1>11, <1>12, <1>13, Zenon DEF ScoringStep

\* Together they are every step.
LEMMA JobsStepTyped == JobsTypedInv /\ [JobsNext]_jobVars => JobsTypedInv'
<1> SUFFICES ASSUME JobsTypedInv, [JobsNext]_jobVars PROVE JobsTypedInv'
  OBVIOUS
<1>1. JobsInv'
  BY JobsNextKeeps DEF JobsTypedInv
<1>2. CASE UNCHANGED jobVars
  BY <1>1, <1>2 DEF JobsTypedInv, JobsTypeOK, jobVars
<1>3. CASE JobsNext
  BY <1>1, <1>3, JobRequestsTyped, ScoringsTyped, Zenon DEF JobsNext
<1>4. QED
  BY <1>2, <1>3

\* Rows, scorings, drafts and counters keep their shape: every score that is stored
\* or still held is a whole percent, whatever postings and profiles are compared
\* and whatever the model answers.
THEOREM JobsType == JobsSpec => []JobsTypeOK
<1>1. JobsTypedInv => JobsTypeOK
  BY DEF JobsTypedInv
<1>2. QED
  BY <1>1, JobsInitTyped, JobsStepTyped, PTL DEF JobsSpec

-----------------------------------------------------------------------------
\* Resumes and cover letters: Resumes.tla.

\* What was saved under a version is what the document had in it, and nothing is
\* saved ahead of the document.
Kept(row, saves, history) ==
    /\ row = Absent => saves = saved
    /\ row.at = "row" =>
          /\ Len(history) = row.version /\ history[row.version] = row.content
          /\ \A v \in Versions : saves[v] # "none" => v <= row.version /\ saves[v] = history[v]

\* A version's content was saved under it, or its insert failed.
SavedOrLost(doc, saves, history, v) == saves[v] = history[v] \/ <<doc, v>> \in unsaved

\* What a writer read of the document is a version it had and, past the snapshot,
\* one that is saved.  A document once read is never created again.
WriterRead(s, row, saves, history) ==
    /\ row # Absent /\ s.seen.version < MaxVersion
    /\ row.at = "row" => /\ s.seen.version <= row.version
                         /\ history[s.seen.version] = s.seen.content
                         /\ s.pc # "read" => SavedOrLost(s.doc, saves, history, s.seen.version)

\* A letter's text and the resume version it names belong together.
Traces(version, source) == version # NoVersion =>
    /\ resume # Absent
    /\ resume.at = "row" => version <= resume.version /\ resumeHistory[version] = source

WriterSound(s) ==
    /\ s.pc # "idle" /\ s.doc = "resume" => WriterRead(s, resume, resumeVersions, resumeHistory)
    /\ s.pc # "idle" /\ s.doc = "letter" =>
          /\ WriterRead(s, letter, letterVersions, letterHistory)
          /\ letter.at = "row" /\ s.seen.version = letter.version => s.seen = letter
    /\ s.pc = "based" => Traces(s.basis, s.source)

HistoriesTyped == resumeHistory \in Seq(Contained) /\ letterHistory \in Seq(Contained)

DocInv ==
    /\ ResumesTypeOK /\ HistoriesTyped
    /\ Kept(resume, resumeVersions, resumeHistory) /\ Kept(letter, letterVersions, letterHistory)
    /\ letter.at = "row" => Traces(letter.basis, letterSource)
    /\ \A w \in Writers : WriterSound(docWriter[w])
    /\ VersionsAreRecoverable

\* What every step does to a document: its past stays what it was, and what was
\* saved stays saved.
Onward(doc, row, saves, history) ==
    /\ row # Absent => row' # Absent
    /\ row # Absent /\ row'.at = "row" =>
          /\ row.at = "row" /\ row.version <= row'.version
          /\ \A v \in 1..row.version : history'[v] = history[v]
          /\ \A v \in 1..row.version :
                SavedOrLost(doc, saves, history, v) => SavedOrLost(doc, saves, history, v)'

-----------------------------------------------------------------------------
\* A document that exists has the fields of its table.
LEMMA DocumentShapes ==
    /\ \A row \in ResumeRows \cup {Absent, Deleted} :
          IF row.at = "row" THEN row \in ResumeRows /\ row.version \in Int /\ row.version >= 1
          ELSE row \in {Absent, Deleted}
    /\ \A row \in LetterRows \cup {Absent, Deleted} :
          IF row.at = "row" THEN row \in LetterRows /\ row.version \in Int /\ row.version >= 1
          ELSE row \in {Absent, Deleted}
    /\ Absent.at # "row" /\ Deleted.at # "row" /\ Absent # Deleted
BY ResumesAssumption DEF ResumeRows, LetterRows, Absent, Deleted, Versions

\* What a writer holds, by where it is.
LEMMA WriterShapes ==
    ASSUME NEW s \in DocWriters
    PROVE  /\ s.pc \in {"idle", "read", "saved", "based"}
           /\ s.pc = "idle" => s = WriterIdle
           /\ s.pc # "idle" => s.doc \in {"resume", "letter"}
           /\ s.pc # "idle" /\ s.doc = "resume" =>
                 s \in [pc : {"read", "saved"}, doc : {"resume"}, seen : ResumeRows]
           /\ s.pc \in {"read", "saved"} /\ s.doc = "letter" =>
                 s \in [pc : {"read", "saved"}, doc : {"letter"}, seen : LetterRows]
           /\ s.pc = "based" =>
                 s \in [pc : {"based"}, doc : {"letter"}, seen : LetterRows,
                       basis : Versions \cup {NoVersion}, source : Contents \cup {NoContent}]
BY DEF DocWriters, WriterIdle

\* A version after the last is appended, the others stay.
LEMMA Appended ==
    ASSUME NEW h \in Seq(Contained), NEW c \in Contained
    PROVE  /\ Append(h, c) \in Seq(Contained) /\ Len(Append(h, c)) = Len(h) + 1
           /\ Append(h, c)[Len(h) + 1] = c
           /\ \A v \in 1..Len(h) : Append(h, c)[v] = h[v]
OBVIOUS

\* A document that a step does not touch.
LEMMA Untouched ==
    ASSUME ResumesTypeOK
    PROVE  /\ /\ UNCHANGED <<resume, resumeVersions, resumeHistory>>
              /\ \A v \in Int : <<"resume", v>> \in unsaved => <<"resume", v>> \in unsaved'
              => Onward("resume", resume, resumeVersions, resumeHistory)
           /\ /\ UNCHANGED <<letter, letterVersions, letterHistory>>
              /\ \A v \in Int : <<"letter", v>> \in unsaved => <<"letter", v>> \in unsaved'
              => Onward("letter", letter, letterVersions, letterHistory)
BY DocumentShapes DEF ResumesTypeOK, Onward, SavedOrLost

\* A writer that stands still stays sound while the documents move on.
LEMMA StaysSound ==
    ASSUME ResumesTypeOK, ResumesTypeOK', NEW s \in DocWriters, WriterSound(s),
           Onward("resume", resume, resumeVersions, resumeHistory),
           Onward("letter", letter, letterVersions, letterHistory),
           letter' # letter /\ letter.at = "row" /\ letter'.at = "row" =>
               letter'.version > letter.version
    PROVE  WriterSound(s)'
<1>1. CASE s.pc = "idle"
  BY <1>1 DEF WriterSound
<1>2. CASE s.pc # "idle" /\ s.doc = "resume"
  <2>1. s \in [pc : {"read", "saved"}, doc : {"resume"}, seen : ResumeRows]
    BY <1>2, WriterShapes
  <2>2. WriterRead(s, resume, resumeVersions, resumeHistory)
    BY <1>2 DEF WriterSound
  <2>3. s.seen.version \in Nat /\ s.seen.version >= 1
    BY <2>1, ResumesAssumption DEF ResumeRows, Versions
  <2>4. WriterRead(s, resume, resumeVersions, resumeHistory)'
    <3>1. resume.at = "row" => resume.version \in Int
      BY DocumentShapes DEF ResumesTypeOK
    <3>2. resume'.at = "row" => resume'.version \in Int
      BY DocumentShapes DEF ResumesTypeOK
    <3>3. QED
      BY <2>1, <2>2, <2>3, <3>1, <3>2 DEF WriterRead, SavedOrLost, Onward
  <2>5. QED
    BY <2>1, <2>4 DEF WriterSound
<1>3. CASE s.pc # "idle" /\ s.doc = "letter"
  <2>1. s.doc = "letter" /\ s.seen \in LetterRows
    BY <1>3, WriterShapes
  <2>2. WriterRead(s, letter, letterVersions, letterHistory)
    BY <1>3 DEF WriterSound
  <2>3. s.seen.version \in Nat /\ s.seen.version >= 1
    BY <2>1, ResumesAssumption DEF LetterRows, Versions
  <2>4. WriterRead(s, letter, letterVersions, letterHistory)'
    <3>1. letter.at = "row" => letter.version \in Int
      BY DocumentShapes DEF ResumesTypeOK
    <3>2. letter'.at = "row" => letter'.version \in Int
      BY DocumentShapes DEF ResumesTypeOK
    <3>3. QED
      BY <2>1, <2>2, <2>3, <3>1, <3>2 DEF WriterRead, SavedOrLost, Onward
  <2>5. (letter.at = "row" /\ s.seen.version = letter.version => s.seen = letter)'
    BY <1>3, <2>1, <2>2, <2>3, DocumentShapes DEF ResumesTypeOK, WriterSound, WriterRead, Onward
  <2>6. s.pc = "based" => Traces(s.basis, s.source)'
    <3> SUFFICES ASSUME s.pc = "based", s.basis # NoVersion
                 PROVE  Traces(s.basis, s.source)'
      BY DEF Traces
    <3>1. Traces(s.basis, s.source) /\ s.basis \in Versions
      BY WriterShapes DEF WriterSound
    <3>2. QED
      <4>1. resume.at = "row" => resume.version \in Int
        BY DocumentShapes DEF ResumesTypeOK
      <4>2. resume'.at = "row" => resume'.version \in Int
        BY DocumentShapes DEF ResumesTypeOK
      <4>3. s.basis \in Int /\ s.basis >= 1
        BY <3>1, ResumesAssumption DEF Versions
      <4>4. QED
        BY <3>1, <4>1, <4>2, <4>3 DEF Traces, Onward
  <2>7. QED
    BY <2>1, <2>4, <2>5, <2>6 DEF WriterSound
<1>4. QED
  BY <1>1, <1>2, <1>3, WriterShapes DEF WriterSound

\* A step of one writer that leaves the documents as they are keeps the invariant
\* if the writer is sound afterwards.
LEMMA WriterMoves ==
    ASSUME DocInv, NEW w \in Writers, NEW s \in DocWriters, setWriter(w, s), WriterSound(s),
           UNCHANGED <<resume, letter, resumeVersions, letterVersions, resumeHistory,
                       letterHistory, unsaved, letterSource>>
    PROVE  DocInv'
<1>1. ResumesTypeOK' /\ HistoriesTyped'
  BY DEF DocInv, ResumesTypeOK, HistoriesTyped, setWriter
<1>2. ASSUME NEW x \in Writers PROVE WriterSound(docWriter'[x])
  BY DEF DocInv, ResumesTypeOK, setWriter
<1>3. ASSUME NEW x \in Writers PROVE WriterSound(docWriter[x])'
  BY <1>2 DEF WriterSound, WriterRead, SavedOrLost, Traces
<1>4. QED
  BY <1>1, <1>3 DEF DocInv, Kept, Traces, VersionsAreRecoverable, Recoverable

-----------------------------------------------------------------------------
\* Nothing is read before it is created, and a letter has no basis before there is
\* a resume.
LEMMA CreateResumeKeeps == DocInv /\ CreateResume => DocInv'
<1> SUFFICES ASSUME DocInv, CreateResume PROVE DocInv'
  OBVIOUS
<1> USE DEF CreateResume
<1>1. ResumesTypeOK' /\ HistoriesTyped'
  BY ResumesAssumption DEF DocInv, ResumesTypeOK, HistoriesTyped, ResumeRows, Versions, Contained
<1>2. Kept(resume, resumeVersions, resumeHistory)' /\ Kept(letter, letterVersions, letterHistory)'
  BY DEF DocInv, Kept, saved, Absent
<1>3. (letter.at = "row" => Traces(letter.basis, letterSource))'
  BY DEF DocInv, Traces
<1>4. ASSUME NEW x \in Writers PROVE WriterSound(docWriter[x])'
  <2>1. docWriter[x] \in DocWriters /\ WriterSound(docWriter[x])
    BY DEF DocInv, ResumesTypeOK
  <2>2. resume' # Absent
    BY DEF Absent
  <2>3. Onward("resume", resume, resumeVersions, resumeHistory)
    BY <2>2 DEF Onward
  <2>4. QED
    BY <1>1, <2>1, <2>3, Untouched, StaysSound DEF DocInv
<1>5. VersionsAreRecoverable'
  BY DEF DocInv, VersionsAreRecoverable, Recoverable
<1>6. QED
  BY <1>1, <1>2, <1>3, <1>4, <1>5 DEF DocInv

\* The versions go with the row.
LEMMA DeleteResumeKeeps == DocInv /\ DeleteResume => DocInv'
<1> SUFFICES ASSUME DocInv, DeleteResume PROVE DocInv'
  OBVIOUS
<1> USE DEF DeleteResume
<1>1. ResumesTypeOK' /\ HistoriesTyped'
  BY DEF DocInv, ResumesTypeOK, HistoriesTyped, saved
<1>2. resume'.at # "row" /\ resume' # Absent
  BY DocumentShapes
<1>3. Kept(resume, resumeVersions, resumeHistory)' /\ Kept(letter, letterVersions, letterHistory)'
  BY <1>2 DEF DocInv, Kept
<1>4. (letter.at = "row" => Traces(letter.basis, letterSource))'
  BY <1>2 DEF DocInv, Traces
<1>5. \A v \in Int : <<"letter", v>> \in unsaved => <<"letter", v>> \in unsaved'
  OBVIOUS
<1>6. ASSUME NEW x \in Writers PROVE WriterSound(docWriter[x])'
  <2>1. docWriter[x] \in DocWriters /\ WriterSound(docWriter[x])
    BY DEF DocInv, ResumesTypeOK
  <2>2. Onward("resume", resume, resumeVersions, resumeHistory)
    BY <1>2 DEF Onward
  <2>3. QED
    BY <1>1, <1>5, <2>1, <2>2, Untouched, StaysSound DEF DocInv
<1>7. VersionsAreRecoverable'
  <2>1. resume'.at # "row" /\ UNCHANGED <<letter, letterVersions, letterHistory>>
    BY <1>2
  <2>2. ASSUME letter.at = "row", NEW v \in 1..letter.version
        PROVE  Recoverable("letter", letter, letterVersions, letterHistory, v)'
    BY <1>5, <2>1, <2>2, DocumentShapes DEF DocInv, ResumesTypeOK, VersionsAreRecoverable, Recoverable
  <2>3. QED
    BY <2>1, <2>2 DEF VersionsAreRecoverable
<1>8. QED
  BY <1>1, <1>3, <1>4, <1>6, <1>7 DEF DocInv

\* The reads, the choice of a basis and a failure move one writer.
LEMMA ReadersKeep ==
    ASSUME DocInv, NEW w \in Writers,
           ReadResume(w) \/ ReadLetter(w) \/ (\E named \in BOOLEAN : ReadBasis(w, named))
              \/ AbandonWriting(w)
    PROVE  DocInv'
<1>1. docWriter[w] \in DocWriters /\ WriterSound(docWriter[w])
  BY DEF DocInv, ResumesTypeOK
<1>2. CASE ReadResume(w)
  <2> DEFINE s == [pc |-> "read", doc |-> "resume", seen |-> resume]
  <2>1. resume \in ResumeRows /\ resume.version < MaxVersion
    BY <1>2, DocumentShapes DEF DocInv, ResumesTypeOK, ReadResume
  <2>2. s \in DocWriters
    BY <2>1 DEF DocWriters
  <2>3. WriterSound(s)
    BY <1>2, <2>1, DocumentShapes DEF DocInv, Kept, WriterSound, WriterRead, ReadResume
  <2>4. QED
    BY <1>2, <2>2, <2>3, WriterMoves DEF ReadResume
<1>3. CASE ReadLetter(w)
  <2> DEFINE s == [pc |-> "read", doc |-> "letter", seen |-> letter]
  <2>1. letter \in LetterRows /\ letter.version < MaxVersion
    BY <1>3, DocumentShapes DEF DocInv, ResumesTypeOK, ReadLetter
  <2>2. s \in DocWriters
    BY <2>1 DEF DocWriters
  <2>3. WriterSound(s)
    BY <1>3, <2>1, DocumentShapes DEF DocInv, Kept, WriterSound, WriterRead, ReadLetter
  <2>4. QED
    BY <1>3, <2>2, <2>3, WriterMoves DEF ReadLetter
<1>4. ASSUME NEW named \in BOOLEAN, ReadBasis(w, named) PROVE DocInv'
  <2> DEFINE based == named /\ resume.content # NoContent
             b == IF based THEN resume.version ELSE NoVersion
             c == IF based THEN resume.content ELSE NoContent
             s == [pc |-> "based", doc |-> "letter", seen |-> docWriter[w].seen,
                   basis |-> b, source |-> c]
  <2>1. docWriter[w].seen \in LetterRows
    BY <1>1, <1>4, WriterShapes DEF ReadBasis
  <2>2. based => resume \in ResumeRows /\ resume.at = "row"
    BY <1>4, DocumentShapes DEF DocInv, ResumesTypeOK, ReadBasis
  <2>3. b \in Versions \cup {NoVersion} /\ c \in Contents \cup {NoContent}
    BY <2>2 DEF ResumeRows
  <2>4. s \in DocWriters
    BY <2>1, <2>3 DEF DocWriters
  <2>5. Traces(b, c)
    BY <2>2, DocumentShapes DEF DocInv, Kept, Traces, ResumesTypeOK
  <2>6. WriterSound(s)
    BY <1>1, <1>4, <2>5 DEF WriterSound, WriterRead, ReadBasis
  <2>7. QED
    BY <1>4, <2>4, <2>6, WriterMoves DEF ReadBasis
<1>5. CASE AbandonWriting(w)
  <2>1. WriterIdle \in DocWriters /\ WriterSound(WriterIdle)
    BY DEF DocWriters, WriterIdle, WriterSound
  <2>2. QED
    BY <1>5, <2>1, WriterMoves DEF AbandonWriting
<1>6. QED
  BY <1>2, <1>3, <1>4, <1>5

\* The snapshot is taken before the write and of what was read: it is the content
\* of its version whoever else has written meanwhile.
LEMMA ResumeSnapshotKeeps ==
    ASSUME DocInv, NEW w \in Writers, NEW inserted \in BOOLEAN,
           saveVersionSnapshot(w, inserted)
    PROVE  DocInv'
<1>0. PICK s \in DocWriters : s = docWriter[w]
  BY DEF DocInv, ResumesTypeOK
<1> DEFINE v == s.seen.version
           t == [s EXCEPT !.pc = "saved"]
<1>1. WriterSound(s) /\ s.pc = "read" /\ s.doc = "resume"
  BY <1>0 DEF DocInv, saveVersionSnapshot
<1>2. s \in [pc : {"read", "saved"}, doc : {"resume"}, seen : ResumeRows]
  BY <1>1, WriterShapes
<1>3. t \in DocWriters /\ t.pc = "saved" /\ t.doc = "resume" /\ t.seen = s.seen
  BY <1>2 DEF DocWriters
<1>4. v \in Versions /\ v \in Int /\ v >= 1 /\ s.seen.content \in Contents \cup {NoContent}
  BY <1>2, ResumesAssumption DEF ResumeRows, Versions
<1>5. WriterRead(s, resume, resumeVersions, resumeHistory)
  BY <1>1 DEF WriterSound
<1>6. /\ UNCHANGED <<resume, letter, letterVersions, resumeHistory, letterHistory, letterSource>>
      /\ docWriter' = [docWriter EXCEPT ![w] = t]
      /\ unsaved' \in {unsaved, unsaved \cup {<<"resume", v>>}}
  BY <1>0 DEF saveVersionSnapshot, setWriter
<1>7. \/ UNCHANGED resumeVersions
      \/ /\ resume.at = "row" /\ resumeVersions[v] = "none"
         /\ resumeVersions' = [resumeVersions EXCEPT ![v] = s.seen.content]
  BY <1>0 DEF saveVersionSnapshot
<1>8. resume.at = "row" => SavedOrLost("resume", resumeVersions, resumeHistory, v)'
  <2> SUFFICES ASSUME resume.at = "row" PROVE SavedOrLost("resume", resumeVersions, resumeHistory, v)'
    OBVIOUS
  <2>1. resumeHistory[v] = s.seen.content /\ v <= resume.version
    BY <1>5 DEF WriterRead
  <2>2. resumeVersions[v] # "none" => resumeVersions[v] = resumeHistory[v]
    BY <1>4 DEF DocInv, Kept
  <2>3. resumeVersions'[v] = resumeHistory[v] \/ <<"resume", v>> \in unsaved'
    BY <1>0, <1>4, <2>1, <2>2 DEF DocInv, ResumesTypeOK, saveVersionSnapshot
  <2>4. QED
    BY <1>6, <2>3 DEF SavedOrLost
<1>9. ResumesTypeOK' /\ HistoriesTyped'
  <2>1. resumeVersions' \in [Versions -> Contents \cup {NoContent, "none"}]
    BY <1>4, <1>7 DEF DocInv, ResumesTypeOK
  <2>2. unsaved' \subseteq {"resume", "letter"} \X Versions
    BY <1>4, <1>6 DEF DocInv, ResumesTypeOK
  <2>3. docWriter' \in [Writers -> DocWriters]
    BY <1>3, <1>6 DEF DocInv, ResumesTypeOK
  <2>4. QED
    BY <1>6, <2>1, <2>2, <2>3 DEF DocInv, ResumesTypeOK, HistoriesTyped
<1>10. \A u \in Versions : u # v => resumeVersions'[u] = resumeVersions[u]
  BY <1>4, <1>7 DEF DocInv, ResumesTypeOK
<1>11. Kept(resume, resumeVersions, resumeHistory)' /\ Kept(letter, letterVersions, letterHistory)'
  <2>1. resume # Absent
    BY <1>5 DEF WriterRead
  <2>2. ASSUME resume.at = "row", NEW u \in Versions, resumeVersions'[u] # "none"
        PROVE  u <= resume.version /\ resumeVersions'[u] = resumeHistory[u]
    <3>1. CASE u # v
      BY <1>10, <2>2, <3>1 DEF DocInv, Kept
    <3>2. CASE u = v
      <4>1. resumeHistory[v] = s.seen.content /\ v <= resume.version
        BY <1>5, <2>2 DEF WriterRead
      <4>2. QED
        BY <1>4, <1>7, <2>2, <3>2, <4>1 DEF DocInv, Kept, ResumesTypeOK
    <3>3. QED
      BY <3>1, <3>2
  <2>3. QED
    BY <1>6, <2>1, <2>2 DEF DocInv, Kept
<1>12. (letter.at = "row" => Traces(letter.basis, letterSource))'
  BY <1>6 DEF DocInv, Traces
<1>13. resume.at = "row" => \A u \in 1..resume.version :
          SavedOrLost("resume", resumeVersions, resumeHistory, u) => SavedOrLost("resume", resumeVersions, resumeHistory, u)'
  <2> SUFFICES ASSUME resume.at = "row", NEW u \in 1..resume.version,
                      SavedOrLost("resume", resumeVersions, resumeHistory, u)
               PROVE  SavedOrLost("resume", resumeVersions, resumeHistory, u)'
    OBVIOUS
  <2>1. u \in Versions
    BY DocumentShapes, ResumesAssumption DEF DocInv, ResumesTypeOK, Versions, ResumeRows
  <2>2. CASE u = v
    BY <1>8, <2>2
  <2>3. CASE u # v
    BY <1>6, <1>10, <2>1, <2>3 DEF SavedOrLost
  <2>4. QED
    BY <2>2, <2>3
<1>14. Onward("resume", resume, resumeVersions, resumeHistory)
  BY <1>6, <1>13, DocumentShapes DEF DocInv, ResumesTypeOK, Onward
<1>15. ASSUME NEW x \in Writers PROVE WriterSound(docWriter[x])'
  <2>1. CASE x # w
    <3>1. docWriter[x] \in DocWriters /\ WriterSound(docWriter[x]) /\ docWriter'[x] = docWriter[x]
      BY <1>6, <2>1 DEF DocInv, ResumesTypeOK
    <3>2. WriterSound(docWriter[x])'
      BY <1>6, <1>9, <1>14, <3>1, Untouched, StaysSound DEF DocInv
    <3>3. QED
      BY <3>2
  <2>2. CASE x = w
    <3>1. docWriter'[x] = t
      BY <1>6, <2>2 DEF DocInv, ResumesTypeOK
    <3>2. WriterSound(t)'
      BY <1>1, <1>3, <1>5, <1>6, <1>8 DEF WriterSound, WriterRead
    <3>3. QED
      BY <3>1, <3>2 DEF WriterSound, WriterRead, SavedOrLost, Traces
  <2>3. QED
    BY <2>1, <2>2
<1>16. VersionsAreRecoverable'
  <2>1. ASSUME resume.at = "row", NEW u \in 1..resume.version,
               resumeVersions[u] = resumeHistory[u] \/ <<"resume", u>> \in unsaved
        PROVE  resumeVersions'[u] = resumeHistory[u] \/ <<"resume", u>> \in unsaved'
    BY <1>6, <1>13, <2>1 DEF SavedOrLost
  <2>2. QED
    BY <1>6, <2>1 DEF DocInv, VersionsAreRecoverable, Recoverable
<1>17. QED
  BY <1>9, <1>11, <1>12, <1>15, <1>16 DEF DocInv

\* The snapshot is taken before the write and of what was read: it is the content
\* of its version whoever else has written meanwhile.
LEMMA LetterSnapshotKeeps ==
    ASSUME DocInv, NEW w \in Writers, NEW inserted \in BOOLEAN,
           saveCoverLetterVersionSnapshot(w, inserted)
    PROVE  DocInv'
<1>0. PICK s \in DocWriters : s = docWriter[w]
  BY DEF DocInv, ResumesTypeOK
<1> DEFINE v == s.seen.version
           t == [s EXCEPT !.pc = "saved"]
<1>1. WriterSound(s) /\ s.pc = "read" /\ s.doc = "letter"
  BY <1>0 DEF DocInv, saveCoverLetterVersionSnapshot
<1>2. s \in [pc : {"read", "saved"}, doc : {"letter"}, seen : LetterRows]
  BY <1>1, WriterShapes
<1>3. t \in DocWriters /\ t.pc = "saved" /\ t.doc = "letter" /\ t.seen = s.seen
  BY <1>2 DEF DocWriters
<1>4. v \in Versions /\ v \in Int /\ v >= 1 /\ s.seen.content \in Contained
  BY <1>2, ResumesAssumption DEF LetterRows, Versions
<1>5. WriterRead(s, letter, letterVersions, letterHistory)
  BY <1>1 DEF WriterSound
<1>6. /\ UNCHANGED <<resume, letter, resumeVersions, resumeHistory, letterHistory, letterSource>>
      /\ docWriter' = [docWriter EXCEPT ![w] = t]
      /\ unsaved' \in {unsaved, unsaved \cup {<<"letter", v>>}}
  BY <1>0 DEF saveCoverLetterVersionSnapshot, setWriter
<1>7. \/ UNCHANGED letterVersions
      \/ /\ letter.at = "row" /\ letterVersions[v] = "none"
         /\ letterVersions' = [letterVersions EXCEPT ![v] = s.seen.content]
  BY <1>0 DEF saveCoverLetterVersionSnapshot
<1>8. letter.at = "row" => SavedOrLost("letter", letterVersions, letterHistory, v)'
  <2> SUFFICES ASSUME letter.at = "row" PROVE SavedOrLost("letter", letterVersions, letterHistory, v)'
    OBVIOUS
  <2>1. letterHistory[v] = s.seen.content /\ v <= letter.version
    BY <1>5 DEF WriterRead
  <2>2. letterVersions[v] # "none" => letterVersions[v] = letterHistory[v]
    BY <1>4 DEF DocInv, Kept
  <2>3. letterVersions'[v] = letterHistory[v] \/ <<"letter", v>> \in unsaved'
    BY <1>0, <1>4, <2>1, <2>2 DEF DocInv, ResumesTypeOK, saveCoverLetterVersionSnapshot
  <2>4. QED
    BY <1>6, <2>3 DEF SavedOrLost
<1>9. ResumesTypeOK' /\ HistoriesTyped'
  <2>1. letterVersions' \in [Versions -> Contained \cup {"none"}]
    BY <1>4, <1>7 DEF DocInv, ResumesTypeOK
  <2>2. unsaved' \subseteq {"resume", "letter"} \X Versions
    BY <1>4, <1>6 DEF DocInv, ResumesTypeOK
  <2>3. docWriter' \in [Writers -> DocWriters]
    BY <1>3, <1>6 DEF DocInv, ResumesTypeOK
  <2>4. QED
    BY <1>6, <2>1, <2>2, <2>3 DEF DocInv, ResumesTypeOK, HistoriesTyped
<1>10. \A u \in Versions : u # v => letterVersions'[u] = letterVersions[u]
  BY <1>4, <1>7 DEF DocInv, ResumesTypeOK
<1>11. Kept(resume, resumeVersions, resumeHistory)' /\ Kept(letter, letterVersions, letterHistory)'
  <2>1. letter # Absent
    BY <1>5 DEF WriterRead
  <2>2. ASSUME letter.at = "row", NEW u \in Versions, letterVersions'[u] # "none"
        PROVE  u <= letter.version /\ letterVersions'[u] = letterHistory[u]
    <3>1. CASE u # v
      BY <1>10, <2>2, <3>1 DEF DocInv, Kept
    <3>2. CASE u = v
      <4>1. letterHistory[v] = s.seen.content /\ v <= letter.version
        BY <1>5, <2>2 DEF WriterRead
      <4>2. QED
        BY <1>4, <1>7, <2>2, <3>2, <4>1 DEF DocInv, Kept, ResumesTypeOK
    <3>3. QED
      BY <3>1, <3>2
  <2>3. QED
    BY <1>6, <2>1, <2>2 DEF DocInv, Kept
<1>12. (letter.at = "row" => Traces(letter.basis, letterSource))'
  BY <1>6 DEF DocInv, Traces
<1>13. letter.at = "row" => \A u \in 1..letter.version :
          SavedOrLost("letter", letterVersions, letterHistory, u) => SavedOrLost("letter", letterVersions, letterHistory, u)'
  <2> SUFFICES ASSUME letter.at = "row", NEW u \in 1..letter.version,
                      SavedOrLost("letter", letterVersions, letterHistory, u)
               PROVE  SavedOrLost("letter", letterVersions, letterHistory, u)'
    OBVIOUS
  <2>1. u \in Versions
    BY DocumentShapes, ResumesAssumption DEF DocInv, ResumesTypeOK, Versions, LetterRows
  <2>2. CASE u = v
    BY <1>8, <2>2
  <2>3. CASE u # v
    BY <1>6, <1>10, <2>1, <2>3 DEF SavedOrLost
  <2>4. QED
    BY <2>2, <2>3
<1>14. Onward("letter", letter, letterVersions, letterHistory)
  BY <1>6, <1>13, DocumentShapes DEF DocInv, ResumesTypeOK, Onward
<1>15. ASSUME NEW x \in Writers PROVE WriterSound(docWriter[x])'
  <2>1. CASE x # w
    <3>1. docWriter[x] \in DocWriters /\ WriterSound(docWriter[x]) /\ docWriter'[x] = docWriter[x]
      BY <1>6, <2>1 DEF DocInv, ResumesTypeOK
    <3>2. WriterSound(docWriter[x])'
      BY <1>6, <1>9, <1>14, <3>1, Untouched, StaysSound DEF DocInv
    <3>3. QED
      BY <3>2
  <2>2. CASE x = w
    <3>1. docWriter'[x] = t
      BY <1>6, <2>2 DEF DocInv, ResumesTypeOK
    <3>2. WriterSound(t)'
      BY <1>1, <1>3, <1>5, <1>6, <1>8 DEF WriterSound, WriterRead
    <3>3. QED
      BY <3>1, <3>2 DEF WriterSound, WriterRead, SavedOrLost, Traces
  <2>3. QED
    BY <2>1, <2>2
<1>16. VersionsAreRecoverable'
  <2>1. ASSUME letter.at = "row", NEW u \in 1..letter.version,
               letterVersions[u] = letterHistory[u] \/ <<"letter", u>> \in unsaved
        PROVE  letterVersions'[u] = letterHistory[u] \/ <<"letter", u>> \in unsaved'
    BY <1>6, <1>13, <2>1 DEF SavedOrLost
  <2>2. QED
    BY <1>6, <2>1 DEF DocInv, VersionsAreRecoverable, Recoverable
<1>17. QED
  BY <1>9, <1>11, <1>12, <1>15, <1>16 DEF DocInv

-----------------------------------------------------------------------------
\* A document moves on to its next version when the present one is saved, or when
\* the next has the same content.
LEMMA WriteResumeKeeps ==
    ASSUME DocInv, NEW w \in Writers, NEW content \in Contents \cup {NoContent},
           docWriter[w].pc # "idle", docWriter[w].doc = "resume",
           docWriter[w].pc = "saved" \/ content = docWriter[w].seen.content,
           writeResume(w, content)
    PROVE  DocInv'
<1>0. PICK s \in DocWriters : s = docWriter[w]
  BY DEF DocInv, ResumesTypeOK
<1>1. s \in [pc : {"read", "saved"}, doc : {"resume"}, seen : ResumeRows]
  BY <1>0, WriterShapes
<1>2. WriterRead(s, resume, resumeVersions, resumeHistory)
  BY <1>0 DEF DocInv, WriterSound
<1>3. /\ UNCHANGED <<letter, letterVersions, resumeVersions, letterHistory, letterSource, unsaved>>
      /\ docWriter' = [docWriter EXCEPT ![w] = WriterIdle]
  BY DEF writeResume, setWriter
<1>4. docWriter' \in [Writers -> DocWriters]
  BY <1>3 DEF DocInv, ResumesTypeOK, DocWriters
<1>5. ASSUME NEW x \in Writers, ResumesTypeOK',
             Onward("resume", resume, resumeVersions, resumeHistory)
      PROVE  WriterSound(docWriter[x])'
  <2>1. CASE x # w
    <3>1. docWriter[x] \in DocWriters /\ WriterSound(docWriter[x]) /\ docWriter'[x] = docWriter[x]
      BY <1>3, <2>1 DEF DocInv, ResumesTypeOK
    <3>2. QED
      BY <1>3, <1>5, <3>1, Untouched, StaysSound DEF DocInv
  <2>2. CASE x = w
    <3>1. docWriter'[x] = WriterIdle
      BY <1>3, <2>2 DEF DocInv, ResumesTypeOK
    <3>2. QED
      BY <3>1 DEF WriterSound, WriterIdle
  <2>3. QED
    BY <2>1, <2>2
<1>6. CASE stillCurrent(w)
  <2> DEFINE n == resume.version
  <2>1. /\ resume.at = "row" /\ n = s.seen.version /\ resume \in ResumeRows
        /\ n \in Int /\ n >= 1 /\ n < MaxVersion
    BY <1>0, <1>2, <1>6, DocumentShapes DEF DocInv, ResumesTypeOK, stillCurrent, WriterRead
  <2>2. resume' = [resume EXCEPT !.version = n + 1, !.content = content]
        /\ resumeHistory' = Append(resumeHistory, content)
    BY <1>6 DEF writeResume
  <2>3. /\ resume' \in ResumeRows /\ resume'.at = "row"
        /\ resume'.version = n + 1 /\ resume'.content = content
    <3>1. n + 1 \in Versions
      BY <2>1, ResumesAssumption DEF Versions
    <3>2. \A k \in Versions : [resume EXCEPT !.version = k, !.content = content] \in ResumeRows
      BY <2>1 DEF ResumeRows
    <3>3. \A k \in Versions : LET r == [resume EXCEPT !.version = k, !.content = content]
                              IN r.at = "row" /\ r.version = k /\ r.content = content
      BY <2>1 DEF ResumeRows
    <3>4. QED
      BY <2>2, <3>1, <3>2, <3>3
  <2>4. Len(resumeHistory) = n /\ resumeHistory \in Seq(Contained) /\ content \in Contained
    BY <2>1 DEF DocInv, Kept, HistoriesTyped, Contained
  <2>5. /\ resumeHistory' \in Seq(Contained) /\ Len(resumeHistory') = n + 1
        /\ resumeHistory'[n + 1] = content
        /\ \A v \in 1..n : resumeHistory'[v] = resumeHistory[v]
    BY <2>2, <2>4, Appended
  <2>6. ResumesTypeOK' /\ HistoriesTyped'
    BY <1>3, <1>4, <2>3, <2>5 DEF DocInv, ResumesTypeOK, HistoriesTyped
  <2>7. Onward("resume", resume, resumeVersions, resumeHistory)
    BY <1>3, <2>1, <2>3, <2>5, DocumentShapes DEF Onward, SavedOrLost
  <2>8. Kept(resume, resumeVersions, resumeHistory)'
    <3>1. ASSUME NEW v \in Versions, resumeVersions[v] # "none"
          PROVE  v <= n + 1 /\ resumeVersions[v] = resumeHistory'[v]
      <4>1. v <= n /\ resumeVersions[v] = resumeHistory[v]
        BY <2>1, <3>1 DEF DocInv, Kept
      <4>2. v \in 1..n
        BY <2>1, <4>1, ResumesAssumption DEF Versions
      <4>3. QED
        BY <2>1, <2>5, <4>1, <4>2
    <3>2. QED
      BY <1>3, <2>3, <2>5, <3>1, DocumentShapes DEF Kept
  <2>9. Kept(letter, letterVersions, letterHistory)'
    BY <1>3 DEF DocInv, Kept
  <2>10. (letter.at = "row" => Traces(letter.basis, letterSource))'
    <3> SUFFICES ASSUME letter.at = "row", letter.basis # NoVersion
                 PROVE  letter.basis <= resume'.version /\ resumeHistory'[letter.basis] = letterSource
      BY <1>3, <2>3, DocumentShapes DEF Traces
    <3>1. letter.basis <= n /\ resumeHistory[letter.basis] = letterSource
      BY <2>1 DEF DocInv, Traces
    <3>2. letter.basis \in 1..n
      BY <2>1, <3>1, DocumentShapes, ResumesAssumption DEF DocInv, ResumesTypeOK, LetterRows, Versions
    <3>3. QED
      BY <2>1, <2>3, <2>5, <3>1, <3>2
  <2>11. VersionsAreRecoverable'
    <3>1. ASSUME NEW v \in 1..n
          PROVE  \/ SavedOrLost("resume", resumeVersions, resumeHistory, v)
                 \/ resumeHistory'[v + 1] = resumeHistory'[v]
      <4>1. CASE v = n
        <5>1. s.pc = "saved" => SavedOrLost("resume", resumeVersions, resumeHistory, n)
          BY <1>1, <1>2, <2>1 DEF WriterRead
        <5>2. s.pc = "read" => resumeHistory'[n + 1] = resumeHistory'[n]
          <6>1. s.pc = "read" => resumeHistory[n] = content
            BY <1>0, <1>2, <2>1 DEF WriterRead
          <6>2. n \in 1..n
            BY <2>1
          <6>3. QED
            BY <2>5, <6>1, <6>2
        <5>3. QED
          BY <1>1, <4>1, <5>1, <5>2
      <4>2. CASE v < n
        <5>1. SavedOrLost("resume", resumeVersions, resumeHistory, v)
                 \/ resumeHistory[v + 1] = resumeHistory[v]
          BY <2>1, <4>2 DEF DocInv, VersionsAreRecoverable, Recoverable, SavedOrLost
        <5>2. v \in 1..n /\ v + 1 \in 1..n
          BY <2>1, <4>2
        <5>3. QED
          BY <2>5, <5>1, <5>2
      <4>3. QED
        BY <2>1, <4>1, <4>2
    <3>2. ASSUME NEW v \in 1..(n + 1)
          PROVE  \/ Recoverable("resume", resume, resumeVersions, resumeHistory, v)'
                 \/ v < n + 1 /\ resumeHistory'[v + 1] = resumeHistory'[v]
      <4>1. CASE v = n + 1
        BY <2>3, <2>5, <4>1 DEF Recoverable
      <4>2. CASE v < n + 1
        <5>1. v \in 1..n
          BY <2>1, <4>2
        <5>2. QED
          BY <1>3, <2>5, <3>1, <4>2, <5>1 DEF Recoverable, SavedOrLost
      <4>3. QED
        BY <2>1, <4>1, <4>2
    <3>3. QED
      BY <1>3, <2>3, <3>2 DEF DocInv, VersionsAreRecoverable, Recoverable
  <2>12. QED
    BY <1>5, <2>6, <2>7, <2>8, <2>9, <2>10, <2>11 DEF DocInv
<1>7. CASE ~stillCurrent(w)
  <2>1. UNCHANGED <<resume, resumeHistory>>
    BY <1>7 DEF writeResume
  <2>2. ResumesTypeOK' /\ HistoriesTyped'
    BY <1>3, <1>4, <2>1 DEF DocInv, ResumesTypeOK, HistoriesTyped
  <2>3. Onward("resume", resume, resumeVersions, resumeHistory)
    BY <1>3, <2>1, Untouched DEF DocInv
  <2>4. QED
    BY <1>3, <1>5, <2>1, <2>2, <2>3
       DEF DocInv, Kept, Traces, VersionsAreRecoverable, Recoverable
<1>8. QED
  BY <1>6, <1>7

\* The same for a letter, whose next version comes with the text and the resume
\* version that belong together.
LEMMA WriteLetterKeeps ==
    ASSUME DocInv, NEW w \in Writers, NEW content \in Contained,
           NEW basis \in Versions \cup {NoVersion}, NEW source \in Contents \cup {NoContent},
           docWriter[w].pc \in {"saved", "based"}, docWriter[w].doc = "letter",
           letter.at = "row" /\ letter.version = docWriter[w].seen.version => Traces(basis, source),
           writeLetter(w, content, basis, source)
    PROVE  DocInv'
<1>0. PICK s \in DocWriters : s = docWriter[w]
  BY DEF DocInv, ResumesTypeOK
<1>1. s.pc \in {"saved", "based"} /\ s.doc = "letter" /\ s.seen \in LetterRows
  BY <1>0, WriterShapes
<1>2. WriterRead(s, letter, letterVersions, letterHistory)
  BY <1>0 DEF DocInv, WriterSound
<1>3. /\ UNCHANGED <<resume, letterVersions, resumeVersions, resumeHistory, unsaved>>
      /\ docWriter' = [docWriter EXCEPT ![w] = WriterIdle]
  BY DEF writeLetter, setWriter
<1>4. docWriter' \in [Writers -> DocWriters]
  BY <1>3 DEF DocInv, ResumesTypeOK, DocWriters
<1>5. ASSUME NEW x \in Writers, ResumesTypeOK',
             Onward("letter", letter, letterVersions, letterHistory),
             letter' # letter /\ letter.at = "row" /\ letter'.at = "row" =>
                 letter'.version > letter.version
      PROVE  WriterSound(docWriter[x])'
  <2>1. CASE x # w
    <3>1. docWriter[x] \in DocWriters /\ WriterSound(docWriter[x]) /\ docWriter'[x] = docWriter[x]
      BY <1>3, <2>1 DEF DocInv, ResumesTypeOK
    <3>2. QED
      BY <1>3, <1>5, <3>1, Untouched, StaysSound DEF DocInv
  <2>2. CASE x = w
    <3>1. docWriter'[x] = WriterIdle
      BY <1>3, <2>2 DEF DocInv, ResumesTypeOK
    <3>2. QED
      BY <3>1 DEF WriterSound, WriterIdle
  <2>3. QED
    BY <2>1, <2>2
<1>6. CASE letter.at = "row" /\ letter.version = docWriter[w].seen.version
  <2>0. PICK n \in Int : n = letter.version
    BY <1>6, DocumentShapes DEF DocInv, ResumesTypeOK
  <2>1. /\ letter.at = "row" /\ n = s.seen.version /\ letter \in LetterRows
        /\ n = letter.version /\ n >= 1 /\ n < MaxVersion
    BY <1>0, <1>2, <1>6, <2>0, DocumentShapes DEF DocInv, ResumesTypeOK, WriterRead
  <2>2. /\ letter' = [letter EXCEPT !.version = n + 1, !.content = content, !.basis = basis]
        /\ letterHistory' = Append(letterHistory, content) /\ letterSource' = source
    BY <1>6, <2>0 DEF writeLetter
  <2>3. /\ letter' \in LetterRows /\ letter'.at = "row"
        /\ letter'.version = n + 1 /\ letter'.content = content /\ letter'.basis = basis
    <3>1. n + 1 \in Versions
      BY <2>1, ResumesAssumption DEF Versions
    <3>2. \A k \in Versions :
              [letter EXCEPT !.version = k, !.content = content, !.basis = basis] \in LetterRows
      BY <2>1 DEF LetterRows
    <3>3. \A k \in Versions :
              LET r == [letter EXCEPT !.version = k, !.content = content, !.basis = basis]
              IN r.at = "row" /\ r.version = k /\ r.content = content /\ r.basis = basis
      BY <2>1 DEF LetterRows
    <3>4. QED
      BY <2>2, <3>1, <3>2, <3>3
  <2>4. Len(letterHistory) = n /\ letterHistory \in Seq(Contained)
    BY <2>1 DEF DocInv, Kept, HistoriesTyped
  <2>5. /\ letterHistory' \in Seq(Contained) /\ Len(letterHistory') = n + 1
        /\ letterHistory'[n + 1] = content
        /\ \A v \in 1..n : letterHistory'[v] = letterHistory[v]
    BY <2>2, <2>4, Appended
  <2>6. ResumesTypeOK' /\ HistoriesTyped'
    BY <1>3, <1>4, <2>2, <2>3, <2>5 DEF DocInv, ResumesTypeOK, HistoriesTyped
  <2>7. Onward("letter", letter, letterVersions, letterHistory)
    BY <1>3, <2>1, <2>3, <2>5, DocumentShapes DEF Onward, SavedOrLost
  <2>8. Kept(letter, letterVersions, letterHistory)'
    <3>1. ASSUME NEW v \in Versions, letterVersions[v] # "none"
          PROVE  v <= n + 1 /\ letterVersions[v] = letterHistory'[v]
      <4>1. v <= n /\ letterVersions[v] = letterHistory[v]
        BY <2>1, <3>1 DEF DocInv, Kept
      <4>2. v \in 1..n
        BY <2>1, <4>1, ResumesAssumption DEF Versions
      <4>3. QED
        BY <2>1, <2>5, <4>1, <4>2
    <3>2. QED
      BY <1>3, <2>3, <2>5, <3>1, DocumentShapes DEF Kept
  <2>9. Kept(resume, resumeVersions, resumeHistory)'
    BY <1>3 DEF DocInv, Kept
  <2>10. (letter.at = "row" => Traces(letter.basis, letterSource))'
    BY <1>3, <1>6, <2>2, <2>3 DEF Traces
  <2>11. VersionsAreRecoverable'
    <3>1. ASSUME NEW v \in 1..n PROVE SavedOrLost("letter", letterVersions, letterHistory, v)
      <4>1. CASE v = n
        BY <1>1, <1>2, <2>1, <4>1 DEF WriterRead
      <4>2. CASE v < n
        BY <2>1, <4>2 DEF DocInv, VersionsAreRecoverable, Recoverable, SavedOrLost
      <4>3. QED
        BY <2>1, <4>1, <4>2
    <3>2. ASSUME NEW v \in 1..(n + 1)
          PROVE  Recoverable("letter", letter, letterVersions, letterHistory, v)'
      <4>1. CASE v = n + 1
        BY <2>3, <2>5, <4>1 DEF Recoverable
      <4>2. CASE v < n + 1
        <5>1. v \in 1..n
          BY <2>1, <4>2
        <5>2. QED
          BY <1>3, <2>5, <3>1, <5>1 DEF Recoverable, SavedOrLost
      <4>3. QED
        BY <2>1, <4>1, <4>2
    <3>3. QED
      BY <1>3, <2>3, <3>2 DEF DocInv, VersionsAreRecoverable, Recoverable
  <2>12. QED
    BY <1>5, <2>1, <2>3, <2>6, <2>7, <2>8, <2>9, <2>10, <2>11 DEF DocInv
<1>7. CASE ~(letter.at = "row" /\ letter.version = docWriter[w].seen.version)
  <2>1. UNCHANGED <<letter, letterHistory, letterSource>>
    BY <1>7 DEF writeLetter
  <2>2. ResumesTypeOK' /\ HistoriesTyped'
    BY <1>3, <1>4, <2>1 DEF DocInv, ResumesTypeOK, HistoriesTyped
  <2>3. Onward("letter", letter, letterVersions, letterHistory)
    BY <1>3, <2>1, Untouched DEF DocInv
  <2>4. QED
    BY <1>3, <1>5, <2>1, <2>2, <2>3
       DEF DocInv, Kept, Traces, VersionsAreRecoverable, Recoverable
<1>8. QED
  BY <1>6, <1>7

\* A letter is created without a basis, and deleted with its versions.
LEMMA LetterComesAndGoes ==
    ASSUME DocInv, DeleteCoverLetter \/ \E linked \in BOOLEAN : CreateCoverLetter(linked)
    PROVE  DocInv'
<1>1. /\ UNCHANGED <<resume, resumeVersions, resumeHistory, docWriter>>
      /\ \A v \in Int : <<"resume", v>> \in unsaved => <<"resume", v>> \in unsaved'
  BY DEF DeleteCoverLetter, CreateCoverLetter
<1>2. ResumesTypeOK' /\ HistoriesTyped'
  <2>1. CASE DeleteCoverLetter
    BY <2>1 DEF DeleteCoverLetter, DocInv, ResumesTypeOK, HistoriesTyped, saved
  <2>2. ASSUME NEW linked \in BOOLEAN, CreateCoverLetter(linked)
        PROVE  ResumesTypeOK' /\ HistoriesTyped'
    BY <2>2, ResumesAssumption DEF CreateCoverLetter, DocInv, ResumesTypeOK, HistoriesTyped,
       LetterRows, Versions, Contained
  <2>3. QED
    BY <2>1, <2>2
<1>3. letter' # Absent /\ (letter'.at = "row" => letter = Absent /\ letter'.basis = NoVersion)
  BY DocumentShapes DEF DeleteCoverLetter, CreateCoverLetter, Absent
<1>4. Kept(resume, resumeVersions, resumeHistory)' /\ Kept(letter, letterVersions, letterHistory)'
  <2>1. CASE DeleteCoverLetter
    BY <1>1, <1>3, <2>1, DocumentShapes DEF DocInv, Kept, DeleteCoverLetter
  <2>2. ASSUME NEW linked \in BOOLEAN, CreateCoverLetter(linked)
        PROVE  Kept(letter, letterVersions, letterHistory)'
    BY <1>3, <2>2 DEF DocInv, Kept, CreateCoverLetter, saved
  <2>3. QED
    BY <1>1, <2>1, <2>2 DEF DocInv, Kept
<1>5. (letter.at = "row" => Traces(letter.basis, letterSource))'
  BY <1>3 DEF Traces
<1>6. ASSUME NEW x \in Writers PROVE WriterSound(docWriter[x])'
  <2>1. docWriter[x] \in DocWriters /\ WriterSound(docWriter[x]) /\ docWriter'[x] = docWriter[x]
    BY <1>1 DEF DocInv, ResumesTypeOK
  <2>2. Onward("letter", letter, letterVersions, letterHistory)
    BY <1>3 DEF Onward
  <2>3. letter.at = "row" => letter'.at # "row"
    BY <1>3, DocumentShapes
  <2>4. QED
    BY <1>1, <1>2, <2>1, <2>2, <2>3, Untouched, StaysSound DEF DocInv
<1>7. VersionsAreRecoverable'
  <2>1. ASSUME resume.at = "row", NEW v \in 1..resume.version,
               Recoverable("resume", resume, resumeVersions, resumeHistory, v)
        PROVE  Recoverable("resume", resume, resumeVersions, resumeHistory, v)'
    <3>1. v \in Int
      BY <2>1, DocumentShapes DEF DocInv, ResumesTypeOK
    <3>2. QED
      BY <1>1, <2>1, <3>1 DEF Recoverable
  <2>2. ASSUME letter'.at = "row", NEW v \in 1..letter'.version
        PROVE  Recoverable("letter", letter, letterVersions, letterHistory, v)'
    <3>1. PICK linked \in BOOLEAN : CreateCoverLetter(linked)
      BY <2>2, DocumentShapes DEF DeleteCoverLetter
    <3>2. letter'.version = 1 /\ letter'.content = NoContent /\ letterHistory' = <<NoContent>>
      BY <3>1 DEF CreateCoverLetter
    <3>3. v = 1
      BY <3>2
    <3>4. QED
      BY <3>2, <3>3 DEF Recoverable
  <2>3. QED
    BY <1>1, <2>1, <2>2 DEF DocInv, VersionsAreRecoverable
<1>8. QED
  BY <1>2, <1>4, <1>5, <1>6, <1>7 DEF DocInv

-----------------------------------------------------------------------------
\* The empty tables satisfy the invariant.
LEMMA DocInitInv == ResumesInit => DocInv
<1> SUFFICES ASSUME ResumesInit PROVE DocInv
  OBVIOUS
<1> USE DEF ResumesInit
<1>1. ResumesTypeOK /\ HistoriesTyped
  BY DEF ResumesTypeOK, HistoriesTyped, saved, DocWriters
<1>2. Absent.at # "row"
  BY DocumentShapes
<1>3. Kept(resume, resumeVersions, resumeHistory) /\ Kept(letter, letterVersions, letterHistory)
  BY <1>2 DEF Kept
<1>4. ASSUME NEW w \in Writers PROVE WriterSound(docWriter[w])
  BY DEF WriterSound, WriterIdle
<1>5. QED
  BY <1>1, <1>2, <1>3, <1>4 DEF DocInv, VersionsAreRecoverable

\* Every step keeps it.
LEMMA DocNextKeeps == DocInv /\ [ResumesNext]_resumesVars => DocInv'
<1> SUFFICES ASSUME DocInv, [ResumesNext]_resumesVars PROVE DocInv'
  OBVIOUS
<1>1. CASE UNCHANGED resumesVars
  BY <1>1 DEF resumesVars, DocInv, ResumesTypeOK, HistoriesTyped, Kept, Traces, WriterSound, WriterRead,
     SavedOrLost, VersionsAreRecoverable, Recoverable
<1>2. CASE CreateResume
  BY <1>2, CreateResumeKeeps
<1>3. CASE DeleteResume
  BY <1>3, DeleteResumeKeeps
<1>4. CASE DeleteCoverLetter \/ \E linked \in BOOLEAN : CreateCoverLetter(linked)
  BY <1>4, LetterComesAndGoes
<1>5. ASSUME NEW w \in Writers,
             ReadResume(w) \/ ReadLetter(w) \/ (\E named \in BOOLEAN : ReadBasis(w, named))
                \/ AbandonWriting(w)
      PROVE  DocInv'
  BY <1>5, ReadersKeep
<1>6. ASSUME NEW w \in Writers, NEW inserted \in BOOLEAN,
             saveVersionSnapshot(w, inserted) \/ saveCoverLetterVersionSnapshot(w, inserted)
      PROVE  DocInv'
  BY <1>6, ResumeSnapshotKeeps, LetterSnapshotKeeps
<1>7. ASSUME NEW w \in Writers, Update(w) PROVE DocInv'
  <2>1. docWriter[w] \in DocWriters /\ docWriter[w].pc = "read" /\ docWriter[w].doc = "resume"
    BY <1>7 DEF Update, DocInv, ResumesTypeOK
  <2>2. docWriter[w].seen.content \in Contents \cup {NoContent}
    BY <2>1, WriterShapes DEF ResumeRows
  <2>3. QED
    BY <1>7, <2>1, <2>2, WriteResumeKeeps DEF Update
<1>8. ASSUME NEW w \in Writers, NEW content \in Contained,
             UpdateContent(w, content) \/ GenerateContent(w, content)
      PROVE  DocInv'
  <2>1. content \in Contents \cup {NoContent}
    BY <1>8 DEF UpdateContent, GenerateContent, validateContent, Contained
  <2>2. docWriter[w].pc = "saved" /\ docWriter[w].doc = "resume" /\ writeResume(w, content)
    BY <1>8 DEF UpdateContent, GenerateContent
  <2>3. QED
    BY <2>1, <2>2, WriteResumeKeeps
<1>9. ASSUME NEW w \in Writers, NEW content \in Contained, GenerateCoverLetter(w, content)
      PROVE  DocInv'
  <2>1. docWriter[w] \in DocWriters /\ WriterSound(docWriter[w]) /\ docWriter[w].pc = "based"
    BY <1>9 DEF GenerateCoverLetter, DocInv, ResumesTypeOK
  <2>2. /\ docWriter[w].doc = "letter" /\ docWriter[w].basis \in Versions \cup {NoVersion}
        /\ docWriter[w].source \in Contents \cup {NoContent}
    BY <2>1, WriterShapes
  <2>3. Traces(docWriter[w].basis, docWriter[w].source)
    BY <2>1 DEF WriterSound
  <2>4. QED
    BY <1>9, <2>1, <2>2, <2>3, WriteLetterKeeps DEF GenerateCoverLetter
<1>10. ASSUME NEW w \in Writers, NEW content \in Contained, UpdateCoverLetterContent(w, content)
       PROVE  DocInv'
  <2>1. /\ docWriter[w] \in DocWriters /\ WriterSound(docWriter[w])
        /\ docWriter[w].pc = "saved" /\ docWriter[w].doc = "letter"
    BY <1>10 DEF UpdateCoverLetterContent, DocInv, ResumesTypeOK
  <2>2. docWriter[w].seen.basis \in Versions \cup {NoVersion}
    BY <2>1, WriterShapes DEF LetterRows
  <2>3. letterSource \in Contents \cup {NoContent}
    BY DEF DocInv, ResumesTypeOK
  <2>4. letter.at = "row" /\ letter.version = docWriter[w].seen.version =>
            Traces(docWriter[w].seen.basis, letterSource)
    BY <2>1 DEF WriterSound, DocInv
  <2>5. QED
    BY <1>10, <2>1, <2>2, <2>3, <2>4, WriteLetterKeeps DEF UpdateCoverLetterContent
<1>11. QED
  BY <1>1, <1>2, <1>3, <1>4, <1>5, <1>6, <1>7, <1>8, <1>9, <1>10 DEF ResumesNext

\* The tables of backend/internal/resumes hold what their columns allow, and the
\* histories follow them, for any number of writers and versions.
THEOREM DocumentsSound == ResumesSpec => []DocInv
<1>1. ResumesInit => DocInv
  BY DocInitInv
<1>2. DocInv /\ [ResumesNext]_resumesVars => DocInv'
  BY DocNextKeeps
<1>3. QED
  BY <1>1, <1>2, PTL DEF ResumesSpec

\* Versioned resume content for history and rollback: however many writers
\* interleave the snapshot of saveVersionSnapshot with their compare-and-set
\* UPDATE, no content a document ever had is lost.
THEOREM VersionsRecoverable ==
    ResumesSpec => []VersionsAreRecoverable
<1>1. DocInv => VersionsAreRecoverable
  BY DEF DocInv
<1>2. QED
  BY <1>1, DocumentsSound, PTL

\* The documents, the versions and what each writer holds keep their shape.
THEOREM ResumesType == ResumesSpec => []ResumesTypeOK
<1>1. DocInv => ResumesTypeOK
  BY DEF DocInv
<1>2. QED
  BY <1>1, DocumentsSound, PTL

\* A letter names the resume version whose content the model was given, although
\* ReadBasis reads it a model call before the letter is written.
THEOREM LetterTraceable ==
    ResumesSpec => []LetterIsTraceable
<1>1. DocInv => LetterIsTraceable
  BY DEF DocInv, Traces, LetterIsTraceable
<1>2. QED
  BY <1>1, DocumentsSound, PTL

-----------------------------------------------------------------------------
\* Emails: Emails.tla.

\* How far along a status is: the transition table only leads further.
Progress == [draft |-> 0, queued |-> 1, applied |-> 2, assessment |-> 3, phone_screen |-> 4,
             technical |-> 5, final |-> 6, offer |-> 7, rejected |-> 8]

\* The mails before the one the task is at have been acted on, if they ask for it.
Acted(upto) == \A k \in DOMAIN Mailbox : k < upto /\ target(k) # NoTarget => mailEffects[k] # 0

EmailsInv ==
    /\ EmailsTypeOK
    /\ ~mailBent =>
          \A i \in DOMAIN Mailbox :
              /\ mailEffects[i] <= 1
              /\ mailEffects[i] # 0 => /\ target(i) # NoTarget
                                       /\ Progress[target(i)] <= Progress[mailStatus]
    /\ mailSync.pc # "idle" => Acted(mailSync.i)
    /\ mailSync.pc # "idle" /\ mailSync.i <= Len(Mailbox) => target(mailSync.i) # NoTarget
    /\ mailSync.pc = "commit" => mailSync.i <= Len(Mailbox)
    /\ mailSync.pc = "done" => mailSync.i > Len(Mailbox)
    /\ \A i \in DOMAIN Mailbox :
          mailEffects[i] + mailSync.left
              + (IF mailSync.pc \in {"check", "commit"} /\ i >= mailSync.i THEN 1 ELSE 0)
                  <= CheckDeliveries

-----------------------------------------------------------------------------
\* The mail the task goes to next: none that asks for a status is passed over.
LEMMA NextMailIsNext ==
    ASSUME NEW i \in 1..(Len(Mailbox) + 1)
    PROVE  /\ NextMail(i) \in i..(Len(Mailbox) + 1)
           /\ NextMail(i) <= Len(Mailbox) => target(NextMail(i)) # NoTarget
           /\ \A k \in DOMAIN Mailbox : i <= k /\ k < NextMail(i) => target(k) = NoTarget
<1> DEFINE later == {k \in i..Len(Mailbox) : target(k) # NoTarget}
<1>0. Len(Mailbox) \in Nat /\ DOMAIN Mailbox = 1..Len(Mailbox)
  BY EmailsAssumption
<1>1. CASE later = {}
  <2>1. NextMail(i) = Len(Mailbox) + 1
    BY <1>1 DEF NextMail
  <2>2. QED
    BY <1>0, <1>1, <2>1
<1>2. CASE later # {}
  <2>1. later \in SUBSET Nat
    BY <1>0
  <2>2. \E k \in later : \A n \in later : k <= n
    BY <1>2, <2>1, LeastNumber
  <2>3. NextMail(i) \in later /\ \A n \in later : NextMail(i) <= n
    BY <1>2, <2>2 DEF NextMail
  <2>4. QED
    BY <1>0, <2>3
<1>3. QED
  BY <1>1, <1>2

\* The statuses, and what a mail may ask for.
LEMMA Vocabulary ==
    /\ PipelineStatus = {"draft", "queued", "applied", "assessment", "phone_screen",
                         "technical", "final", "offer", "rejected"}
    /\ NoTarget \notin PipelineStatus
    /\ \A c : Target(c) \in PipelineStatus \cup {NoTarget}
    /\ \A l \in Labels \cup Classification : NormalizeClassification(l) = l \/ NormalizeClassification(l) \in Classification
    /\ \A l \in Labels : Classify(l) \in Classification
<1>1. PipelineStatus = {"draft", "queued", "applied", "assessment", "phone_screen",
                        "technical", "final", "offer", "rejected"}
  BY DEF PipelineStatus, MailTransitions
<1>2. QED
  BY <1>1 DEF NoTarget, Target, NormalizeClassification, Classify, Classification

\* The table only leads further.
LEMMA TransitionsAdvance ==
    ASSUME NEW s \in PipelineStatus, NEW t \in MailTransitions[s]
    PROVE  /\ t \in PipelineStatus
           /\ Progress[s] \in Nat /\ Progress[t] \in Nat /\ Progress[s] < Progress[t]
BY Vocabulary DEF MailTransitions, Progress

\* Every status has its place.
LEMMA ProgressIsNumber ==
    ASSUME NEW s \in PipelineStatus PROVE Progress[s] \in Nat
BY Vocabulary DEF Progress

-----------------------------------------------------------------------------
\* Nothing is stored and no sync runs at first.
LEMMA EmailsInitInv == EmailsInit => EmailsInv
<1>1. Len(Mailbox) \in Nat /\ DOMAIN Mailbox = 1..Len(Mailbox) /\ CheckDeliveries \in Nat
  BY EmailsAssumption
<1>2. QED
  <2>1. SUFFICES ASSUME EmailsInit PROVE EmailsInv
    OBVIOUS
  <2>2. "applied" \in PipelineStatus
    BY Vocabulary
  <2>3. mailSync \in SyncStates /\ mailEffects \in [DOMAIN Mailbox -> 0..CheckDeliveries]
    BY <1>1, <2>1 DEF EmailsInit, SyncStates
  <2>4. EmailsTypeOK
    BY <2>1, <2>2, <2>3 DEF EmailsInit, EmailsTypeOK
  <2>5. /\ mailSync.pc = "idle" /\ mailSync.left = CheckDeliveries /\ ~mailBent
        /\ \A i \in DOMAIN Mailbox : mailEffects[i] = 0
    BY <2>1 DEF EmailsInit
  <2>6. QED
    BY <1>1, <2>4, <2>5 DEF EmailsInv

\* The requests that store and edit a mail: the application does not notice.
LEMMA StoresKeep ==
    ASSUME EmailsInv, mailRow' \in [Messages -> MailRows \cup {NoMail}],
           UNCHANGED <<mailStatus, mailUser, mailSync, mailEffects, mailBent>>
    PROVE  EmailsInv'
BY DEF EmailsInv, EmailsTypeOK, Acted

\* What the other requests do to an email does not touch its effects.
LEMMA MailEdits ==
    ASSUME EmailsInv, NEW m \in Messages,
           \/ \E app \in {Unlinked, "application"}, label \in Labels, given \in BOOLEAN : Store(m, app, label, given)
           \/ \E isRead \in BOOLEAN : MarkRead(m, isRead)
           \/ UpdateDraft(m)
           \/ \E answer \in Labels : Reclassify(m, answer)
    PROVE  EmailsInv'
<1>1. mailRow \in [Messages -> MailRows \cup {NoMail}] /\ NoMail \notin MailRows
  BY DEF EmailsInv, EmailsTypeOK, MailRows, NoMail
<1>2. ASSUME NEW row \in MailRows, mailRow' = [mailRow EXCEPT ![m] = row],
             UNCHANGED <<mailStatus, mailUser, mailSync, mailEffects, mailBent>>
      PROVE  EmailsInv'
  BY <1>1, <1>2, StoresKeep
<1>3. ASSUME NEW app \in {Unlinked, "application"}, NEW class \in Classification, Upsert(m, app, class)
      PROVE  EmailsInv'
  <2>1. CASE mailRow[m] = NoMail
    <3>1. [app |-> app, class |-> class, read |-> FALSE, draft |-> FALSE] \in MailRows
      BY DEF MailRows
    <3>2. QED
      BY <1>2, <1>3, <2>1, <3>1 DEF Upsert
  <2>2. CASE mailRow[m] # NoMail
    <3>1. mailRow[m] \in MailRows
      BY <1>1, <2>2
    <3>2. PICK row \in MailRows :
              row = [mailRow[m] EXCEPT !.app = IF app # Unlinked THEN app ELSE mailRow[m].app,
                                       !.class = class]
      BY <3>1 DEF MailRows
    <3>3. mailRow' = [mailRow EXCEPT ![m] = row]
      BY <1>3, <2>2, <3>2 DEF Upsert
    <3>4. QED
      BY <1>2, <1>3, <3>3 DEF Upsert
  <2>3. QED
    BY <2>1, <2>2
<1>4. ASSUME NEW app \in {Unlinked, "application"}, NEW label \in Labels, NEW given \in BOOLEAN,
             Store(m, app, label, given)
      PROVE  EmailsInv'
  BY <1>3, <1>4 DEF Store
<1>5. ASSUME mailRow[m] # NoMail, NEW isRead \in BOOLEAN, MarkRead(m, isRead) PROVE EmailsInv'
  <2>1. PICK row \in MailRows : row = [mailRow[m] EXCEPT !.read = isRead]
    BY <1>1, <1>5 DEF MailRows
  <2>2. QED
    BY <1>2, <1>5, <2>1 DEF MarkRead
<1>6. ASSUME mailRow[m] # NoMail, UpdateDraft(m) PROVE EmailsInv'
  <2>1. PICK row \in MailRows : row = [mailRow[m] EXCEPT !.draft = TRUE]
    BY <1>1, <1>6 DEF MailRows
  <2>2. QED
    BY <1>2, <1>6, <2>1 DEF UpdateDraft
<1>7. ASSUME mailRow[m] # NoMail, NEW answer \in Labels, Reclassify(m, answer) PROVE EmailsInv'
  <2>1. PICK row \in MailRows : row = [mailRow[m] EXCEPT !.class = Classify(answer)]
    BY <1>1, <1>7, Vocabulary DEF MailRows
  <2>2. QED
    BY <1>2, <1>7, <2>1 DEF Reclassify
<1>8. QED
  BY <1>4, <1>5, <1>6, <1>7 DEF MarkRead, UpdateDraft, Reclassify

-----------------------------------------------------------------------------
\* A delivery starts, is checked, ends or breaks off.
LEMMA SyncSteps ==
    ASSUME EmailsInv, SyncEmails \/ SyncCheck \/ SyncCompletes \/ SyncInterrupted
    PROVE  EmailsInv'
<1>0. /\ Len(Mailbox) \in Nat /\ DOMAIN Mailbox = 1..Len(Mailbox) /\ CheckDeliveries \in Nat
      /\ mailSync \in SyncStates /\ mailEffects \in [DOMAIN Mailbox -> 0..CheckDeliveries]
  BY EmailsAssumption DEF EmailsInv, EmailsTypeOK
<1>1. PICK pc \in {"idle", "check", "commit", "done"}, i \in 1..(Len(Mailbox) + 1), left \in 0..CheckDeliveries :
          mailSync = [pc |-> pc, i |-> i, left |-> left]
  BY <1>0 DEF SyncStates
<1>2. CASE SyncEmails
  <2>1. PICK k \in 1..(Len(Mailbox) + 1) : k = NextMail(1)
    BY <1>0, NextMailIsNext
  <2>2. /\ mailSync' = [pc |-> "check", i |-> k, left |-> left - 1]
        /\ left > 0 /\ pc = "idle" /\ left - 1 \in 0..CheckDeliveries
        /\ UNCHANGED <<mailRow, mailStatus, mailUser, mailEffects, mailBent>>
    <3>1. mailSync.pc = pc /\ mailSync.left = left
      BY <1>1
    <3>2. left > 0 /\ pc = "idle"
      BY <1>2, <3>1 DEF SyncEmails
    <3>3. mailSync' = [pc |-> "check", i |-> k, left |-> left - 1]
      BY <1>2, <2>1, <3>1 DEF SyncEmails
    <3>4. QED
      BY <1>0, <1>2, <3>2, <3>3 DEF SyncEmails
  <2>3. EmailsTypeOK'
    BY <2>2 DEF EmailsInv, EmailsTypeOK, SyncStates
  <2>4. Acted(k) /\ (k <= Len(Mailbox) => target(k) # NoTarget)
    BY <1>0, <2>1, NextMailIsNext DEF Acted
  <2>5. QED
    BY <1>0, <1>1, <2>2, <2>3, <2>4 DEF EmailsInv, Acted
<1>3. CASE SyncCheck
  <2>1. /\ pc = "check" /\ i <= Len(Mailbox)
        /\ UNCHANGED <<mailRow, mailStatus, mailUser, mailEffects, mailBent>>
    BY <1>1, <1>3 DEF SyncCheck
  <2>2. PICK to \in {"commit", "idle"} : mailSync' = [pc |-> to, i |-> i, left |-> left]
    BY <1>1, <1>3 DEF SyncCheck
  <2>3. EmailsTypeOK'
    BY <2>1, <2>2 DEF EmailsInv, EmailsTypeOK, SyncStates
  <2>4. QED
    BY <1>0, <1>1, <2>1, <2>2, <2>3 DEF EmailsInv, Acted
<1>4. CASE SyncCompletes \/ SyncInterrupted
  <2>1. PICK to \in {"done", "idle"} :
            /\ mailSync' = [pc |-> to, i |-> i, left |-> left]
            /\ pc \in {"check", "commit"} /\ (to = "done" => i > Len(Mailbox))
            /\ UNCHANGED <<mailRow, mailStatus, mailUser, mailEffects, mailBent>>
    BY <1>1, <1>4 DEF SyncCompletes, SyncInterrupted
  <2>2. EmailsTypeOK'
    BY <2>1 DEF EmailsInv, EmailsTypeOK, SyncStates
  <2>3. QED
    BY <1>0, <1>1, <2>1, <2>2 DEF EmailsInv, Acted
<1>5. QED
  BY <1>2, <1>3, <1>4

\* A user's change of the status.
LEMMA UserSteps ==
    ASSUME EmailsInv, (\E to \in PipelineStatus : UserCheck(to)) \/ UserCommit
    PROVE  EmailsInv'
<1>1. CASE \E to \in PipelineStatus : UserCheck(to)
  <2>1. PICK to \in PipelineStatus : UserCheck(to)
    BY <1>1
  <2>2. QED
    BY <2>1 DEF UserCheck, EmailsInv, EmailsTypeOK, Acted
<1>2. CASE UserCommit
  <2>1. PICK to \in PipelineStatus : to = mailUser
    BY <1>2 DEF UserCommit, EmailsInv, EmailsTypeOK
  <2>2. /\ mailStatus' = to /\ mailUser' = NoTarget
        /\ mailBent' = (mailBent \/ to \notin MailTransitions[mailStatus])
        /\ UNCHANGED <<mailRow, mailSync, mailEffects>>
    BY <1>2, <2>1 DEF UserCommit, moveTo
  <2>3. EmailsTypeOK'
    BY <2>2 DEF EmailsInv, EmailsTypeOK
  <2>4. ~mailBent' => ~mailBent /\ Progress[mailStatus] < Progress[to]
    BY <2>2, TransitionsAdvance DEF EmailsInv, EmailsTypeOK
  <2>5. ASSUME ~mailBent', NEW i \in DOMAIN Mailbox
        PROVE  /\ mailEffects[i] <= 1
               /\ mailEffects[i] # 0 => target(i) # NoTarget /\ Progress[target(i)] <= Progress[to]
    <3>1. target(i) # NoTarget => Progress[target(i)] \in Nat
      BY ProgressIsNumber, Vocabulary DEF target
    <3>2. Progress[mailStatus] \in Nat /\ Progress[to] \in Nat
      BY ProgressIsNumber DEF EmailsInv, EmailsTypeOK
    <3>3. QED
      BY <2>4, <2>5, <3>1, <3>2 DEF EmailsInv
  <2>6. QED
    BY <2>2, <2>3, <2>5 DEF EmailsInv, Acted
<1>3. QED
  BY <1>1, <1>2

\* The task's change of the status: a mail that has been acted on asks for a status
\* the application has reached or passed, and is refused.
LEMMA SyncCommitKeeps ==
    ASSUME EmailsInv, SyncCommit
    PROVE  EmailsInv'
<1>0. /\ Len(Mailbox) \in Nat /\ DOMAIN Mailbox = 1..Len(Mailbox) /\ CheckDeliveries \in Nat
      /\ mailSync \in SyncStates /\ mailEffects \in [DOMAIN Mailbox -> 0..CheckDeliveries]
  BY EmailsAssumption DEF EmailsInv, EmailsTypeOK
<1>1. PICK i \in 1..(Len(Mailbox) + 1), left \in 0..CheckDeliveries :
          mailSync = [pc |-> "commit", i |-> i, left |-> left]
  BY <1>0 DEF SyncStates, SyncCommit
<1>2. i \in DOMAIN Mailbox /\ i + 1 \in 1..(Len(Mailbox) + 1)
  BY <1>0, <1>1 DEF EmailsInv
<1>3. PICK to \in PipelineStatus : to = target(i)
  BY <1>0, <1>1, <1>2, Vocabulary DEF EmailsInv, target
<1>4. PICK k \in (i + 1)..(Len(Mailbox) + 1) : k = NextMail(i + 1)
  BY <1>2, NextMailIsNext
<1>5. /\ (k <= Len(Mailbox) => target(k) # NoTarget)
      /\ \A n \in DOMAIN Mailbox : i + 1 <= n /\ n < k => target(n) = NoTarget
  BY <1>2, <1>4, NextMailIsNext
<1>6. /\ mailStatus' = to /\ UNCHANGED <<mailRow, mailUser>>
      /\ mailBent' = (mailBent \/ to \notin MailTransitions[mailStatus])
      /\ mailEffects' = [mailEffects EXCEPT ![i] = @ + 1]
      /\ mailSync' = [pc |-> "check", i |-> k, left |-> left]
  BY <1>1, <1>3, <1>4 DEF SyncCommit, moveTo
<1>7. /\ mailEffects'[i] = mailEffects[i] + 1 /\ mailEffects[i] + left + 1 <= CheckDeliveries
      /\ \A n \in DOMAIN Mailbox \ {i} : mailEffects'[n] = mailEffects[n]
      /\ \A n \in DOMAIN Mailbox : mailEffects[n] \in Nat
  BY <1>0, <1>1, <1>2, <1>6 DEF EmailsInv
<1>8. EmailsTypeOK'
  <2>1. mailEffects' \in [DOMAIN Mailbox -> 0..CheckDeliveries]
    BY <1>0, <1>6, <1>7
  <2>2. mailSync' \in SyncStates
    BY <1>2, <1>4, <1>6 DEF SyncStates
  <2>3. QED
    BY <1>6, <2>1, <2>2 DEF EmailsInv, EmailsTypeOK
<1>9. ASSUME ~mailBent', NEW n \in DOMAIN Mailbox
      PROVE  /\ mailEffects'[n] <= 1
             /\ mailEffects'[n] # 0 => target(n) # NoTarget /\ Progress[target(n)] <= Progress[to]
  <2>1. ~mailBent /\ Progress[mailStatus] < Progress[to]
    BY <1>6, <1>9, TransitionsAdvance DEF EmailsInv, EmailsTypeOK
  <2>2. /\ mailEffects[n] <= 1
        /\ mailEffects[n] # 0 => target(n) # NoTarget /\ Progress[target(n)] <= Progress[mailStatus]
    BY <2>1 DEF EmailsInv
  <2>3. Progress[mailStatus] \in Nat /\ Progress[to] \in Nat
    BY ProgressIsNumber DEF EmailsInv, EmailsTypeOK
  <2>4. target(n) # NoTarget => Progress[target(n)] \in Nat
    BY ProgressIsNumber, Vocabulary DEF target
  <2>5. CASE n = i
    <3>1. mailEffects[i] = 0
      BY <1>3, <1>7, <2>1, <2>2, <2>3, <2>5
    <3>2. QED
      BY <1>3, <1>7, <2>3, <2>5, <3>1, Vocabulary
  <2>6. CASE n # i
    BY <1>7, <2>1, <2>2, <2>3, <2>4, <2>6
  <2>7. QED
    BY <2>5, <2>6
<1>10. Acted(k)'
  <2>1. ASSUME NEW n \in DOMAIN Mailbox, n < k, target(n) # NoTarget PROVE mailEffects'[n] # 0
    <3>1. n < i \/ n = i \/ n >= i + 1
      BY <1>0, <1>2
    <3>2. n < i => mailEffects[n] # 0
      BY <1>1, <2>1 DEF EmailsInv, Acted
    <3>3. QED
      BY <1>0, <1>5, <1>7, <2>1, <3>1, <3>2
  <2>2. QED
    BY <2>1 DEF Acted, target
<1>11. \A n \in DOMAIN Mailbox : mailEffects'[n] + left + (IF n >= k THEN 1 ELSE 0) <= CheckDeliveries
  <2>1. \A n \in DOMAIN Mailbox : mailEffects[n] + left + (IF n >= i THEN 1 ELSE 0) <= CheckDeliveries
    BY <1>0, <1>1 DEF EmailsInv
  <2>2. ASSUME NEW n \in DOMAIN Mailbox
        PROVE  mailEffects'[n] + left + (IF n >= k THEN 1 ELSE 0) <= CheckDeliveries
    <3>1. CASE n = i
      <4>1. ~(n >= k)
        BY <1>0, <1>2, <1>4, <3>1
      <4>2. QED
        BY <1>7, <3>1, <4>1
    <3>2. CASE n # i
      <4>1. n >= k => n >= i
        BY <1>0, <1>2, <1>4
      <4>2. mailEffects'[n] = mailEffects[n] /\ mailEffects[n] \in Nat
        BY <1>7, <3>2
      <4>3. QED
        BY <1>0, <2>1, <4>1, <4>2
    <3>3. QED
      BY <3>1, <3>2
  <2>3. QED
    BY <2>2
<1>12. QED
  BY <1>0, <1>5, <1>6, <1>8, <1>9, <1>10, <1>11 DEF EmailsInv

\* Every step keeps the invariant of the emails.
LEMMA EmailsNextKeeps == EmailsInv /\ [EmailsNext]_emailsVars => EmailsInv'
<1>1. ASSUME EmailsInv, UNCHANGED emailsVars PROVE EmailsInv'
  BY <1>1 DEF emailsVars, EmailsInv, EmailsTypeOK, Acted
<1>2. ASSUME EmailsInv, EmailsNext PROVE EmailsInv'
  BY <1>2, MailEdits, SyncSteps, UserSteps, SyncCommitKeeps DEF EmailsNext
<1>3. QED
  BY <1>1, <1>2

-----------------------------------------------------------------------------
\* The stored mails, the status and the task keep their types.
THEOREM EmailsType == EmailsSpec => []EmailsTypeOK
<1>1. EmailsInv => EmailsTypeOK
  BY DEF EmailsInv
<1>2. QED
  BY <1>1, EmailsInitInv, EmailsNextKeeps, PTL DEF EmailsSpec

\* email_check is idempotent: however often the task is delivered and interrupted, and
\* whatever its mails say, a mail moves the application at most once, and a completed
\* task has acted on every mail that asks for it.
THEOREM MailsActOnce == EmailsSpec => []EachMailActsOnce
<1>1. EmailsInv => EachMailActsOnce
  <2>1. SUFFICES ASSUME EmailsInv, ~mailBent PROVE EachMailActsOnce
    BY DEF EachMailActsOnce
  <2>2. \A i \in DOMAIN Mailbox : mailEffects[i] <= 1
    BY <2>1 DEF EmailsInv
  <2>3. ASSUME mailSync.pc = "done", NEW i \in DOMAIN Mailbox, target(i) # NoTarget PROVE mailEffects[i] = 1
    <3>1. i < mailSync.i /\ mailEffects[i] \in Nat
      BY <2>1, <2>3, EmailsAssumption DEF EmailsInv, EmailsTypeOK, SyncStates
    <3>2. mailEffects[i] # 0
      BY <2>1, <2>3, <3>1 DEF EmailsInv, Acted
    <3>3. QED
      BY <2>2, <3>1, <3>2
  <2>4. QED
    BY <2>2, <2>3 DEF EachMailActsOnce
<1>2. QED
  BY <1>1, EmailsInitInv, EmailsNextKeeps, PTL DEF EmailsSpec

-----------------------------------------------------------------------------
\* Settings: Settings.tla.

\* A secret of the onboarding is stored under its key as it came in.
SecretIsFilled(key) == key \in Secrets /\ cfgStored[key] = filled

\* What is under a key was accepted for it or is a secret of the onboarding.
StoredInv ==
    /\ cfgSaver \in [Savers -> SUBSET DOMAIN OnboardingEntries]
    /\ \A key \in DOMAIN cfgStored : accepted(key, cfgStored[key]) \/ SecretIsFilled(key)

\* Every key and type that is range checked is one some section's setter converts.
LEMMA CheckedIsSet == rangeChecked \subseteq setNestedValue
<1>1. ASSUME NEW key \in
         {"scoring.auto_threshold", "scoring.review_threshold", "scoring.hybrid_reject_margin"}
      PROVE  <<key, "int">> \in setNestedValue
  BY <1>1 DEF setNestedValue, setScoringValue
<1>2. ASSUME NEW key \in
         {"interview.memory.max_recent_segments", "interview.memory.keep_after_summarize",
          "interview.responder.llm.timeout_ms", "interview.responder.llm.retries",
          "interview.planner.min_substantive_length"}
      PROVE  <<key, "int">> \in setNestedValue
  BY <1>2 DEF setNestedValue, setInterviewValue
<1>3. ASSUME NEW key \in {"rate_limits.rpm", "rate_limits.burst"}
      PROVE  <<key, "int">> \in setNestedValue
  BY <1>3 DEF setNestedValue, setRateLimitsValue
<1>4. ASSUME NEW key \in {"automation.queue.concurrency", "automation.queue.retry_attempts"}
      PROVE  <<key, "int">> \in setNestedValue
  BY <1>4 DEF setNestedValue, setAutomationValue
<1>5. ASSUME NEW key \in
         {"approval_tiers.auto_apply.min_score", "approval_tiers.auto_apply.max_score",
          "approval_tiers.review.min_score", "approval_tiers.review.max_score",
          "approval_tiers.reject.min_score", "approval_tiers.reject.max_score"}
      PROVE  <<key, "int">> \in setNestedValue
  BY <1>5 DEF setNestedValue, setApprovalTiersValue
<1>6. <<"cover_letter.max_length", "int">> \in setNestedValue
  BY DEF setNestedValue, setDocumentValue
<1>7. ASSUME NEW key \in
         {"scoring.weights.skill", "scoring.weights.experience", "scoring.weights.location",
          "scoring.weights.salary", "scoring.weights.description"}
      PROVE  <<key, "float">> \in setNestedValue
  BY <1>7 DEF setNestedValue, setScoringValue
<1>8. <<"interview.planner.duplicate_threshold", "float">> \in setNestedValue
  BY DEF setNestedValue, setInterviewValue
<1>9. <<"scoring.mode", "string">> \in setNestedValue
  BY DEF setNestedValue, setScoringValue
<1>10. <<"email.folders", "strings">> \in setNestedValue
  BY DEF setNestedValue, setEmailValue
<1>11. QED
  BY <1>1, <1>2, <1>3, <1>4, <1>5, <1>6, <1>7, <1>8, <1>9, <1>10 DEF rangeChecked

\* An accepted value under a key that is checked is one a setter takes.
LEMMA AcceptedApplies ==
    ASSUME NEW key, accepted(key, cfgStored[key]), key \notin unchecked
    PROVE  applies(key)
<1>1. PICK entry \in rangeChecked : entry[1] = key /\ convertsTo(cfgStored[key], entry[2])
  BY DEF accepted, validateValue
<1>2. QED
  BY <1>1, CheckedIsSet DEF applies

\* The one secret a setter knows is a string, which that setter takes.
LEMMA SecretApplies ==
    ASSUME cfgStored["voice.livekit.api_key"] = filled
    PROVE  applies("voice.livekit.api_key")
<1>1. <<"voice.livekit.api_key", "string">> \in setNestedValue
  BY DEF setNestedValue, setVoiceValue
<1>2. QED
  BY <1>1 DEF applies, convertsTo, filled

\* No setter is left out.
LEMMA StoredIsInForce == ASSUME StoredInv PROVE OverridesInForce
<1> SUFFICES ASSUME NEW key \in DOMAIN cfgStored,
                    ~(key \in unchecked /\ ~applies(key)),
                    key \notin Secrets \ {"voice.livekit.api_key"}
             PROVE  Resolve(key) = "db"
  BY DEF OverridesInForce
<1>1. accepted(key, cfgStored[key]) \/ SecretIsFilled(key)
  BY DEF StoredInv
<1>2. CASE accepted(key, cfgStored[key])
  BY <1>2, AcceptedApplies DEF Resolve
<1>3. CASE SecretIsFilled(key)
  BY <1>3, SecretApplies DEF Resolve, SecretIsFilled
<1>4. QED
  BY <1>1, <1>2, <1>3

\* An upsert of a value that is accepted, or of an entry of the onboarding that is a
\* secret, leaves every stored value accepted.
LEMMA UpsertKeeps ==
    ASSUME StoredInv, NEW key, NEW value, UpsertOverride(key, value),
           accepted(key, value) \/ (key \in Secrets /\ value = filled)
    PROVE  \A k \in DOMAIN cfgStored' : accepted(k, cfgStored'[k]) \/ SecretIsFilled(k)'
<1> SUFFICES ASSUME NEW k \in DOMAIN cfgStored'
             PROVE  accepted(k, cfgStored'[k]) \/ (k \in Secrets /\ cfgStored'[k] = filled)
  BY DEF SecretIsFilled
<1>1. CASE k = key
  <2>1. cfgStored'[k] = value
    BY <1>1 DEF UpsertOverride
  <2>2. QED
    BY <1>1, <2>1
<1>2. CASE k # key
  <2>1. k \in DOMAIN cfgStored /\ cfgStored'[k] = cfgStored[k]
    BY <1>2 DEF UpsertOverride
  <2>2. QED
    BY <2>1 DEF StoredInv, SecretIsFilled
<1>3. QED
  BY <1>1, <1>2

\* The overrides table is empty at first.
LEMMA SettingsInitInv == SettingsInit => StoredInv
BY DEF SettingsInit, StoredInv

\* Every step leaves the table with accepted values and secrets.
LEMMA SettingsNextKeeps == ASSUME StoredInv, [SettingsNext]_settingsVars PROVE StoredInv'
<1>1. ASSUME NEW value \in Values, SetOverride(cfgKey, value) PROVE StoredInv'
  <2>1. UpsertOverride(cfgKey, value) /\ accepted(cfgKey, value) /\ cfgSaver' = cfgSaver
    BY <1>1 DEF SetOverride
  <2>2. \A k \in DOMAIN cfgStored' : accepted(k, cfgStored'[k]) \/ SecretIsFilled(k)'
    BY <2>1, UpsertKeeps
  <2>3. QED
    BY <2>1, <2>2 DEF StoredInv
<1>2. ASSUME DeleteOverride(cfgKey) PROVE StoredInv'
  <2>1. \A k \in DOMAIN cfgStored' : k \in DOMAIN cfgStored /\ cfgStored'[k] = cfgStored[k]
    BY <1>2 DEF DeleteOverride
  <2>2. QED
    BY <1>2, <2>1 DEF DeleteOverride, StoredInv, SecretIsFilled
<1>3. ASSUME NEW s \in Savers, SaveEntry(s) PROVE StoredInv'
  <2>1. PICK i \in cfgSaver[s] :
           LET e == OnboardingEntries[i]
           IN IF e.secret \/ accepted(e.key, filled)
              THEN UpsertOverride(e.key, filled) /\ cfgSaver' = [cfgSaver EXCEPT ![s] = @ \ {i}]
              ELSE UNCHANGED cfgStored /\ cfgSaver' = [cfgSaver EXCEPT ![s] = {}]
    BY <1>3 DEF SaveEntry
  <2>2. i \in DOMAIN OnboardingEntries /\ cfgSaver[s] \subseteq DOMAIN OnboardingEntries
    BY DEF StoredInv
  <2> DEFINE e == OnboardingEntries[i]
  <2>3. e.secret => e.key \in Secrets
    BY <2>2 DEF Secrets
  <2>4. cfgSaver' \in [Savers -> SUBSET DOMAIN OnboardingEntries]
    BY <2>1, <2>2 DEF StoredInv
  <2>5. CASE e.secret \/ accepted(e.key, filled)
    <3>1. UpsertOverride(e.key, filled)
      BY <2>1, <2>5
    <3>2. \A k \in DOMAIN cfgStored' : accepted(k, cfgStored'[k]) \/ SecretIsFilled(k)'
      BY <2>3, <2>5, <3>1, UpsertKeeps
    <3>3. QED
      BY <2>4, <3>2 DEF StoredInv
  <2>6. CASE ~(e.secret \/ accepted(e.key, filled))
    <3>1. UNCHANGED cfgStored
      BY <2>1, <2>6
    <3>2. QED
      BY <2>4, <3>1 DEF StoredInv, SecretIsFilled
  <2>7. QED
    BY <2>5, <2>6
<1>4. ASSUME NEW s \in Savers, NEW form \in Forms, SaveOnboardingConfig(s, form) PROVE StoredInv'
  BY <1>4 DEF SaveOnboardingConfig, StoredInv, SecretIsFilled
<1>5. ASSUME NEW s \in Savers, SaveFails(s) PROVE StoredInv'
  BY <1>5 DEF SaveFails, StoredInv, SecretIsFilled
<1>6. CASE AccountCreated \/ CompleteOnboarding \/ UNCHANGED settingsVars
  BY <1>6 DEF AccountCreated, CompleteOnboarding, settingsVars, StoredInv, SecretIsFilled
<1>7. QED
  BY <1>1, <1>2, <1>3, <1>4, <1>5, <1>6 DEF SettingsNext

\* An override that was accepted takes effect, whatever the environment says: the
\* table of keys, the table of checks, the setters and the order of the layers agree.
THEOREM OverridesTakeEffect == SettingsSpec => []OverridesInForce
<1>1. SettingsInit => StoredInv
  BY SettingsInitInv
<1>2. StoredInv /\ [SettingsNext]_settingsVars => StoredInv'
  BY SettingsNextKeeps
<1>3. StoredInv => OverridesInForce
  BY StoredIsInForce
<1>4. QED
  BY <1>1, <1>2, <1>3, PTL DEF SettingsSpec

\* What is stored is under a key the tables name and has a JSON value's type.
THEOREM SettingsTypeCorrect == SettingsSpec => []SettingsTypeOK
<1>1. SettingsInit => SettingsTypeOK
  <2> SUFFICES ASSUME SettingsInit PROVE SettingsTypeOK
    OBVIOUS
  <2>1. DOMAIN cfgStored = {}
    BY DEF SettingsInit
  <2>2. cfgSaver \in [Savers -> SUBSET DOMAIN OnboardingEntries]
    BY DEF SettingsInit
  <2>3. QED
    BY <2>1, <2>2 DEF SettingsInit, SettingsTypeOK
<1>2. SettingsTypeOK /\ [SettingsNext]_settingsVars => SettingsTypeOK'
  <2> SUFFICES ASSUME SettingsTypeOK, [SettingsNext]_settingsVars PROVE SettingsTypeOK'
    OBVIOUS
  <2> DEFINE Stored == DOMAIN cfgStored \subseteq Keys /\ \A key \in DOMAIN cfgStored : cfgStored[key] \in Values
  <2>1. ASSUME NEW key \in Keys, NEW value \in Values, UpsertOverride(key, value) PROVE Stored'
    BY <2>1 DEF UpsertOverride, SettingsTypeOK
  <2>2. filled \in Values /\ \A i \in DOMAIN OnboardingEntries : OnboardingEntries[i].key \in Keys
    BY DEF filled, Values, JSONTypes, Keys
  <2>3. ASSUME NEW value \in Values, SetOverride(cfgKey, value) PROVE SettingsTypeOK'
    BY <2>1, <2>3 DEF SetOverride, SettingsTypeOK
  <2>4. CASE DeleteOverride(cfgKey)
    BY <2>4 DEF DeleteOverride, SettingsTypeOK
  <2>5. ASSUME NEW s \in Savers, SaveEntry(s) PROVE SettingsTypeOK'
    <3>1. PICK i \in cfgSaver[s] :
             LET e == OnboardingEntries[i]
             IN IF e.secret \/ accepted(e.key, filled)
                THEN UpsertOverride(e.key, filled) /\ cfgSaver' = [cfgSaver EXCEPT ![s] = @ \ {i}]
                ELSE UNCHANGED cfgStored /\ cfgSaver' = [cfgSaver EXCEPT ![s] = {}]
      BY <2>5 DEF SaveEntry
    <3>2. i \in DOMAIN OnboardingEntries
      BY DEF SettingsTypeOK
    <3>3. Stored'
      BY <2>1, <2>2, <3>1, <3>2 DEF SettingsTypeOK
    <3>4. cfgSaver' \in [Savers -> SUBSET DOMAIN OnboardingEntries]
      BY <3>1 DEF SettingsTypeOK
    <3>5. QED
      BY <2>5, <3>3, <3>4 DEF SaveEntry, SettingsTypeOK
  <2>6. ASSUME NEW s \in Savers, NEW form \in Forms, SaveOnboardingConfig(s, form)
        PROVE  SettingsTypeOK'
    BY <2>6 DEF SaveOnboardingConfig, SettingsTypeOK
  <2>7. ASSUME NEW s \in Savers, SaveFails(s) PROVE SettingsTypeOK'
    BY <2>7 DEF SaveFails, SettingsTypeOK
  <2>8. CASE AccountCreated \/ CompleteOnboarding \/ UNCHANGED settingsVars
    BY <2>8 DEF AccountCreated, CompleteOnboarding, settingsVars, SettingsTypeOK
  <2>9. QED
    BY <2>3, <2>4, <2>5, <2>6, <2>7, <2>8 DEF SettingsNext
<1>3. QED
  BY <1>1, <1>2, PTL DEF SettingsSpec

-----------------------------------------------------------------------------
\* Endpoints: Endpoints.tla.

\* What requests change.
Changes ==
    {"nothing", "job", "task", "application", "interview", "resume", "letter", "snapshot",
     "approval", "activity", "embedding", "profile", "default profile", "email", "read flag",
     "draft", "classification", "override", "refresh token", "refresh tokens", "last login",
     "reset token", "reset tokens", "password", "session version", "user", "onboarding"}

\* The shapes of the steps: what needs the row fails with 500 for any other reason.
Codes == SUBSET (200..599)
StatusCodes == {NoAnswer} \cup 200..599
Errors == {NoAnswer, Continue, 200, 202, 207, 500}
StepRecords ==
    [change : Changes, refusals : Codes, gone : Codes, error : SUBSET Errors, may : BOOLEAN]
StepShapes == {s \in StepRecords : s.gone # {} => s.error = {500}}

\* A step that changes nothing that matters, and a step that refuses no request.
Harmless == {"nothing", "snapshot", "default profile"}
HarmlessTo(h) == Harmless \cup (IF h = "RefreshReused" THEN {"refresh tokens"} ELSE {})
refusing(codes) == codes \cap 400..499 # {}
Quiet == {s \in StepShapes : s.change \in Harmless}
Firm == {s \in StepShapes : ~refusing(s.refusals) /\ ~refusing(s.gone)}

\* What precedes a condition is harmless, and so is what precedes a look for the row,
\* unless the row is found by then and is one that nobody deletes.
NeededRow(steps, i) ==
    \E m \in 1..i : steps[m].gone # {} /\ (m = i \/ ~steps[m].may)
Careful(steps, deletable, row) ==
    \A i, j \in 1..Len(steps) : i < j =>
        /\ refusing(steps[j].refusals) => steps[i] \in Quiet
        /\ refusing(steps[j].gone) =>
              steps[i] \in Quiet \/ (~deletable /\ (row \/ NeededRow(steps, i)))

\* The handler of a route is careful, and a route that ends in a refusal does no harm.
RouteSound(r, h, deletable) ==
    /\ r.steps \in Seq(StepShapes) /\ r.ok \in StatusCodes
    /\ Careful(r.steps, deletable, FALSE)
    /\ r.ok \in 400..499 => \A i \in 1..Len(r.steps) : r.steps[i].change \in HarmlessTo(h)
TableSound(table, deletable) == \A h \in DOMAIN table : RouteSound(table[h], h, deletable)

\* What the request has still to do, and what it has done.
EndpointsInv ==
    /\ RefusalChangesNothing
    /\ EndpointsTypeOK /\ epRoute.ok \in StatusCodes
    /\ epAnswer = Pending =>
          /\ epTodo \in Seq(StepShapes)
          /\ Careful(epTodo, epRoute.deletable, epRow)
          /\ \A j \in 1..Len(epTodo) :
                /\ refusing(epTodo[j].refusals) => epChanged \subseteq Harmless
                /\ refusing(epTodo[j].gone) =>
                      epChanged \subseteq Harmless \/ (~epRoute.deletable /\ epRow)
          /\ epRoute.ok \in 400..499 =>
                /\ epChanged \subseteq HarmlessTo(epRoute.handler)
                /\ \A i \in 1..Len(epTodo) : epTodo[i].change \in HarmlessTo(epRoute.handler)

-----------------------------------------------------------------------------
\* The codes of the routes.
LEMMA CodeSets ==
    /\ {} \in Codes /\ {200} \in Codes /\ {400} \in Codes /\ {401} \in Codes
    /\ {404} \in Codes /\ {409} \in Codes /\ {500} \in Codes /\ {400, 409} \in Codes
<1>1. {} \in Codes /\ {200} \in Codes
  BY DEF Codes
<1>2. {400} \in Codes /\ {401} \in Codes
  BY DEF Codes
<1>3. {404} \in Codes /\ {409} \in Codes
  BY DEF Codes
<1>4. {500} \in Codes /\ {400, 409} \in Codes
  BY DEF Codes
<1>5. QED
  BY <1>1, <1>2, <1>3, <1>4

\* What the routes change, table by table.
LEMMA JobChanges ==
    /\ "nothing" \in Changes /\ "job" \in Changes /\ "task" \in Changes
    /\ "application" \in Changes /\ "interview" \in Changes
BY DEF Changes

\* What the routes about documents change.
LEMMA DocumentChanges ==
    /\ "nothing" \in Changes /\ "resume" \in Changes /\ "letter" \in Changes
    /\ "snapshot" \in Changes /\ "default profile" \in Changes
BY DEF Changes

\* What the routes about records and emails change.
LEMMA RecordChanges ==
    /\ "approval" \in Changes /\ "activity" \in Changes /\ "application" \in Changes
    /\ "task" \in Changes /\ "embedding" \in Changes /\ "profile" \in Changes
    /\ "default profile" \in Changes
    /\ "email" \in Changes /\ "read flag" \in Changes /\ "draft" \in Changes
    /\ "classification" \in Changes /\ "override" \in Changes
BY DEF Changes

\* What the routes about the account change.
LEMMA AccountChanges ==
    /\ "refresh token" \in Changes /\ "refresh tokens" \in Changes
    /\ "last login" \in Changes /\ "reset token" \in Changes /\ "reset tokens" \in Changes
    /\ "password" \in Changes /\ "session version" \in Changes /\ "user" \in Changes
    /\ "onboarding" \in Changes /\ "override" \in Changes
BY DEF Changes

\* The errors of the routes.
LEMMA ErrorSets ==
    /\ {} \in SUBSET Errors /\ \A error \in Errors : {error} \in SUBSET Errors
    /\ 0 \in Errors /\ NoAnswer \in Errors /\ Continue \in Errors
    /\ 200 \in Errors /\ 202 \in Errors /\ 207 \in Errors /\ 500 \in Errors
BY DEF Errors, NoAnswer

\* What each kind of step is made of.
LEMMA checksShape ==
    ASSUME NEW r \in Codes
    PROVE  checks(r) \in StepShapes /\ checks(r).change = "nothing"
<1> DEFINE s == checks(r)
<1>1. s = [change |-> "nothing", refusals |-> r, gone |-> {}, error |-> {}, may |-> FALSE]
  BY DEF checks, step
<1>2. s.gone = {} /\ s.error = {} /\ s.change = "nothing"
  BY <1>1
<1>3. r \in Codes /\ {} \in Codes /\ {} \in SUBSET Errors
  BY CodeSets, ErrorSets
<1>4. "nothing" \in Changes
  BY JobChanges
<1> HIDE DEF s
<1>5. s \in StepRecords
  BY <1>1, <1>3, <1>4 DEF StepRecords
<1>6. s \in StepShapes
  BY <1>2, <1>5 DEF StepShapes
<1>7. QED
  BY <1>2, <1>6 DEF s

\* A query.
LEMMA readsElseShape ==
    ASSUME NEW e \in Errors
    PROVE  /\ readsElse(e) \in StepShapes /\ readsElse(e).change = "nothing"
           /\ readsElse(e).refusals = {} /\ readsElse(e).gone = {}
<1> DEFINE s == readsElse(e)
<1>1. s = [change |-> "nothing", refusals |-> {}, gone |-> {}, error |-> {e}, may |-> FALSE]
  BY DEF readsElse, step
<1>2. s.gone = {} /\ s.error = {e} /\ s.change = "nothing" /\ s.refusals = {}
  BY <1>1
<1>3. {} \in Codes /\ {e} \in SUBSET Errors
  BY CodeSets, ErrorSets
<1>4. "nothing" \in Changes
  BY JobChanges
<1> HIDE DEF s
<1>5. s \in StepRecords
  BY <1>1, <1>3, <1>4 DEF StepRecords
<1>6. s \in StepShapes
  BY <1>2, <1>5 DEF StepShapes
<1>7. QED
  BY <1>2, <1>6 DEF s

\* A look for the row.
LEMMA findsElseShape ==
    ASSUME NEW c, {c} \in Codes
    PROVE  findsElse(c) \in StepShapes
<1> DEFINE s == findsElse(c)
<1>1. s = [change |-> "nothing", refusals |-> {}, gone |-> {c}, error |-> {500}, may |-> FALSE]
  BY DEF findsElse, step
<1>2. s.gone = {c} /\ s.error = {500}
  BY <1>1
<1>3. {} \in Codes /\ {c} \in Codes /\ {500} \in SUBSET Errors
  BY CodeSets, ErrorSets
<1>4. "nothing" \in Changes
  BY JobChanges
<1> HIDE DEF s
<1>5. s \in StepRecords
  BY <1>1, <1>3, <1>4 DEF StepRecords
<1>6. s \in StepShapes
  BY <1>2, <1>5 DEF StepShapes
<1>7. QED
  BY <1>6 DEF s

\* A write that needs no row.
LEMMA insertsElseShape ==
    ASSUME NEW x \in Changes, NEW e \in Errors
    PROVE  /\ insertsElse(x, e) \in StepShapes /\ insertsElse(x, e).change = x
           /\ insertsElse(x, e).refusals = {} /\ insertsElse(x, e).gone = {}
<1> DEFINE s == insertsElse(x, e)
<1>1. s = [change |-> x, refusals |-> {}, gone |-> {}, error |-> {e}, may |-> FALSE]
  BY DEF insertsElse, step
<1>2. s.gone = {} /\ s.error = {e} /\ s.change = x /\ s.refusals = {}
  BY <1>1
<1>3. {} \in Codes /\ {e} \in SUBSET Errors
  BY CodeSets, ErrorSets
<1> HIDE DEF s
<1>5. s \in StepRecords
  BY <1>1, <1>3 DEF StepRecords
<1>6. s \in StepShapes
  BY <1>2, <1>5 DEF StepShapes
<1>7. QED
  BY <1>2, <1>6 DEF s

\* A write that may be refused.
LEMMA insertsUnlessShape ==
    ASSUME NEW x \in Changes, NEW r \in Codes
    PROVE  insertsUnless(x, r) \in StepShapes /\ insertsUnless(x, r).change = x
<1> DEFINE s == insertsUnless(x, r)
<1>1. s = [change |-> x, refusals |-> r, gone |-> {}, error |-> {500}, may |-> FALSE]
  BY DEF insertsUnless, step
<1>2. s.gone = {} /\ s.error = {500} /\ s.change = x
  BY <1>1
<1>3. r \in Codes /\ {} \in Codes /\ {500} \in SUBSET Errors
  BY CodeSets, ErrorSets
<1> HIDE DEF s
<1>5. s \in StepRecords
  BY <1>1, <1>3 DEF StepRecords
<1>6. s \in StepShapes
  BY <1>2, <1>5 DEF StepShapes
<1>7. QED
  BY <1>2, <1>6 DEF s

\* A write of the row the path names.
LEMMA updatesUnlessShape ==
    ASSUME NEW x \in Changes, NEW r \in Codes
    PROVE  updatesUnless(x, r) \in StepShapes
<1> DEFINE s == updatesUnless(x, r)
<1>1. s = [change |-> x, refusals |-> r, gone |-> {404}, error |-> {500}, may |-> FALSE]
  BY DEF updatesUnless, step
<1>2. s.gone = {404} /\ s.error = {500}
  BY <1>1
<1>3. r \in Codes /\ {404} \in Codes /\ {500} \in SUBSET Errors
  BY CodeSets, ErrorSets
<1> HIDE DEF s
<1>5. s \in StepRecords
  BY <1>1, <1>3 DEF StepRecords
<1>6. s \in StepShapes
  BY <1>2, <1>5 DEF StepShapes
<1>7. QED
  BY <1>6 DEF s

\* A step that not every request needs is made of the same.
LEMMA PerhapsShape ==
    ASSUME NEW s \in StepShapes
    PROVE  /\ perhaps(s) \in StepShapes /\ perhaps(s).change = s.change
           /\ perhaps(s).refusals = s.refusals /\ perhaps(s).gone = s.gone
BY DEF perhaps, StepShapes, StepRecords

\* The checks and the reads are quiet, and so are three of the writes.
LEMMA ChecksQuiet == \A r \in Codes : checks(r) \in Quiet
<1> SUFFICES ASSUME NEW r \in Codes PROVE checks(r) \in Quiet
  OBVIOUS
<1>1. "nothing" \in Harmless
  BY DEF Harmless
<1>2. QED
  BY <1>1, checksShape DEF Quiet

\* A query changes nothing.
LEMMA ReadsQuiet == \A e \in Errors : readsElse(e) \in Quiet
<1> SUFFICES ASSUME NEW e \in Errors PROVE readsElse(e) \in Quiet
  OBVIOUS
<1>1. "nothing" \in Harmless
  BY DEF Harmless
<1>2. readsElse(e) \in StepShapes /\ readsElse(e).change = "nothing"
  BY readsElseShape
<1>3. QED
  BY <1>1, <1>2, Zenon DEF Quiet

\* A look for the row changes nothing.
LEMMA FindsQuiet ==
    ASSUME NEW c, {c} \in Codes
    PROVE  findsElse(c) \in Quiet
<1>1. "nothing" \in Harmless
  BY DEF Harmless
<1>2. findsElse(c) \in StepShapes
  BY findsElseShape
<1>3. findsElse(c).change = "nothing"
  BY DEF findsElse, step
<1>4. QED
  BY <1>1, <1>2, <1>3, Zenon DEF Quiet

\* A write of what matters to nobody is quiet.
LEMMA WritesQuiet == \A x \in Harmless : \A e \in Errors : insertsElse(x, e) \in Quiet
<1> SUFFICES ASSUME NEW x \in Harmless, NEW e \in Errors PROVE insertsElse(x, e) \in Quiet
  OBVIOUS
<1>1. x \in Changes
  BY DocumentChanges, Zenon DEF Harmless
<1>2. insertsElse(x, e) \in StepShapes /\ insertsElse(x, e).change = x
  BY <1>1, insertsElseShape
<1>3. QED
  BY <1>2, Zenon DEF Quiet

\* A quiet step that some requests go without is quiet.
LEMMA PerhapsQuiet == \A s \in Quiet : perhaps(s) \in Quiet
BY PerhapsShape DEF Quiet

\* The steps that almost every handler begins with.
LEMMA QuietCommon ==
    valid \in Quiet /\ reads \in Quiet /\ finds \in Quiet /\ findsElse(500) \in Quiet
<1>1. {400} \in Codes
  BY CodeSets
<1>2. valid \in Quiet
  BY <1>1, ChecksQuiet, Zenon DEF valid
<1>3. 500 \in Errors
  BY ErrorSets
<1>4. reads \in Quiet
  BY <1>3, ReadsQuiet DEF reads
<1>5. {404} \in Codes /\ {500} \in Codes
  BY CodeSets
<1>6. finds \in Quiet
  BY <1>5, FindsQuiet, ZenonT(30) DEF finds
<1>7. findsElse(500) \in Quiet
  BY <1>5, FindsQuiet, ZenonT(30)
<1>8. QED
  BY <1>2, <1>4, <1>6, <1>7

\* The writes that matter to nobody.
LEMMA QuietWrites ==
    /\ tries("snapshot") \in Quiet /\ perhaps(inserts("default profile")) \in Quiet
    /\ perhaps(insertsUnless("nothing", {404})) \in Quiet
<1>1. "nothing" \in Harmless /\ "snapshot" \in Harmless /\ "default profile" \in Harmless
  BY DEF Harmless
<1>2. Continue \in Errors /\ 500 \in Errors
  BY ErrorSets
<1>3. tries("snapshot") \in Quiet
  <2>1. insertsElse("snapshot", Continue) \in Quiet
    BY <1>1, <1>2, WritesQuiet, Zenon
  <2>2. QED
    BY <2>1, Zenon DEF tries
<1>4. inserts("default profile") \in Quiet
  <2>1. insertsElse("default profile", 500) \in Quiet
    BY <1>1, <1>2, WritesQuiet, ZenonT(30)
  <2>2. QED
    BY <2>1, Zenon DEF inserts
<1>5. ASSUME NEW r \in Codes PROVE insertsUnless("nothing", r) \in Quiet
  <2>1. "nothing" \in Changes
    BY DocumentChanges, Zenon
  <2>2. /\ insertsUnless("nothing", r) \in StepShapes
        /\ insertsUnless("nothing", r).change = "nothing"
    BY <2>1, insertsUnlessShape
  <2>3. QED
    BY <1>1, <2>2, Zenon DEF Quiet
<1>6. {404} \in Codes
  BY CodeSets
<1>7. insertsUnless("nothing", {404}) \in Quiet
  BY <1>5, <1>6, Zenon
<1>8. QED
  BY <1>3, <1>4, <1>7, PerhapsQuiet, Zenon

\* A write that needs no row refuses nothing, and neither does a read.
LEMMA PerhapsFirm == \A s \in Firm : perhaps(s) \in Firm
BY PerhapsShape DEF Firm

\* A write that needs no row and has no condition refuses nothing.
LEMMA WritesFirm == \A x \in Changes : \A e \in Errors : insertsElse(x, e) \in Firm
<1> SUFFICES ASSUME NEW x \in Changes, NEW e \in Errors PROVE insertsElse(x, e) \in Firm
  OBVIOUS
<1>1. ~refusing({})
  BY DEF refusing
<1>2. /\ insertsElse(x, e) \in StepShapes
      /\ insertsElse(x, e).refusals = {} /\ insertsElse(x, e).gone = {}
  BY insertsElseShape
<1>3. QED
  BY <1>1, <1>2 DEF Firm

\* So does one whose error is a 500.
LEMMA InsertsFirm == \A x \in Changes : inserts(x) \in Firm
<1>1. 500 \in Errors
  BY ErrorSets
<1>2. QED
  BY <1>1, WritesFirm DEF inserts

\* So does one whose error goes unnoticed.
LEMMA TriesFirm == \A x \in Changes : tries(x) \in Firm
<1>1. Continue \in Errors
  BY ErrorSets
<1>2. QED
  BY <1>1, WritesFirm DEF tries

\* A query refuses nothing, nor does a look for a row that must be there.
LEMMA ReadsFirm == reads \in Firm /\ findsElse(500) \in Firm
<1>1. ~refusing({})
  BY DEF refusing
<1>2. ~refusing({500})
  BY DEF refusing
<1>3. 500 \in Errors
  BY ErrorSets
<1>4. ASSUME NEW e \in Errors PROVE readsElse(e) \in Firm
  <2>1. readsElse(e) \in StepShapes /\ readsElse(e).refusals = {} /\ readsElse(e).gone = {}
    BY readsElseShape
  <2>2. QED
    BY <1>1, <2>1 DEF Firm
<1>5. findsElse(500) \in Firm
  <2>1. findsElse(500) \in StepShapes
    <3>1. {500} \in Codes
      BY CodeSets
    <3>2. QED
      BY <3>1, findsElseShape, ZenonT(30)
  <2>2. findsElse(500).refusals = {} /\ findsElse(500).gone = {500}
    BY DEF findsElse, step
  <2>3. QED
    BY <1>1, <1>2, <2>1, <2>2 DEF Firm
<1>6. QED
  BY <1>3, <1>4, <1>5 DEF reads

\* A write of a row has the shape of a step, and so have the other two kinds.
LEMMA UpdatesShape == \A x \in Changes : updates(x) \in StepShapes
<1>1. {} \in Codes
  BY CodeSets
<1>2. QED
  BY <1>1, updatesUnlessShape DEF updates

\* Quiet steps and firm ones are steps.
LEMMA Kinds == Quiet \subseteq StepShapes /\ Firm \subseteq StepShapes
BY DEF Quiet, Firm

\* All before the k-th step is quiet and all after it firm.
Around(k, steps) ==
    \A i \in 1..Len(steps) : (i < k => steps[i] \in Quiet) /\ (i > k => steps[i] \in Firm)

\* Steps of which all but one are quiet before it or firm after it are careful.
LEMMA QuietThenFirm ==
    ASSUME NEW steps \in Seq(StepShapes), NEW k \in Int, NEW d, Around(k, steps)
    PROVE  Careful(steps, d, FALSE)
<1> SUFFICES ASSUME NEW i \in 1..Len(steps), NEW j \in 1..Len(steps), i < j,
                    refusing(steps[j].refusals) \/ refusing(steps[j].gone)
             PROVE  steps[i] \in Quiet
  BY DEF Careful
<1>1. ~(j > k)
  BY DEF Firm, Around
<1>2. QED
  BY <1>1 DEF Around

\* A handler of such steps is sound, wherever it is and whatever row it names.
Normal == {0, 200, 201, 202, 204}
Safe(steps) == \A ok \in Normal : \A h, d : RouteSound(route(ok, steps), h, d)

\* So the handler that takes them is sound.
LEMMA SafeSteps ==
    ASSUME NEW steps \in Seq(StepShapes), NEW k \in Int, Around(k, steps)
    PROVE  Safe(steps)
<1> SUFFICES ASSUME NEW ok \in Normal, NEW h, NEW d
             PROVE  RouteSound(route(ok, steps), h, d)
  BY DEF Safe
<1>1. Careful(steps, d, FALSE)
  BY QuietThenFirm
<1>2. ok \notin 400..499 /\ ok \in StatusCodes
  BY DEF Normal, StatusCodes, NoAnswer
<1>3. QED
  BY <1>1, <1>2 DEF RouteSound, route

\* So is a route with such a handler, whatever it answers in the end.
SafeEnd(r) == \A h, d : RouteSound(r, h, d)
TableSafe(table) == \A h \in DOMAIN table : SafeEnd(table[h])

\* The success a handler ends in is no refusal.
LEMMA SafeRoute ==
    ASSUME NEW steps, Safe(steps)
    PROVE  /\ SafeEnd(route(0, steps)) /\ SafeEnd(route(200, steps))
           /\ SafeEnd(route(201, steps)) /\ SafeEnd(route(202, steps))
           /\ SafeEnd(route(204, steps))
BY DEF Safe, SafeEnd, Normal

\* Such handlers of one step up to six.
LEMMA SafeS ==
    ASSUME NEW a \in StepShapes
    PROVE  Safe(<<a>>)
<1> DEFINE steps == <<a>>
<1>1. steps \in Seq(StepShapes) /\ Len(steps) = 1
  BY Kinds
<1>2. steps[1] = a
  OBVIOUS
<1> HIDE DEF steps
<1>3. Around(1, steps)
  <2> SUFFICES ASSUME NEW i \in 1..1
               PROVE  (i < 1 => steps[i] \in Quiet) /\ (i > 1 => steps[i] \in Firm)
    BY <1>1 DEF Around
  <2>1. i = 1
    OBVIOUS
  <2>2. QED
    BY <1>2, <2>1
<1>4. Safe(steps)
  BY <1>1, <1>3, SafeSteps
<1>5. QED
  BY <1>4 DEF steps

\* A quiet step before any.
LEMMA SafeQS ==
    ASSUME NEW a \in Quiet, NEW b \in StepShapes
    PROVE  Safe(<<a, b>>)
<1> DEFINE steps == <<a, b>>
<1>1. steps \in Seq(StepShapes) /\ Len(steps) = 2
  BY Kinds
<1>2. steps[1] = a /\ steps[2] = b
  OBVIOUS
<1> HIDE DEF steps
<1>3. Around(2, steps)
  <2> SUFFICES ASSUME NEW i \in 1..2
               PROVE  (i < 2 => steps[i] \in Quiet) /\ (i > 2 => steps[i] \in Firm)
    BY <1>1 DEF Around
  <2>1. i = 1 \/ i = 2
    OBVIOUS
  <2>2. QED
    BY <1>2, <2>1
<1>4. Safe(steps)
  BY <1>1, <1>3, SafeSteps
<1>5. QED
  BY <1>4 DEF steps

\* Any step before a firm one.
LEMMA SafeSF ==
    ASSUME NEW a \in StepShapes, NEW b \in Firm
    PROVE  Safe(<<a, b>>)
<1> DEFINE steps == <<a, b>>
<1>1. steps \in Seq(StepShapes) /\ Len(steps) = 2
  BY Kinds
<1>2. steps[1] = a /\ steps[2] = b
  OBVIOUS
<1> HIDE DEF steps
<1>3. Around(1, steps)
  <2> SUFFICES ASSUME NEW i \in 1..2
               PROVE  (i < 1 => steps[i] \in Quiet) /\ (i > 1 => steps[i] \in Firm)
    BY <1>1 DEF Around
  <2>1. i = 1 \/ i = 2
    OBVIOUS
  <2>2. QED
    BY <1>2, <2>1
<1>4. Safe(steps)
  BY <1>1, <1>3, SafeSteps
<1>5. QED
  BY <1>4 DEF steps

\* Two quiet ones before any.
LEMMA SafeQQS ==
    ASSUME NEW a \in Quiet, NEW b \in Quiet, NEW c \in StepShapes
    PROVE  Safe(<<a, b, c>>)
<1> DEFINE steps == <<a, b, c>>
<1>1. steps \in Seq(StepShapes) /\ Len(steps) = 3
  BY Kinds
<1>2. steps[1] = a /\ steps[2] = b /\ steps[3] = c
  OBVIOUS
<1> HIDE DEF steps
<1>3. Around(3, steps)
  <2> SUFFICES ASSUME NEW i \in 1..3
               PROVE  (i < 3 => steps[i] \in Quiet) /\ (i > 3 => steps[i] \in Firm)
    BY <1>1 DEF Around
  <2>1. i = 1 \/ i = 2 \/ i = 3
    OBVIOUS
  <2>2. QED
    BY <1>2, <2>1
<1>4. Safe(steps)
  BY <1>1, <1>3, SafeSteps
<1>5. QED
  BY <1>4 DEF steps

\* A quiet one, any, a firm one.
LEMMA SafeQSF ==
    ASSUME NEW a \in Quiet, NEW b \in StepShapes, NEW c \in Firm
    PROVE  Safe(<<a, b, c>>)
<1> DEFINE steps == <<a, b, c>>
<1>1. steps \in Seq(StepShapes) /\ Len(steps) = 3
  BY Kinds
<1>2. steps[1] = a /\ steps[2] = b /\ steps[3] = c
  OBVIOUS
<1> HIDE DEF steps
<1>3. Around(2, steps)
  <2> SUFFICES ASSUME NEW i \in 1..3
               PROVE  (i < 2 => steps[i] \in Quiet) /\ (i > 2 => steps[i] \in Firm)
    BY <1>1 DEF Around
  <2>1. i = 1 \/ i = 2 \/ i = 3
    OBVIOUS
  <2>2. QED
    BY <1>2, <2>1
<1>4. Safe(steps)
  BY <1>1, <1>3, SafeSteps
<1>5. QED
  BY <1>4 DEF steps

\* Three quiet ones before any.
LEMMA SafeQQQS ==
    ASSUME NEW a \in Quiet, NEW b \in Quiet, NEW c \in Quiet, NEW d \in StepShapes
    PROVE  Safe(<<a, b, c, d>>)
<1> DEFINE steps == <<a, b, c, d>>
<1>1. steps \in Seq(StepShapes) /\ Len(steps) = 4
  BY Kinds
<1>2. steps[1] = a /\ steps[2] = b /\ steps[3] = c /\ steps[4] = d
  OBVIOUS
<1> HIDE DEF steps
<1>3. Around(4, steps)
  <2> SUFFICES ASSUME NEW i \in 1..4
               PROVE  (i < 4 => steps[i] \in Quiet) /\ (i > 4 => steps[i] \in Firm)
    BY <1>1 DEF Around
  <2>1. i = 1 \/ i = 2 \/ i = 3 \/ i = 4
    OBVIOUS
  <2>2. QED
    BY <1>2, <2>1
<1>4. Safe(steps)
  BY <1>1, <1>3, SafeSteps
<1>5. QED
  BY <1>4 DEF steps

\* Two quiet ones, any, a firm one.
LEMMA SafeQQSF ==
    ASSUME NEW a \in Quiet, NEW b \in Quiet, NEW c \in StepShapes, NEW d \in Firm
    PROVE  Safe(<<a, b, c, d>>)
<1> DEFINE steps == <<a, b, c, d>>
<1>1. steps \in Seq(StepShapes) /\ Len(steps) = 4
  BY Kinds
<1>2. steps[1] = a /\ steps[2] = b /\ steps[3] = c /\ steps[4] = d
  OBVIOUS
<1> HIDE DEF steps
<1>3. Around(3, steps)
  <2> SUFFICES ASSUME NEW i \in 1..4
               PROVE  (i < 3 => steps[i] \in Quiet) /\ (i > 3 => steps[i] \in Firm)
    BY <1>1 DEF Around
  <2>1. i = 1 \/ i = 2 \/ i = 3 \/ i = 4
    OBVIOUS
  <2>2. QED
    BY <1>2, <2>1
<1>4. Safe(steps)
  BY <1>1, <1>3, SafeSteps
<1>5. QED
  BY <1>4 DEF steps

\* Four quiet ones before any.
LEMMA SafeQQQQS ==
    ASSUME NEW a \in Quiet, NEW b \in Quiet, NEW c \in Quiet,
           NEW d \in Quiet, NEW e \in StepShapes
    PROVE  Safe(<<a, b, c, d, e>>)
<1> DEFINE steps == <<a, b, c, d, e>>
<1>1. steps \in Seq(StepShapes) /\ Len(steps) = 5
  BY Kinds
<1>2. steps[1] = a /\ steps[2] = b /\ steps[3] = c /\ steps[4] = d /\ steps[5] = e
  OBVIOUS
<1> HIDE DEF steps
<1>3. Around(5, steps)
  <2> SUFFICES ASSUME NEW i \in 1..5
               PROVE  (i < 5 => steps[i] \in Quiet) /\ (i > 5 => steps[i] \in Firm)
    BY <1>1 DEF Around
  <2>1. i = 1 \/ i = 2 \/ i = 3 \/ i = 4 \/ i = 5
    OBVIOUS
  <2>2. QED
    BY <1>2, <2>1
<1>4. Safe(steps)
  BY <1>1, <1>3, SafeSteps
<1>5. QED
  BY <1>4 DEF steps

\* Two quiet ones, any, two firm ones.
LEMMA SafeQQSFF ==
    ASSUME NEW a \in Quiet, NEW b \in Quiet, NEW c \in StepShapes,
           NEW d \in Firm, NEW e \in Firm
    PROVE  Safe(<<a, b, c, d, e>>)
<1> DEFINE steps == <<a, b, c, d, e>>
<1>1. steps \in Seq(StepShapes) /\ Len(steps) = 5
  BY Kinds
<1>2. steps[1] = a /\ steps[2] = b /\ steps[3] = c /\ steps[4] = d /\ steps[5] = e
  OBVIOUS
<1> HIDE DEF steps
<1>3. Around(3, steps)
  <2> SUFFICES ASSUME NEW i \in 1..5
               PROVE  (i < 3 => steps[i] \in Quiet) /\ (i > 3 => steps[i] \in Firm)
    BY <1>1 DEF Around
  <2>1. i = 1 \/ i = 2 \/ i = 3 \/ i = 4 \/ i = 5
    OBVIOUS
  <2>2. QED
    BY <1>2, <2>1
<1>4. Safe(steps)
  BY <1>1, <1>3, SafeSteps
<1>5. QED
  BY <1>4 DEF steps

\* Four quiet ones, any, a firm one.
LEMMA SafeQQQQSF ==
    ASSUME NEW a \in Quiet, NEW b \in Quiet, NEW c \in Quiet,
           NEW d \in Quiet, NEW e \in StepShapes, NEW f \in Firm
    PROVE  Safe(<<a, b, c, d, e, f>>)
<1> DEFINE steps == <<a, b, c, d, e, f>>
<1>1. steps \in Seq(StepShapes) /\ Len(steps) = 6
  BY Kinds
<1>2. steps[1] = a /\ steps[2] = b /\ steps[3] = c /\ steps[4] = d /\ steps[5] = e /\ steps[6] = f
  OBVIOUS
<1> HIDE DEF steps
<1>3. Around(5, steps)
  <2> SUFFICES ASSUME NEW i \in 1..6
               PROVE  (i < 5 => steps[i] \in Quiet) /\ (i > 5 => steps[i] \in Firm)
    BY <1>1 DEF Around
  <2>1. i = 1 \/ i = 2 \/ i = 3 \/ i = 4 \/ i = 5 \/ i = 6
    OBVIOUS
  <2>2. QED
    BY <1>2, <2>1
<1>4. Safe(steps)
  BY <1>1, <1>3, SafeSteps
<1>5. QED
  BY <1>4 DEF steps

\* Five quiet ones before any.
LEMMA SafeQQQQQS ==
    ASSUME NEW a \in Quiet, NEW b \in Quiet, NEW c \in Quiet,
           NEW d \in Quiet, NEW e \in Quiet, NEW f \in StepShapes
    PROVE  Safe(<<a, b, c, d, e, f>>)
<1> DEFINE steps == <<a, b, c, d, e, f>>
<1>1. steps \in Seq(StepShapes) /\ Len(steps) = 6
  BY Kinds
<1>2. steps[1] = a /\ steps[2] = b /\ steps[3] = c /\ steps[4] = d /\ steps[5] = e /\ steps[6] = f
  OBVIOUS
<1> HIDE DEF steps
<1>3. Around(6, steps)
  <2> SUFFICES ASSUME NEW i \in 1..6
               PROVE  (i < 6 => steps[i] \in Quiet) /\ (i > 6 => steps[i] \in Firm)
    BY <1>1 DEF Around
  <2>1. i = 1 \/ i = 2 \/ i = 3 \/ i = 4 \/ i = 5 \/ i = 6
    OBVIOUS
  <2>2. QED
    BY <1>2, <2>1
<1>4. Safe(steps)
  BY <1>1, <1>3, SafeSteps
<1>5. QED
  BY <1>4 DEF steps

\* The routes that only read, and those that write once.
LEMMA CommonRoutes ==
    /\ SafeEnd(route(200, <<reads>>)) /\ SafeEnd(route(200, <<valid, reads>>))
    /\ SafeEnd(route(200, <<valid, finds>>)) /\ SafeEnd(route(0, <<valid, finds>>))
    /\ SafeEnd(route(200, <<valid, finds, reads>>))
<1>1. SafeEnd(route(200, <<reads>>))
  BY SafeS, QuietCommon, Kinds, SafeRoute
<1>2. SafeEnd(route(200, <<valid, reads>>))
  BY SafeQS, QuietCommon, Kinds, SafeRoute
<1>3. SafeEnd(route(200, <<valid, finds>>)) /\ SafeEnd(route(0, <<valid, finds>>))
  BY SafeQS, QuietCommon, Kinds, SafeRoute
<1>4. SafeEnd(route(200, <<valid, finds, reads>>))
  BY SafeQQS, QuietCommon, Kinds, SafeRoute
<1>5. QED
  BY <1>1, <1>2, <1>3, <1>4

\* A handler that validates and writes.
LEMMA WriteRoutes ==
    ASSUME NEW x \in Changes
    PROVE  /\ SafeEnd(route(200, <<valid, updates(x)>>))
           /\ SafeEnd(route(200, <<valid, inserts(x)>>))
           /\ SafeEnd(route(201, <<valid, inserts(x)>>))
           /\ SafeEnd(route(202, <<valid, inserts(x)>>))
           /\ SafeEnd(route(204, <<valid, inserts(x)>>))
<1>1. updates(x) \in StepShapes /\ inserts(x) \in Firm
  BY UpdatesShape, InsertsFirm
<1>2. inserts(x) \in StepShapes
  BY <1>1, Kinds
<1>3. Safe(<<valid, updates(x)>>)
  BY <1>1, QuietCommon, SafeQS
<1>4. Safe(<<valid, inserts(x)>>)
  BY <1>2, QuietCommon, SafeQS
<1>5. QED
  BY <1>3, <1>4, SafeRoute

\* The routes about jobs.
LEMMA JobTables ==
    /\ TableSafe(JobQueries)
    /\ TableSafe(JobEdits)
    /\ TableSafe(JobActions)
    /\ TableSafe(JobRelations)
    /\ TableSafe(ScoreRoutes)
    /\ TableSafe(BatchScoreRoutes)
<1>job. "job" \in Changes
  BY JobChanges, Zenon
<1>task. "task" \in Changes
  BY JobChanges, Zenon
<1>e202. 202 \in Errors
  BY ErrorSets, Zenon
<1>application. "application" \in Changes
  BY JobChanges, Zenon
<1>1. TableSafe(JobQueries)
  BY CommonRoutes DEF TableSafe, JobQueries
<1>2. TableSafe(JobEdits)
  <2>1. SafeEnd(route(200, <<valid, updates("job")>>))
    BY <1>job, WriteRoutes, ZenonT(40)
  <2>2. SafeEnd(route(201, <<valid, inserts("task"), perhaps(insertsElse("task", 202))>>))
    <3> DEFINE a == inserts("task")
              b == perhaps(insertsElse("task", 202))
    <3>1. a \in StepShapes
      BY InsertsFirm, <1>task, Kinds, Zenon
    <3>2. b \in Firm
      BY PerhapsFirm, WritesFirm, <1>e202, <1>task, ZenonT(40)
    <3> HIDE DEF a, b
    <3>3. Safe(<<valid, a, b>>)
      BY <3>1, <3>2, QuietCommon, SafeQSF
    <3>4. SafeEnd(route(201, <<valid, a, b>>))
      BY <3>3, SafeRoute
    <3>5. QED
      BY <3>4, Zenon DEF a, b
  <2>3. QED
    BY <2>1, <2>2 DEF TableSafe, JobEdits
<1>3. TableSafe(JobActions)
  <2>1. SafeEnd(route(204, <<valid, inserts("job")>>))
    BY <1>job, WriteRoutes, ZenonT(40)
  <2>2. SafeEnd(route(202, <<valid, finds, inserts("application"), tries("task")>>))
    <3> DEFINE a == inserts("application")
              b == tries("task")
    <3>1. a \in StepShapes
      BY InsertsFirm, <1>application, Kinds, Zenon
    <3>2. b \in Firm
      BY TriesFirm, <1>task, Zenon
    <3> HIDE DEF a, b
    <3>3. Safe(<<valid, finds, a, b>>)
      BY <3>1, <3>2, QuietCommon, SafeQQSF
    <3>4. SafeEnd(route(202, <<valid, finds, a, b>>))
      BY <3>3, SafeRoute
    <3>5. QED
      BY <3>4, Zenon DEF a, b
  <2>3. SafeEnd(route(200, <<valid, finds, findsElse(500), reads, inserts("job")>>))
    <3> DEFINE a == inserts("job")
    <3>1. a \in StepShapes
      BY InsertsFirm, <1>job, Kinds, Zenon
    <3> HIDE DEF a
    <3>2. Safe(<<valid, finds, findsElse(500), reads, a>>)
      BY <3>1, QuietCommon, SafeQQQQS
    <3>3. SafeEnd(route(200, <<valid, finds, findsElse(500), reads, a>>))
      BY <3>2, SafeRoute
    <3>4. QED
      BY <3>3, Zenon DEF a
  <2>4. QED
    BY <2>1, <2>2, <2>3 DEF TableSafe, JobActions
<1>4. TableSafe(JobRelations)
  <2>1. SafeEnd(route(200, <<valid, findsElse(500), reads>>))
    <3>1. Safe(<<valid, findsElse(500), reads>>)
      BY QuietCommon, Kinds, SafeQQS
    <3>2. QED
      BY <3>1, SafeRoute
  <2>2. QED
    BY <2>1, CommonRoutes DEF TableSafe, JobRelations
<1>5. TableSafe(ScoreRoutes)
  <2>1. SafeEnd(route(202, <<valid, inserts("task")>>))
    BY <1>task, WriteRoutes, ZenonT(40)
  <2>2. QED
    BY <2>1, CommonRoutes DEF TableSafe, ScoreRoutes
<1>6. TableSafe(BatchScoreRoutes)
  <2>1. SafeEnd(route(202, <<valid, tries("task"), perhaps(tries("task"))>>))
    <3> DEFINE a == tries("task")
              b == perhaps(tries("task"))
    <3>1. a \in StepShapes
      BY TriesFirm, <1>task, Kinds, Zenon
    <3>2. b \in Firm
      BY PerhapsFirm, TriesFirm, <1>task, Zenon
    <3> HIDE DEF a, b
    <3>3. Safe(<<valid, a, b>>)
      BY <3>1, <3>2, QuietCommon, SafeQSF
    <3>4. SafeEnd(route(202, <<valid, a, b>>))
      BY <3>3, SafeRoute
    <3>5. QED
      BY <3>4, Zenon DEF a, b
  <2>2. QED
    BY <2>1 DEF TableSafe, BatchScoreRoutes
<1>7. QED
  BY <1>1, <1>2, <1>3, <1>4, <1>5, <1>6

\* The routes about applications, interviews and approvals but for those that look for
\* their row again.
LEMMA ApplicationTables ==
    /\ TableSafe(ApplicationQueries)
    /\ TableSafe(ApplicationEdits)
    /\ TableSafe(ApplicationReads)
    /\ TableSafe(VoiceContext)
    /\ TableSafe(InterviewEvents)
    /\ TableSafe(InterviewQueries)
    /\ TableSafe(ApprovalQueries)
<1>application. "application" \in Changes
  BY JobChanges, Zenon
<1>c400. {400} \in Codes
  BY CodeSets, Zenon
<1>c409. {409} \in Codes
  BY CodeSets, Zenon
<1>c404. {404} \in Codes
  BY CodeSets, Zenon
<1>e500. 500 \in Errors
  BY ErrorSets, Zenon
<1>c400_409. {400, 409} \in Codes
  BY CodeSets, Zenon
<1>interview. "interview" \in Changes
  BY JobChanges, Zenon
<1>1. TableSafe(ApplicationQueries)
  BY CommonRoutes DEF TableSafe, ApplicationQueries
<1>2. TableSafe(ApplicationEdits)
  <2>1. SafeEnd(route(201, <<valid, inserts("application")>>))
    BY <1>application, WriteRoutes, ZenonT(40)
  <2>2. SafeEnd(route(200, <<valid, finds, checks({400}), updatesUnless("application",
              {409})>>))
    <3> DEFINE a == checks({400})
              b == updatesUnless("application", {409})
    <3>1. a \in Quiet
      BY ChecksQuiet, <1>c400, ZenonT(40)
    <3>2. b \in StepShapes
      BY updatesUnlessShape, <1>c409, <1>application, ZenonT(40)
    <3> HIDE DEF a, b
    <3>3. Safe(<<valid, finds, a, b>>)
      BY <3>1, <3>2, QuietCommon, SafeQQQS
    <3>4. SafeEnd(route(200, <<valid, finds, a, b>>))
      BY <3>3, SafeRoute
    <3>5. QED
      BY <3>4, Zenon DEF a, b
  <2>3. SafeEnd(route(200, <<valid, updates("application")>>))
    BY <1>application, WriteRoutes, ZenonT(40)
  <2>4. QED
    BY <2>1, <2>2, <2>3 DEF TableSafe, ApplicationEdits
<1>3. TableSafe(ApplicationReads)
  BY CommonRoutes DEF TableSafe, ApplicationReads
<1>4. TableSafe(VoiceContext)
  <2>1. SafeEnd(route(0, <<valid, finds, checks({404})>>))
    <3> DEFINE a == checks({404})
    <3>1. a \in StepShapes
      BY ChecksQuiet, <1>c404, Kinds, ZenonT(40)
    <3> HIDE DEF a
    <3>2. Safe(<<valid, finds, a>>)
      BY <3>1, QuietCommon, SafeQQS
    <3>3. SafeEnd(route(0, <<valid, finds, a>>))
      BY <3>2, SafeRoute
    <3>4. QED
      BY <3>3, Zenon DEF a
  <2>2. QED
    BY <2>1, CommonRoutes DEF TableSafe, NoAnswer, VoiceContext
<1>5. TableSafe(InterviewEvents)
  <2>1. SafeEnd(route(200, <<valid, finds, readsElse(500), updatesUnless("interview",
              {400, 409})>>))
    <3> DEFINE a == readsElse(500)
              b == updatesUnless("interview", {400, 409})
    <3>1. a \in Quiet
      BY ReadsQuiet, <1>e500, ZenonT(40)
    <3>2. b \in StepShapes
      BY updatesUnlessShape, <1>c400_409, <1>interview, ZenonT(40)
    <3> HIDE DEF a, b
    <3>3. Safe(<<valid, finds, a, b>>)
      BY <3>1, <3>2, QuietCommon, SafeQQQS
    <3>4. SafeEnd(route(200, <<valid, finds, a, b>>))
      BY <3>3, SafeRoute
    <3>5. QED
      BY <3>4, Zenon DEF a, b
  <2>2. QED
    BY <2>1 DEF TableSafe, InterviewEvents
<1>6. TableSafe(InterviewQueries)
  BY CommonRoutes DEF TableSafe, InterviewQueries
<1>7. TableSafe(ApprovalQueries)
  BY CommonRoutes DEF TableSafe, ApprovalQueries
<1>8. QED
  BY <1>1, <1>2, <1>3, <1>4, <1>5, <1>6, <1>7

\* The routes about documents.
LEMMA DocumentTables ==
    /\ TableSafe(ResumeQueries)
    /\ TableSafe(ResumeEdits)
    /\ TableSafe(ContentRoutes)
    /\ TableSafe(VersionRoutes)
    /\ TableSafe(LetterQueries)
    /\ TableSafe(LetterEdits)
    /\ TableSafe(LetterVersions)
<1>resume. "resume" \in Changes
  BY DocumentChanges, Zenon
<1>c409. {409} \in Codes
  BY CodeSets, Zenon
<1>c404. {404} \in Codes
  BY CodeSets, Zenon
<1>letter. "letter" \in Changes
  BY DocumentChanges, Zenon
<1>snapshot. "snapshot" \in Changes
  BY DocumentChanges, Zenon
<1>1. TableSafe(ResumeQueries)
  <2>1. SafeEnd(route(201, <<valid, inserts("resume")>>))
    BY <1>resume, WriteRoutes, ZenonT(40)
  <2>2. QED
    BY <2>1, CommonRoutes DEF TableSafe, ResumeQueries
<1>2. TableSafe(ResumeEdits)
  <2>1. SafeEnd(route(200, <<valid, finds, valid, updatesUnless("resume", {409})>>))
    <3> DEFINE a == updatesUnless("resume", {409})
    <3>1. a \in StepShapes
      BY updatesUnlessShape, <1>c409, <1>resume, ZenonT(40)
    <3> HIDE DEF a
    <3>2. Safe(<<valid, finds, valid, a>>)
      BY <3>1, QuietCommon, SafeQQQS
    <3>3. SafeEnd(route(200, <<valid, finds, valid, a>>))
      BY <3>2, SafeRoute
    <3>4. QED
      BY <3>3, Zenon DEF a
  <2>2. SafeEnd(route(200, <<valid, updates("resume")>>))
    BY <1>resume, WriteRoutes, ZenonT(40)
  <2>3. QED
    BY <2>1, <2>2 DEF TableSafe, ResumeEdits
<1>3. TableSafe(ContentRoutes)
  <2>1. SafeEnd(route(200, <<valid, finds, checks({404})>>))
    <3> DEFINE a == checks({404})
    <3>1. a \in StepShapes
      BY ChecksQuiet, <1>c404, Kinds, ZenonT(40)
    <3> HIDE DEF a
    <3>2. Safe(<<valid, finds, a>>)
      BY <3>1, QuietCommon, SafeQQS
    <3>3. SafeEnd(route(200, <<valid, finds, a>>))
      BY <3>2, SafeRoute
    <3>4. QED
      BY <3>3, Zenon DEF a
  <2>2. SafeEnd(route(200, <<valid, finds, tries("snapshot"), updatesUnless("resume",
              {409})>>))
    <3> DEFINE a == tries("snapshot")
              b == updatesUnless("resume", {409})
    <3>1. a \in Quiet
      BY QuietWrites, Zenon
    <3>2. b \in StepShapes
      BY updatesUnlessShape, <1>c409, <1>resume, ZenonT(40)
    <3> HIDE DEF a, b
    <3>3. Safe(<<valid, finds, a, b>>)
      BY <3>1, <3>2, QuietCommon, SafeQQQS
    <3>4. SafeEnd(route(200, <<valid, finds, a, b>>))
      BY <3>3, SafeRoute
    <3>5. QED
      BY <3>4, Zenon DEF a, b
  <2>3. SafeEnd(route(200, <<valid, finds, reads, tries("snapshot"),
              updatesUnless("resume", {409})>>))
    <3> DEFINE a == tries("snapshot")
              b == updatesUnless("resume", {409})
    <3>1. a \in Quiet
      BY QuietWrites, Zenon
    <3>2. b \in StepShapes
      BY updatesUnlessShape, <1>c409, <1>resume, ZenonT(40)
    <3> HIDE DEF a, b
    <3>3. Safe(<<valid, finds, reads, a, b>>)
      BY <3>1, <3>2, QuietCommon, SafeQQQQS
    <3>4. SafeEnd(route(200, <<valid, finds, reads, a, b>>))
      BY <3>3, SafeRoute
    <3>5. QED
      BY <3>4, Zenon DEF a, b
  <2>4. QED
    BY <2>1, <2>2, <2>3 DEF TableSafe, ContentRoutes
<1>4. TableSafe(VersionRoutes)
  BY CommonRoutes DEF TableSafe, VersionRoutes
<1>5. TableSafe(LetterQueries)
  <2>1. SafeEnd(route(201, <<valid, inserts("letter"), tries("snapshot")>>))
    <3> DEFINE a == inserts("letter")
              b == tries("snapshot")
    <3>1. a \in StepShapes
      BY InsertsFirm, <1>letter, Kinds, Zenon
    <3>2. b \in Firm
      BY TriesFirm, <1>snapshot, Zenon
    <3> HIDE DEF a, b
    <3>3. Safe(<<valid, a, b>>)
      BY <3>1, <3>2, QuietCommon, SafeQSF
    <3>4. SafeEnd(route(201, <<valid, a, b>>))
      BY <3>3, SafeRoute
    <3>5. QED
      BY <3>4, Zenon DEF a, b
  <2>2. QED
    BY <2>1, CommonRoutes DEF TableSafe, LetterQueries
<1>6. TableSafe(LetterEdits)
  <2>1. SafeEnd(route(200, <<valid, finds, tries("snapshot"), updatesUnless("letter",
              {409})>>))
    <3> DEFINE a == tries("snapshot")
              b == updatesUnless("letter", {409})
    <3>1. a \in Quiet
      BY QuietWrites, Zenon
    <3>2. b \in StepShapes
      BY updatesUnlessShape, <1>c409, <1>letter, ZenonT(40)
    <3> HIDE DEF a, b
    <3>3. Safe(<<valid, finds, a, b>>)
      BY <3>1, <3>2, QuietCommon, SafeQQQS
    <3>4. SafeEnd(route(200, <<valid, finds, a, b>>))
      BY <3>3, SafeRoute
    <3>5. QED
      BY <3>4, Zenon DEF a, b
  <2>2. SafeEnd(route(200, <<valid, updates("letter")>>))
    BY <1>letter, WriteRoutes, ZenonT(40)
  <2>3. SafeEnd(route(200, <<valid, finds, tries("snapshot"),
              perhaps(insertsUnless("nothing", {404})), reads, updatesUnless("letter",
              {409})>>))
    <3> DEFINE a == tries("snapshot")
              b == perhaps(insertsUnless("nothing", {404}))
              c == updatesUnless("letter", {409})
    <3>1. a \in Quiet
      BY QuietWrites, Zenon
    <3>2. b \in Quiet
      BY QuietWrites, Zenon
    <3>3. c \in StepShapes
      BY updatesUnlessShape, <1>c409, <1>letter, ZenonT(40)
    <3> HIDE DEF a, b, c
    <3>4. Safe(<<valid, finds, a, b, reads, c>>)
      BY <3>1, <3>2, <3>3, QuietCommon, SafeQQQQQS
    <3>5. SafeEnd(route(200, <<valid, finds, a, b, reads, c>>))
      BY <3>4, SafeRoute
    <3>6. QED
      BY <3>5, Zenon DEF a, b, c
  <2>4. QED
    BY <2>1, <2>2, <2>3 DEF TableSafe, LetterEdits, GenerateLetter
<1>7. TableSafe(LetterVersions)
  BY CommonRoutes DEF TableSafe, LetterVersions
<1>8. QED
  BY <1>1, <1>2, <1>3, <1>4, <1>5, <1>6, <1>7

\* The routes about emails, activities, tasks, embeddings, the profile and the
\* settings.
LEMMA RecordTables ==
    /\ TableSafe(SearchRoutes)
    /\ TableSafe(EmbeddingRoutes)
    /\ TableSafe(ProfileRoutes)
    /\ TableSafe(EmailQueries)
    /\ TableSafe(ActivityRoutes)
    /\ TableSafe(TaskRoutes)
    /\ TableSafe(ConfigRoutes)
<1>embedding. "embedding" \in Changes
  BY RecordChanges, Zenon
<1>default_profile. "default profile" \in Changes
  BY DocumentChanges, Zenon
<1>c500. {500} \in Codes
  BY CodeSets, Zenon
<1>c409. {409} \in Codes
  BY CodeSets, Zenon
<1>profile. "profile" \in Changes
  BY RecordChanges, Zenon
<1>email. "email" \in Changes
  BY RecordChanges, Zenon
<1>task. "task" \in Changes
  BY RecordChanges, Zenon
<1>override. "override" \in Changes
  BY RecordChanges, Zenon
<1>1. TableSafe(SearchRoutes)
  BY CommonRoutes DEF TableSafe, SearchRoutes
<1>2. TableSafe(EmbeddingRoutes)
  <2>1. SafeEnd(route(200, <<valid, updates("embedding")>>))
    BY <1>embedding, WriteRoutes, ZenonT(40)
  <2>2. QED
    BY <2>1, CommonRoutes DEF TableSafe, EmbeddingRoutes
<1>3. TableSafe(ProfileRoutes)
  <2>1. SafeEnd(route(200, <<reads, perhaps(inserts("default profile"))>>))
    <3> DEFINE a == perhaps(inserts("default profile"))
    <3>1. a \in StepShapes
      BY PerhapsFirm, InsertsFirm, <1>default_profile, Kinds, Zenon
    <3> HIDE DEF a
    <3>2. Safe(<<reads, a>>)
      BY <3>1, QuietCommon, SafeQS
    <3>3. SafeEnd(route(200, <<reads, a>>))
      BY <3>2, SafeRoute
    <3>4. QED
      BY <3>3, Zenon DEF a
  <2>2. SafeEnd(route(200, <<valid, reads, perhaps(inserts("default profile")), reads,
              insertsUnless("profile", {409}), reads>>))
    <3> DEFINE a == perhaps(inserts("default profile"))
              b == insertsUnless("profile", {409})
    <3>1. a \in Quiet
      BY QuietWrites, Zenon
    <3>2. b \in StepShapes
      BY insertsUnlessShape, <1>c409, <1>profile, ZenonT(40)
    <3>3. reads \in Firm
      BY ReadsFirm, Zenon
    <3> HIDE DEF a, b
    <3>4. Safe(<<valid, reads, a, reads, b, reads>>)
      BY <3>1, <3>2, <3>3, QuietCommon, SafeQQQQSF
    <3>5. SafeEnd(route(200, <<valid, reads, a, reads, b, reads>>))
      BY <3>4, SafeRoute
    <3>6. QED
      BY <3>5, Zenon DEF a, b
  <2>3. SafeEnd(ProfileRoutes.GetProfile) /\ SafeEnd(ProfileRoutes.UpdateProfile)
       /\ SafeEnd(ProfileRoutes.PatchProfile)
    BY <2>1, <2>2 DEF ProfileRoutes, ProfileEdits
  <2>4. DOMAIN ProfileRoutes = {"GetProfile", "UpdateProfile", "PatchProfile"}
    BY DEF ProfileRoutes
  <2>5. QED
    BY <2>3, <2>4 DEF TableSafe
<1>4. TableSafe(EmailQueries)
  <2>1. SafeEnd(route(201, <<valid, reads, inserts("email"), reads>>))
    <3> DEFINE a == inserts("email")
    <3>1. a \in StepShapes
      BY InsertsFirm, <1>email, Kinds, Zenon
    <3>2. reads \in Firm
      BY ReadsFirm, Zenon
    <3> HIDE DEF a
    <3>3. Safe(<<valid, reads, a, reads>>)
      BY <3>1, <3>2, QuietCommon, SafeQQSF
    <3>4. SafeEnd(route(201, <<valid, reads, a, reads>>))
      BY <3>3, SafeRoute
    <3>5. QED
      BY <3>4, Zenon DEF a
  <2>2. QED
    BY <2>1, CommonRoutes DEF TableSafe, EmailQueries
<1>5. TableSafe(ActivityRoutes)
  BY CommonRoutes DEF TableSafe, ActivityRoutes
<1>6. TableSafe(TaskRoutes)
  <2>1. SafeEnd(route(201, <<valid, inserts("task")>>))
    BY <1>task, WriteRoutes, ZenonT(40)
  <2>2. QED
    BY <2>1, CommonRoutes DEF TableSafe, TaskRoutes
<1>7. TableSafe(ConfigRoutes)
  <2>1. SafeEnd(route(200, <<valid, inserts("override")>>))
    BY <1>override, WriteRoutes, ZenonT(40)
  <2>2. SafeEnd(route(200, <<checks({500}), inserts("override")>>))
    <3> DEFINE a == checks({500})
              b == inserts("override")
    <3>1. a \in Quiet
      BY ChecksQuiet, <1>c500, ZenonT(40)
    <3>2. b \in StepShapes
      BY InsertsFirm, <1>override, Kinds, Zenon
    <3> HIDE DEF a, b
    <3>3. Safe(<<a, b>>)
      BY <3>1, <3>2, SafeQS
    <3>4. SafeEnd(route(200, <<a, b>>))
      BY <3>3, SafeRoute
    <3>5. QED
      BY <3>4, Zenon DEF a, b
  <2>3. QED
    BY <2>1, <2>2, CommonRoutes DEF TableSafe, ConfigRoutes
<1>8. QED
  BY <1>1, <1>2, <1>3, <1>4, <1>5, <1>6, <1>7

\* The routes of the account but for the refresh.
LEMMA AccountTables ==
    /\ TableSafe([LoginRoute |-> LoginRoute])
    /\ TableSafe(PasswordRoutes)
    /\ TableSafe(SessionRoutes)
    /\ TableSafe(SetupRoutes)
    /\ TableSafe(CredentialTests)
    /\ TableSafe(OnboardingRoutes)
<1>c401. {401} \in Codes
  BY CodeSets, Zenon
<1>refresh_token. "refresh token" \in Changes
  BY AccountChanges, Zenon
<1>last_login. "last login" \in Changes
  BY AccountChanges, Zenon
<1>e200. 200 \in Errors
  BY ErrorSets, Zenon
<1>c200. {200} \in Codes
  BY CodeSets, Zenon
<1>reset_tokens. "reset tokens" \in Changes
  BY AccountChanges, Zenon
<1>reset_token. "reset token" \in Changes
  BY AccountChanges, Zenon
<1>password. "password" \in Changes
  BY AccountChanges, Zenon
<1>refresh_tokens. "refresh tokens" \in Changes
  BY AccountChanges, Zenon
<1>session_version. "session version" \in Changes
  BY AccountChanges, Zenon
<1>c400_409. {400, 409} \in Codes
  BY CodeSets, Zenon
<1>user. "user" \in Changes
  BY AccountChanges, Zenon
<1>override. "override" \in Changes
  BY AccountChanges, Zenon
<1>onboarding. "onboarding" \in Changes
  BY AccountChanges, Zenon
<1>1. TableSafe([LoginRoute |-> LoginRoute])
  <2>1. SafeEnd(route(200, <<valid, reads, checks({401}), reads, inserts("refresh token"),
              tries("last login")>>))
    <3> DEFINE a == checks({401})
              b == inserts("refresh token")
              c == tries("last login")
    <3>1. a \in Quiet
      BY ChecksQuiet, <1>c401, ZenonT(40)
    <3>2. b \in StepShapes
      BY InsertsFirm, <1>refresh_token, Kinds, Zenon
    <3>3. c \in Firm
      BY TriesFirm, <1>last_login, Zenon
    <3> HIDE DEF a, b, c
    <3>4. Safe(<<valid, reads, a, reads, b, c>>)
      BY <3>1, <3>2, <3>3, QuietCommon, SafeQQQQSF
    <3>5. SafeEnd(route(200, <<valid, reads, a, reads, b, c>>))
      BY <3>4, SafeRoute
    <3>6. QED
      BY <3>5, Zenon DEF a, b, c
  <2>2. SafeEnd(LoginRoute)
    BY <2>1 DEF LoginRoute
  <2>3. QED
    BY <2>2 DEF TableSafe
<1>2. TableSafe(PasswordRoutes)
  <2>1. SafeEnd(route(200, <<valid, readsElse(200), checks({200}), reads,
              inserts("reset tokens"), inserts("reset token")>>))
    <3> DEFINE a == readsElse(200)
              b == checks({200})
              c == inserts("reset tokens")
              d == inserts("reset token")
    <3>1. a \in Quiet
      BY ReadsQuiet, <1>e200, ZenonT(40)
    <3>2. b \in Quiet
      BY ChecksQuiet, <1>c200, ZenonT(40)
    <3>3. c \in StepShapes
      BY InsertsFirm, <1>reset_tokens, Kinds, Zenon
    <3>4. d \in Firm
      BY InsertsFirm, <1>reset_token, Zenon
    <3> HIDE DEF a, b, c, d
    <3>5. Safe(<<valid, a, b, reads, c, d>>)
      BY <3>1, <3>2, <3>3, <3>4, QuietCommon, SafeQQQQSF
    <3>6. SafeEnd(route(200, <<valid, a, b, reads, c, d>>))
      BY <3>5, SafeRoute
    <3>7. QED
      BY <3>6, Zenon DEF a, b, c, d
  <2>2. SafeEnd(route(200, <<valid, checks({401}), insertsUnless("reset token", {401}),
              inserts("password"), inserts("refresh tokens")>>))
    <3> DEFINE a == checks({401})
              b == insertsUnless("reset token", {401})
              c == inserts("password")
              d == inserts("refresh tokens")
    <3>1. a \in Quiet
      BY ChecksQuiet, <1>c401, ZenonT(40)
    <3>2. b \in StepShapes
      BY insertsUnlessShape, <1>c401, <1>reset_token, ZenonT(40)
    <3>3. c \in Firm
      BY InsertsFirm, <1>password, Zenon
    <3>4. d \in Firm
      BY InsertsFirm, <1>refresh_tokens, Zenon
    <3> HIDE DEF a, b, c, d
    <3>5. Safe(<<valid, a, b, c, d>>)
      BY <3>1, <3>2, <3>3, <3>4, QuietCommon, SafeQQSFF
    <3>6. SafeEnd(route(200, <<valid, a, b, c, d>>))
      BY <3>5, SafeRoute
    <3>7. QED
      BY <3>6, Zenon DEF a, b, c, d
  <2>3. SafeEnd(PasswordRoutes.RequestPasswordReset) /\ SafeEnd(PasswordRoutes.ResetPassword)
    BY <2>1, <2>2 DEF PasswordRoutes
  <2>4. DOMAIN PasswordRoutes = {"RequestPasswordReset", "ResetPassword"}
    BY DEF PasswordRoutes
  <2>5. QED
    BY <2>3, <2>4 DEF TableSafe
<1>3. TableSafe(SessionRoutes)
  <2>1. SafeEnd(route(200, <<valid, reads, checks({401}), inserts("password"),
              inserts("refresh tokens")>>))
    <3> DEFINE a == checks({401})
              b == inserts("password")
              c == inserts("refresh tokens")
    <3>1. a \in StepShapes
      BY ChecksQuiet, <1>c401, Kinds, ZenonT(40)
    <3>2. b \in Firm
      BY InsertsFirm, <1>password, Zenon
    <3>3. c \in Firm
      BY InsertsFirm, <1>refresh_tokens, Zenon
    <3> HIDE DEF a, b, c
    <3>4. Safe(<<valid, reads, a, b, c>>)
      BY <3>1, <3>2, <3>3, QuietCommon, SafeQQSFF
    <3>5. SafeEnd(route(200, <<valid, reads, a, b, c>>))
      BY <3>4, SafeRoute
    <3>6. QED
      BY <3>5, Zenon DEF a, b, c
  <2>2. SafeEnd(route(200, <<inserts("refresh tokens"), inserts("session version")>>))
    <3> DEFINE a == inserts("refresh tokens")
              b == inserts("session version")
    <3>1. a \in StepShapes
      BY InsertsFirm, <1>refresh_tokens, Kinds, Zenon
    <3>2. b \in Firm
      BY InsertsFirm, <1>session_version, Zenon
    <3> HIDE DEF a, b
    <3>3. Safe(<<a, b>>)
      BY <3>1, <3>2, QuietCommon, SafeSF
    <3>4. SafeEnd(route(200, <<a, b>>))
      BY <3>3, SafeRoute
    <3>5. QED
      BY <3>4, Zenon DEF a, b
  <2>3. SafeEnd(SessionRoutes.ChangePassword) /\ SafeEnd(SessionRoutes.Logout)
    BY <2>1, <2>2 DEF SessionRoutes
  <2>4. DOMAIN SessionRoutes = {"ChangePassword", "Logout"}
    BY DEF SessionRoutes
  <2>5. QED
    BY <2>3, <2>4 DEF TableSafe
<1>4. TableSafe(SetupRoutes)
  <2>1. SafeEnd(route(200, <<valid, reads, checks({400, 409}), inserts("user")>>))
    <3> DEFINE a == checks({400, 409})
              b == inserts("user")
    <3>1. a \in Quiet
      BY ChecksQuiet, <1>c400_409, ZenonT(40)
    <3>2. b \in StepShapes
      BY InsertsFirm, <1>user, Kinds, Zenon
    <3> HIDE DEF a, b
    <3>3. Safe(<<valid, reads, a, b>>)
      BY <3>1, <3>2, QuietCommon, SafeQQQS
    <3>4. SafeEnd(route(200, <<valid, reads, a, b>>))
      BY <3>3, SafeRoute
    <3>5. QED
      BY <3>4, Zenon DEF a, b
  <2>2. QED
    BY <2>1, CommonRoutes DEF TableSafe, SetupRoutes
<1>5. TableSafe(CredentialTests)
  BY CommonRoutes DEF TableSafe, CredentialTests
<1>6. TableSafe(OnboardingRoutes)
  <2>1. SafeEnd(route(200, <<valid, perhaps(inserts("override")),
              perhaps(inserts("override"))>>))
    <3> DEFINE a == perhaps(inserts("override"))
    <3>1. a \in StepShapes
      BY PerhapsFirm, InsertsFirm, <1>override, Kinds, Zenon
    <3>2. a \in Firm
      BY PerhapsFirm, InsertsFirm, <1>override, Zenon
    <3> HIDE DEF a
    <3>3. Safe(<<valid, a, a>>)
      BY <3>1, <3>2, QuietCommon, SafeQSF
    <3>4. SafeEnd(route(200, <<valid, a, a>>))
      BY <3>3, SafeRoute
    <3>5. QED
      BY <3>4, Zenon DEF a
  <2>2. SafeEnd(route(200, <<valid, inserts("onboarding")>>))
    BY <1>onboarding, WriteRoutes, ZenonT(40)
  <2>3. SafeEnd(route(200, <<inserts("onboarding")>>))
    <3> DEFINE a == inserts("onboarding")
    <3>1. a \in StepShapes
      BY InsertsFirm, <1>onboarding, Kinds, Zenon
    <3> HIDE DEF a
    <3>2. Safe(<<a>>)
      BY <3>1, QuietCommon, SafeS
    <3>3. SafeEnd(route(200, <<a>>))
      BY <3>2, SafeRoute
    <3>4. QED
      BY <3>3, Zenon DEF a
  <2>4. QED
    BY <2>1, <2>2, <2>3 DEF TableSafe, OnboardingRoutes
<1>7. QED
  BY <1>1, <1>2, <1>3, <1>4, <1>5, <1>6

-----------------------------------------------------------------------------
\* The steps of the other tables.
LEMMA OtherSteps ==
    /\ inserts("task") \in Firm
    /\ inserts("interview") \in Firm
    /\ tries("activity") \in Firm
    /\ insertsElse("application", NoAnswer) \in Firm
    /\ insertsElse("task", 207) \in Firm
    /\ tries("refresh tokens") \in Firm
    /\ inserts("refresh tokens") \in Firm
    /\ inserts("refresh token") \in Firm
    /\ checks({400}) \in Quiet
    /\ checks({401}) \in Quiet
    /\ updatesUnless("interview", {400, 409}) \in StepShapes
    /\ updatesUnless("interview", {400}) \in StepShapes
    /\ updatesUnless("approval", {400, 409}) \in StepShapes
    /\ updates("classification") \in StepShapes
    /\ perhaps(updates("read flag")) \in StepShapes
    /\ perhaps(updates("draft")) \in StepShapes
<1>task. "task" \in Changes
  BY JobChanges, Zenon
<1>interview. "interview" \in Changes
  BY JobChanges, Zenon
<1>activity. "activity" \in Changes
  BY RecordChanges, Zenon
<1>eNoAnswer. NoAnswer \in Errors
  BY ErrorSets, Zenon
<1>application. "application" \in Changes
  BY JobChanges, Zenon
<1>e207. 207 \in Errors
  BY ErrorSets, Zenon
<1>refresh_tokens. "refresh tokens" \in Changes
  BY AccountChanges, Zenon
<1>refresh_token. "refresh token" \in Changes
  BY AccountChanges, Zenon
<1>c400. {400} \in Codes
  BY CodeSets, Zenon
<1>c401. {401} \in Codes
  BY CodeSets, Zenon
<1>c400_409. {400, 409} \in Codes
  BY CodeSets, Zenon
<1>approval. "approval" \in Changes
  BY RecordChanges, Zenon
<1>classification. "classification" \in Changes
  BY RecordChanges, Zenon
<1>read_flag. "read flag" \in Changes
  BY RecordChanges, Zenon
<1>draft. "draft" \in Changes
  BY RecordChanges, Zenon
<1>1. inserts("task") \in Firm
  BY InsertsFirm, <1>task, Zenon
<1>2. inserts("interview") \in Firm
  BY InsertsFirm, <1>interview, Zenon
<1>3. tries("activity") \in Firm
  BY TriesFirm, <1>activity, Zenon
<1>4. insertsElse("application", NoAnswer) \in Firm
  BY WritesFirm, <1>eNoAnswer, <1>application, Zenon
<1>5. insertsElse("task", 207) \in Firm
  BY WritesFirm, <1>e207, <1>task, ZenonT(40)
<1>6. tries("refresh tokens") \in Firm
  BY TriesFirm, <1>refresh_tokens, Zenon
<1>7. inserts("refresh tokens") \in Firm
  BY InsertsFirm, <1>refresh_tokens, Zenon
<1>8. inserts("refresh token") \in Firm
  BY InsertsFirm, <1>refresh_token, Zenon
<1>9. checks({400}) \in Quiet
  BY ChecksQuiet, <1>c400, ZenonT(40)
<1>10. checks({401}) \in Quiet
  BY ChecksQuiet, <1>c401, ZenonT(40)
<1>11. updatesUnless("interview", {400, 409}) \in StepShapes
  BY updatesUnlessShape, <1>c400_409, <1>interview, ZenonT(40)
<1>12. updatesUnless("interview", {400}) \in StepShapes
  BY updatesUnlessShape, <1>c400, <1>interview, ZenonT(40)
<1>13. updatesUnless("approval", {400, 409}) \in StepShapes
  BY updatesUnlessShape, <1>c400_409, <1>approval, ZenonT(40)
<1>14. updates("classification") \in StepShapes
  BY UpdatesShape, <1>classification, Zenon
<1>15. perhaps(updates("read flag")) \in StepShapes
  BY PerhapsShape, UpdatesShape, <1>read_flag, Zenon
<1>16. perhaps(updates("draft")) \in StepShapes
  BY PerhapsShape, UpdatesShape, <1>draft, Zenon
<1>17. QED
  BY <1>1, <1>2, <1>3, <1>4, <1>5, <1>6, <1>7, <1>8,
     <1>9, <1>10, <1>11, <1>12, <1>13, <1>14, <1>15, <1>16, Zenon

\* What looks for the row, and what writes it, needs the row.
LEMMA RowNeeded ==
    /\ finds.refusals = {} /\ finds.gone = {404} /\ finds.may = FALSE
    /\ \A x, refusals : /\ updatesUnless(x, refusals).gone = {404}
                        /\ updatesUnless(x, refusals).may = FALSE
    /\ \A x : perhaps(updates(x)).gone = {404} /\ perhaps(updates(x)).refusals = {}
<1>1. finds.refusals = {} /\ finds.gone = {404} /\ finds.may = FALSE
  BY DEF finds, findsElse, step
<1>2. ASSUME NEW x, NEW refusals
      PROVE  updatesUnless(x, refusals).gone = {404} /\ updatesUnless(x, refusals).may = FALSE
  BY DEF updatesUnless, step
<1>3. ASSUME NEW x PROVE perhaps(updates(x)).gone = {404} /\ perhaps(updates(x)).refusals = {}
  BY DEF perhaps, updates, updatesUnless, step
<1>4. QED
  BY <1>1, <1>2, <1>3

\* No code is no refusal.
LEMMA NothingRefuses == ~refusing({}) /\ {404} # {}
BY DEF refusing

\* A handler that is careful about a row that nobody deletes.
LEMMA CarefulRoute ==
    ASSUME NEW steps \in Seq(StepShapes), Careful(steps, FALSE, FALSE)
    PROVE  \A h : RouteSound(route(200, steps), h, FALSE)
<1>1. route(200, steps).steps = steps /\ route(200, steps).ok = 200
  BY DEF route
<1>2. 200 \notin 400..499 /\ 200 \in StatusCodes
  BY DEF StatusCodes
<1>3. PICK r : r = route(200, steps)
  OBVIOUS
<1>4. /\ r.steps \in Seq(StepShapes) /\ Careful(r.steps, FALSE, FALSE)
      /\ r.ok \notin 400..499 /\ r.ok \in StatusCodes
  <2>1. r.steps = steps /\ r.ok = 200
    BY <1>1, <1>3
  <2>2. r.ok \notin 400..499 /\ r.ok \in StatusCodes
    BY <1>2, <2>1
  <2>3. QED
    BY <2>1, <2>2, Zenon
<1>5. \A h : RouteSound(r, h, FALSE)
  BY <1>4, Zenon DEF RouteSound
<1>6. QED
  BY <1>3, <1>5, Zenon

\* StartInterview looks for its session once more after it has written it.
LEMMA StartInterviewSound ==
    \A h : RouteSound(route(200, <<valid, finds, updatesUnless("interview", {400, 409}),
                                   inserts("task"), finds>>), h, FALSE)
<1> DEFINE commit == updatesUnless("interview", {400, 409})
<1> DEFINE steps == <<valid, finds, commit, inserts("task"), finds>>
<1>1. /\ commit \in StepShapes /\ inserts("task") \in Firm
      /\ Quiet \subseteq StepShapes /\ Firm \subseteq StepShapes
  BY OtherSteps, Kinds, Zenon
<1>2. commit.gone = {404}
  BY RowNeeded
<1> HIDE DEF commit
<1>3. steps \in Seq(StepShapes) /\ Len(steps) = 5
  BY <1>1, QuietCommon
<1>4. /\ steps[1] = valid /\ steps[2] = finds /\ steps[3] = commit
      /\ steps[4] = inserts("task") /\ steps[5] = finds
  OBVIOUS
<1> HIDE DEF steps
<1>5. Careful(steps, FALSE, FALSE)
  <2> SUFFICES ASSUME NEW i \in 1..5, NEW j \in 1..5, i < j
               PROVE  /\ refusing(steps[j].refusals) => steps[i] \in Quiet
                      /\ refusing(steps[j].gone) => steps[i] \in Quiet \/ NeededRow(steps, i)
    BY <1>3 DEF Careful
  <2>1. CASE i \in {1, 2}
    BY <2>1, <1>4, QuietCommon
  <2>2. CASE j = 4
    BY <2>2, <1>1, <1>4 DEF Firm
  <2>3. CASE i \in {3, 4} /\ j = 5
    <3>1. ~refusing(steps[j].refusals)
      BY <2>3, <1>4, RowNeeded, NothingRefuses
    <3>2. steps[2].gone # {} /\ ~steps[2].may /\ steps[3].gone # {}
      BY <1>2, <1>4, RowNeeded, NothingRefuses
    <3>3. NeededRow(steps, i)
      BY <2>3, <3>2 DEF NeededRow
    <3>4. QED
      BY <3>1, <3>3
  <2>4. QED
    BY <2>1, <2>2, <2>3
<1>6. \A h : RouteSound(route(200, steps), h, FALSE)
  BY <1>3, <1>5, CarefulRoute
<1>7. QED
  BY <1>6 DEF steps, commit

\* ApproveApproval looks for the approval it has decided.
LEMMA ApproveApprovalSound ==
    \A h : RouteSound(route(200, <<valid, updatesUnless("approval", {400, 409}), finds,
                                   tries("activity"), insertsElse("application", NoAnswer),
                                   insertsElse("task", 207)>>), h, FALSE)
<1> DEFINE decide == updatesUnless("approval", {400, 409})
<1> DEFINE queue == insertsElse("application", NoAnswer)
<1> DEFINE enqueue == insertsElse("task", 207)
<1> DEFINE steps == <<valid, decide, finds, tries("activity"), queue, enqueue>>
<1>1. /\ decide \in StepShapes
      /\ tries("activity") \in Firm /\ queue \in Firm /\ enqueue \in Firm
      /\ Quiet \subseteq StepShapes /\ Firm \subseteq StepShapes
  BY OtherSteps, Kinds, Zenon
<1>2. decide.gone = {404}
  BY RowNeeded
<1> HIDE DEF decide, queue, enqueue
<1>3. steps \in Seq(StepShapes) /\ Len(steps) = 6
  BY <1>1, QuietCommon
<1>4. /\ steps[1] = valid /\ steps[2] = decide /\ steps[3] = finds
      /\ steps[4] = tries("activity") /\ steps[5] = queue /\ steps[6] = enqueue
  OBVIOUS
<1> HIDE DEF steps
<1>5. Careful(steps, FALSE, FALSE)
  <2> SUFFICES ASSUME NEW i \in 1..6, NEW j \in 1..6, i < j
               PROVE  /\ refusing(steps[j].refusals) => steps[i] \in Quiet
                      /\ refusing(steps[j].gone) => steps[i] \in Quiet \/ NeededRow(steps, i)
    BY <1>3 DEF Careful
  <2>1. CASE i = 1
    BY <2>1, <1>4, QuietCommon
  <2>2. CASE j \in {4, 5, 6}
    BY <2>2, <1>1, <1>4 DEF Firm
  <2>3. CASE i = 2 /\ j = 3
    <3>1. ~refusing(steps[j].refusals)
      BY <2>3, <1>4, RowNeeded, NothingRefuses
    <3>2. NeededRow(steps, i)
      BY <2>3, <1>2, <1>4, NothingRefuses DEF NeededRow
    <3>3. QED
      BY <3>1, <3>2
  <2>4. QED
    BY <2>1, <2>2, <2>3
<1>6. \A h : RouteSound(route(200, steps), h, FALSE)
  BY <1>3, <1>5, CarefulRoute
<1>7. QED
  BY <1>6 DEF steps, decide, queue, enqueue

\* Update writes an email in two steps, either of which may be none of the request's.
LEMMA UpdateEmailSound ==
    \A h : RouteSound(route(200, <<valid, perhaps(updates("read flag")),
                                   perhaps(updates("draft")), findsElse(500)>>), h, FALSE)
<1> DEFINE flag == perhaps(updates("read flag"))
<1> DEFINE draft == perhaps(updates("draft"))
<1> DEFINE steps == <<valid, flag, draft, findsElse(500)>>
<1>1. /\ flag \in StepShapes /\ draft \in StepShapes /\ findsElse(500) \in Firm
      /\ Quiet \subseteq StepShapes /\ Firm \subseteq StepShapes
  <2>1. flag \in StepShapes /\ draft \in StepShapes
    BY OtherSteps, ZenonT(40)
  <2>2. findsElse(500) \in Firm
    BY ReadsFirm, Zenon
  <2>3. QED
    BY <2>1, <2>2, Kinds, Zenon
<1>2. flag.gone = {404} /\ draft.refusals = {}
  BY RowNeeded, ZenonT(40)
<1> HIDE DEF flag, draft
<1>3. steps \in Seq(StepShapes) /\ Len(steps) = 4
  BY <1>1, QuietCommon
<1>4. /\ steps[1] = valid /\ steps[2] = flag /\ steps[3] = draft /\ steps[4] = findsElse(500)
  OBVIOUS
<1> HIDE DEF steps
<1>5. Careful(steps, FALSE, FALSE)
  <2> SUFFICES ASSUME NEW i \in 1..4, NEW j \in 1..4, i < j
               PROVE  /\ refusing(steps[j].refusals) => steps[i] \in Quiet
                      /\ refusing(steps[j].gone) => steps[i] \in Quiet \/ NeededRow(steps, i)
    BY <1>3 DEF Careful
  <2>1. CASE i = 1
    BY <2>1, <1>4, QuietCommon
  <2>2. CASE j = 4
    BY <2>2, <1>1, <1>4 DEF Firm
  <2>3. CASE i = 2 /\ j = 3
    <3>1. ~refusing(steps[j].refusals)
      BY <2>3, <1>2, <1>4, NothingRefuses
    <3>2. NeededRow(steps, i)
      BY <2>3, <1>2, <1>4, NothingRefuses DEF NeededRow
    <3>3. QED
      BY <3>1, <3>2
  <2>4. QED
    BY <2>1, <2>2, <2>3
<1>6. \A h : RouteSound(route(200, steps), h, FALSE)
  BY <1>3, <1>5, CarefulRoute
<1>7. QED
  BY <1>6 DEF steps, flag, draft

\* A refresh token used twice is refused after its family is gone, as it is meant to be.
LEMMA RefreshReusedSound ==
    \A d : RouteSound(route(401, <<valid, tries("refresh tokens")>>), "RefreshReused", d)
<1> TAKE d
<1> DEFINE revokes == tries("refresh tokens")
<1> DEFINE steps == <<valid, revokes>>
<1>0. valid \in Quiet /\ revokes \in StepShapes
  BY QuietCommon, OtherSteps, Kinds, Zenon
<1> HIDE DEF revokes
<1>1. Safe(steps)
  BY <1>0, SafeQS
<1>2. RouteSound(route(200, steps), "RefreshReused", d)
  BY <1>1 DEF Safe, Normal
<1>3. Len(steps) = 2 /\ steps[1] = valid /\ steps[2] = revokes
  OBVIOUS
<1>4. valid.change = "nothing" /\ revokes.change = "refresh tokens"
  BY DEF valid, checks, revokes, tries, insertsElse, step
<1> HIDE DEF steps
<1>5. \A i \in 1..Len(steps) : steps[i].change \in HarmlessTo("RefreshReused")
  <2> SUFFICES ASSUME NEW i \in 1..2
               PROVE  steps[i].change \in HarmlessTo("RefreshReused")
    BY <1>3
  <2>1. i = 1 \/ i = 2
    OBVIOUS
  <2>2. {"nothing", "refresh tokens"} \subseteq HarmlessTo("RefreshReused")
    BY DEF HarmlessTo, Harmless
  <2>3. QED
    BY <1>3, <1>4, <2>1, <2>2
<1>6. steps \in Seq(StepShapes) /\ Careful(steps, d, FALSE)
  BY <1>2 DEF RouteSound, route
<1>7. RouteSound(route(401, steps), "RefreshReused", d)
  <2>1. 401 \in StatusCodes
    BY DEF StatusCodes
  <2>2. QED
    BY <1>5, <1>6, <2>1 DEF RouteSound, route
<1>8. QED
  BY <1>7 DEF steps, revokes

\* The tables of the three.
LEMMA SafeIsSound ==
    ASSUME NEW table, TableSafe(table)
    PROVE  \A d : TableSound(table, d)
BY DEF TableSafe, SafeEnd, TableSound

\* The edits of an interview, which nobody deletes.
LEMMA InterviewEditsSound == TableSound(InterviewEdits, FALSE)
<1>1. SafeEnd(route(201, <<valid, inserts("interview")>>))
  BY JobChanges, WriteRoutes, ZenonT(40)
<1>2. SafeEnd(route(200, <<valid, finds, checks({400}), updatesUnless("interview", {400})>>))
  <2> DEFINE a == checks({400})
             b == updatesUnless("interview", {400})
  <2>1. a \in Quiet /\ b \in StepShapes
    BY OtherSteps, Zenon
  <2> HIDE DEF a, b
  <2>2. Safe(<<valid, finds, a, b>>)
    BY <2>1, QuietCommon, SafeQQQS
  <2>3. SafeEnd(route(200, <<valid, finds, a, b>>))
    BY <2>2, SafeRoute
  <2>4. QED
    BY <2>3, Zenon DEF a, b
<1> DEFINE create == route(201, <<valid, inserts("interview")>>)
           start == route(200, <<valid, finds, updatesUnless("interview", {400, 409}),
                                 inserts("task"), finds>>)
           stop == route(200, <<valid, finds, checks({400}), updatesUnless("interview", {400})>>)
<1>3. InterviewEdits = [CreateInterview |-> create, StartInterview |-> start,
                        StopInterview |-> stop]
  BY Zenon DEF InterviewEdits
<1>4. /\ \A h : RouteSound(create, h, FALSE)
      /\ \A h : RouteSound(stop, h, FALSE)
  <2>1. \A h : RouteSound(create, h, FALSE)
    BY <1>1, ZenonT(40) DEF SafeEnd
  <2>2. \A h : RouteSound(stop, h, FALSE)
    BY <1>2, ZenonT(40) DEF SafeEnd
  <2>3. QED
    BY <2>1, <2>2
<1>5. \A h : RouteSound(start, h, FALSE)
  BY StartInterviewSound, Zenon
<1> HIDE DEF create, start, stop
<1>6. \A h \in DOMAIN InterviewEdits : InterviewEdits[h] \in {create, start, stop}
  BY <1>3
<1>7. QED
  BY <1>4, <1>5, <1>6, Zenon DEF TableSound

\* The decisions about an approval, which nobody deletes.
LEMMA ApprovalDecisionsSound == TableSound(ApprovalDecisions, FALSE)
<1>1. SafeEnd(route(200, <<valid, updatesUnless("approval", {400, 409}), findsElse(500)>>))
  <2> DEFINE a == updatesUnless("approval", {400, 409})
             b == findsElse(500)
  <2>1. a \in StepShapes /\ b \in Firm
    BY OtherSteps, ReadsFirm, Zenon
  <2> HIDE DEF a, b
  <2>2. Safe(<<valid, a, b>>)
    BY <2>1, QuietCommon, SafeQSF
  <2>3. SafeEnd(route(200, <<valid, a, b>>))
    BY <2>2, SafeRoute
  <2>4. QED
    BY <2>3, Zenon DEF a, b
<1> DEFINE approve == route(200, <<valid, updatesUnless("approval", {400, 409}), finds,
                                   tries("activity"), insertsElse("application", NoAnswer),
                                   insertsElse("task", 207)>>)
           reject == route(200, <<valid, updatesUnless("approval", {400, 409}), findsElse(500)>>)
<1>2. ApprovalDecisions = [ApproveApproval |-> approve, RejectApproval |-> reject]
  BY Zenon DEF ApprovalDecisions
<1>3. /\ \A h : RouteSound(reject, h, FALSE)
      /\ \A h : RouteSound(approve, h, FALSE)
  <2>1. \A h : RouteSound(approve, h, FALSE)
    BY ApproveApprovalSound
  <2>2. \A h : RouteSound(reject, h, FALSE)
    BY <1>1, ZenonT(40) DEF SafeEnd
  <2>3. QED
    BY <2>1, <2>2
<1> HIDE DEF approve, reject
<1>4. \A h \in DOMAIN ApprovalDecisions : ApprovalDecisions[h] \in {approve, reject}
  BY <1>2
<1>5. QED
  BY <1>3, <1>4, Zenon DEF TableSound

\* The edits of an email, which nobody deletes.
LEMMA EmailEditsSound == TableSound(EmailEdits, FALSE)
<1>1. SafeEnd(route(200, <<valid, finds, reads, updates("classification")>>))
  <2> DEFINE a == updates("classification")
  <2>1. a \in StepShapes
    BY OtherSteps, Zenon
  <2> HIDE DEF a
  <2>2. Safe(<<valid, finds, reads, a>>)
    BY <2>1, QuietCommon, SafeQQQS
  <2>3. SafeEnd(route(200, <<valid, finds, reads, a>>))
    BY <2>2, SafeRoute
  <2>4. QED
    BY <2>3, Zenon DEF a
<1> DEFINE update == route(200, <<valid, perhaps(updates("read flag")),
                                  perhaps(updates("draft")), findsElse(500)>>)
           reclassify == route(200, <<valid, finds, reads, updates("classification")>>)
<1>2. EmailEdits = [Update |-> update, Reclassify |-> reclassify]
  BY Zenon DEF EmailEdits
<1>3. /\ \A h : RouteSound(reclassify, h, FALSE)
      /\ \A h : RouteSound(update, h, FALSE)
  <2>1. \A h : RouteSound(update, h, FALSE)
    BY UpdateEmailSound
  <2>2. \A h : RouteSound(reclassify, h, FALSE)
    BY <1>1, ZenonT(40) DEF SafeEnd
  <2>3. QED
    BY <2>1, <2>2
<1> HIDE DEF update, reclassify
<1>4. \A h \in DOMAIN EmailEdits : EmailEdits[h] \in {update, reclassify}
  BY <1>2
<1>5. QED
  BY <1>3, <1>4, Zenon DEF TableSound

\* The two ways a refresh may go.
LEMMA RefreshRoutesSound == \A d : TableSound(RefreshRoutes, d)
<1>1. SafeEnd(route(200, <<valid, checks({401}), inserts("refresh tokens"), reads,
                           inserts("refresh token")>>))
  <2> DEFINE a == checks({401})
             b == inserts("refresh tokens")
             c == inserts("refresh token")
  <2>1. a \in Quiet /\ b \in Firm /\ c \in Firm
    BY OtherSteps, Zenon
  <2>2. b \in StepShapes
    BY <2>1, Kinds
  <2> HIDE DEF a, b, c
  <2>3. Safe(<<valid, a, b, reads, c>>)
    BY <2>1, <2>2, QuietCommon, ReadsFirm, SafeQQSFF
  <2>4. SafeEnd(route(200, <<valid, a, b, reads, c>>))
    BY <2>3, SafeRoute
  <2>5. QED
    BY <2>4, Zenon DEF a, b, c
<1> DEFINE refresh == route(200, <<valid, checks({401}), inserts("refresh tokens"), reads,
                                   inserts("refresh token")>>)
           reused == route(401, <<valid, tries("refresh tokens")>>)
<1>2. RefreshRoutes = [Refresh |-> refresh, RefreshReused |-> reused]
  BY Zenon DEF RefreshRoutes
<1>3. SafeEnd(refresh) /\ \A d : RouteSound(reused, "RefreshReused", d)
  BY <1>1, RefreshReusedSound, Zenon
<1> HIDE DEF refresh, reused
<1>4. QED
  BY <1>2, <1>3 DEF TableSound, SafeEnd

\* Nobody deletes an interview, an approval or an email.
LEMMA NotDeletable ==
    InterviewEdits \notin Deletable /\ ApprovalDecisions \notin Deletable /\ EmailEdits \notin Deletable
<1> DEFINE others == {"StartInterview", "ApproveApproval", "Reclassify"}
<1>1. DOMAIN JobQueries \cap others = {} /\ DOMAIN JobEdits \cap others = {}
  BY DEF JobQueries, JobEdits
<1>2. DOMAIN JobActions \cap others = {} /\ DOMAIN JobRelations \cap others = {}
  BY DEF JobActions, JobRelations
<1>3. DOMAIN ScoreRoutes \cap others = {} /\ DOMAIN ResumeQueries \cap others = {}
  BY DEF ScoreRoutes, ResumeQueries
<1>4. DOMAIN ResumeEdits \cap others = {} /\ DOMAIN ContentRoutes \cap others = {}
  BY DEF ResumeEdits, ContentRoutes
<1>5. DOMAIN VersionRoutes \cap others = {} /\ DOMAIN LetterQueries \cap others = {}
  BY DEF VersionRoutes, LetterQueries
<1>6. DOMAIN LetterEdits \cap others = {} /\ DOMAIN LetterVersions \cap others = {}
  BY DEF LetterEdits, LetterVersions
<1>7. DOMAIN EmbeddingRoutes \cap others = {}
  BY DEF EmbeddingRoutes
<1>8. "StartInterview" \in DOMAIN InterviewEdits
  BY DEF InterviewEdits
<1>9. "ApproveApproval" \in DOMAIN ApprovalDecisions
  BY DEF ApprovalDecisions
<1>10. "Reclassify" \in DOMAIN EmailEdits
  BY DEF EmailEdits
<1>11. \A table \in Deletable : DOMAIN table \cap others = {}
  BY <1>1, <1>2, <1>3, <1>4, <1>5, <1>6, <1>7 DEF Deletable
<1>12. QED
  BY <1>8, <1>9, <1>10, <1>11

-----------------------------------------------------------------------------
\* What a request passes before its handler changes nothing, and the handler is sound.
LEMMA ChainSteps ==
    /\ CORS \in Quiet /\ RateLimit \in Quiet /\ SetupMiddleware \in Quiet
    /\ OnboardingCompleteMiddleware \in Quiet /\ Authenticate \in Quiet
    /\ internalSecretMiddleware \in Quiet
<1>1. {403} \in Codes /\ {429} \in Codes
  BY DEF Codes
<1>2. {410} \in Codes /\ {401} \in Codes
  BY DEF Codes
<1>3. CORS \in Quiet /\ RateLimit \in Quiet /\ SetupMiddleware \in Quiet
  BY <1>1, ChecksQuiet, ZenonT(40) DEF CORS, RateLimit, SetupMiddleware
<1>4. OnboardingCompleteMiddleware \in Quiet /\ Authenticate \in Quiet
  BY <1>2, ChecksQuiet, ZenonT(40) DEF OnboardingCompleteMiddleware, Authenticate
<1>5. internalSecretMiddleware \in Quiet
  BY <1>2, ChecksQuiet, ZenonT(40) DEF internalSecretMiddleware
<1>6. QED
  BY <1>3, <1>4, <1>5

GroupSound(group) ==
    /\ group.chain \in Seq(Quiet)
    /\ \A table \in group.tables : TableSound(table, table \in Deletable)

\* Every group of routes has a quiet chain before sound handlers.
LEMMA GroupsSound == \A g \in DOMAIN SetupRouter : GroupSound(SetupRouter[g])
<1>1. GroupSound(SetupRouter.public)
  <2>1. SetupRouter.public.chain \in Seq(Quiet)
    <3>1. SetupRouter.public.chain = <<CORS, RateLimit, SetupMiddleware, RateLimit>>
      BY Zenon DEF SetupRouter
    <3>2. QED
      BY <3>1, ChainSteps
  <2>2. SetupRouter.public.tables =
          {[LoginRoute |-> LoginRoute], RefreshRoutes, PasswordRoutes}
    BY DEF SetupRouter
  <2>3. \A table \in SetupRouter.public.tables : TableSound(table, table \in Deletable)
    BY <2>2, AccountTables, SafeIsSound, RefreshRoutesSound
  <2>4. QED
    BY <2>1, <2>3 DEF GroupSound
<1>2. GroupSound(SetupRouter.setup)
  <2>1. SetupRouter.setup.chain \in Seq(Quiet)
    <3>1. SetupRouter.setup.chain = <<CORS, RateLimit, RateLimit>>
      BY Zenon DEF SetupRouter
    <3>2. QED
      BY <3>1, ChainSteps
  <2>2. SetupRouter.setup.tables = {SetupRoutes}
    BY DEF SetupRouter
  <2>3. \A table \in SetupRouter.setup.tables : TableSound(table, table \in Deletable)
    BY <2>2, AccountTables, SafeIsSound
  <2>4. QED
    BY <2>1, <2>3 DEF GroupSound
<1>3. GroupSound(SetupRouter.onboarding)
  <2>1. SetupRouter.onboarding.chain \in Seq(Quiet)
    <3>1. SetupRouter.onboarding.chain =
            <<CORS, RateLimit, RateLimit, RateLimit, OnboardingCompleteMiddleware>>
      BY Zenon DEF SetupRouter
    <3>2. QED
      BY <3>1, ChainSteps
  <2>2. SetupRouter.onboarding.tables = {CredentialTests, OnboardingRoutes}
    BY DEF SetupRouter
  <2>3. \A table \in SetupRouter.onboarding.tables : TableSound(table, table \in Deletable)
    BY <2>2, AccountTables, SafeIsSound
  <2>4. QED
    BY <2>1, <2>3 DEF GroupSound
<1>4. GroupSound(SetupRouter.protected)
  <2>1. SetupRouter.protected.chain \in Seq(Quiet)
    <3>1. SetupRouter.protected.chain = <<CORS, RateLimit, SetupMiddleware, Authenticate>>
      BY Zenon DEF SetupRouter
    <3>2. QED
      BY <3>1, ChainSteps
  <2> DEFINE others == {InterviewEdits, ApprovalDecisions, EmailEdits}
  <2>2. \A table \in SetupRouter.protected.tables \ others : TableSafe(table)
    BY JobTables, ApplicationTables, DocumentTables, RecordTables, AccountTables
       DEF SetupRouter
  <2>3. \A table \in others : TableSound(table, table \in Deletable)
    <3>1. ASSUME NEW table, TableSound(table, FALSE), table \notin Deletable
          PROVE  TableSound(table, table \in Deletable)
      <4>1. (table \in Deletable) = FALSE
        BY <3>1
      <4>2. QED
        BY <3>1, <4>1, Zenon
    <3>2. QED
      BY <3>1, NotDeletable, InterviewEditsSound, ApprovalDecisionsSound, EmailEditsSound, Zenon
  <2>4. \A table \in SetupRouter.protected.tables : TableSound(table, table \in Deletable)
    BY <2>2, <2>3, SafeIsSound
  <2>5. QED
    BY <2>1, <2>4 DEF GroupSound
<1>5. GroupSound(SetupRouter.internal)
  <2>1. SetupRouter.internal.chain \in Seq(Quiet)
    <3>1. SetupRouter.internal.chain =
            <<CORS, RateLimit, SetupMiddleware, internalSecretMiddleware>>
      BY Zenon DEF SetupRouter
    <3>2. QED
      BY <3>1, ChainSteps
  <2>2. SetupRouter.internal.tables = {InterviewEvents}
    BY DEF SetupRouter
  <2>3. \A table \in SetupRouter.internal.tables : TableSound(table, table \in Deletable)
    BY <2>2, ApplicationTables, SafeIsSound
  <2>4. QED
    BY <2>1, <2>3 DEF GroupSound
<1>6. DOMAIN SetupRouter = {"public", "setup", "onboarding", "protected", "internal"}
  BY DEF SetupRouter
<1>7. QED
  BY <1>1, <1>2, <1>3, <1>4, <1>5, <1>6

\* A careful handler is careful behind its middleware, and whether its row is there or not.
LEMMA ChainCareful ==
    ASSUME NEW chain \in Seq(Quiet), NEW steps \in Seq(StepShapes), NEW d \in BOOLEAN,
           Careful(steps, d, FALSE), NEW row \in BOOLEAN
    PROVE  /\ chain \o steps \in Seq(StepShapes) /\ Careful(chain \o steps, d, row)
           /\ \A i \in 1..Len(chain \o steps) :
                 \/ (chain \o steps)[i] \in Quiet
                 \/ \E k \in 1..Len(steps) : (chain \o steps)[i] = steps[k]
<1> DEFINE n == Len(chain)
<1> DEFINE all == chain \o steps
<1>1. n \in Nat /\ Len(steps) \in Nat /\ Len(all) = n + Len(steps)
  OBVIOUS
<1>2. \A i \in 1..n : all[i] = chain[i]
  OBVIOUS
<1>3. \A i \in 1..Len(all) : i > n => i - n \in 1..Len(steps) /\ all[i] = steps[i - n]
  OBVIOUS
<1>4. \A i \in 1..n : chain[i] \in Quiet
  OBVIOUS
<1>5. all \in Seq(StepShapes)
  <2>1. chain \in Seq(StepShapes)
    BY Kinds, SeqMonotonic
  <2>2. QED
    BY <2>1
<1> HIDE DEF n, all
<1>6. Careful(all, d, row)
  <2> SUFFICES ASSUME NEW i \in 1..Len(all), NEW j \in 1..Len(all), i < j, all[i] \notin Quiet
               PROVE  /\ ~refusing(all[j].refusals)
                      /\ refusing(all[j].gone) => ~d /\ (row \/ NeededRow(all, i))
    BY DEF Careful
  <2>1. i > n /\ j > n
    BY <1>1, <1>2, <1>4
  <2>2. /\ i - n \in 1..Len(steps) /\ all[i] = steps[i - n]
        /\ j - n \in 1..Len(steps) /\ all[j] = steps[j - n]
        /\ i - n < j - n
    BY <1>1, <1>3, <2>1
  <2>3. /\ ~refusing(all[j].refusals)
        /\ refusing(all[j].gone) => ~d /\ NeededRow(steps, i - n)
    BY <2>2 DEF Careful
  <2>4. ASSUME NeededRow(steps, i - n) PROVE NeededRow(all, i)
    <3>1. PICK m \in 1..(i - n) : steps[m].gone # {} /\ (m = i - n \/ ~steps[m].may)
      BY <2>4 DEF NeededRow
    <3>2. m + n \in 1..i /\ m + n \in 1..Len(all) /\ m + n > n /\ (m + n) - n = m
      BY <1>1, <2>2
    <3>3. all[m + n] = steps[m]
      BY <1>3, <3>2
    <3>4. m = i - n => m + n = i
      BY <1>1
    <3>5. QED
      BY <3>1, <3>2, <3>3, <3>4 DEF NeededRow
  <2>5. QED
    BY <2>3, <2>4
<1>7. \A i \in 1..Len(all) : all[i] \in Quiet \/ \E k \in 1..Len(steps) : all[i] = steps[k]
  <2> TAKE i \in 1..Len(all)
  <2>1. CASE i <= n
    BY <1>1, <1>2, <1>4, <2>1
  <2>2. CASE i > n
    BY <1>3, <2>2
  <2>3. QED
    BY <1>1, <2>1, <2>2
<1>8. QED
  BY <1>5, <1>6, <1>7 DEF all

-----------------------------------------------------------------------------
\* What an answer keeps: it is no refusal, or nothing was changed that matters.
LEMMA AnswerKeeps ==
    ASSUME EndpointsInv, ~Idle, NEW code \in StatusCodes, Answer(code), UNCHANGED epChanged,
           code \in 400..499 => epChanged \subseteq HarmlessTo(epRoute.handler)
    PROVE  EndpointsInv'
<1>1. /\ epTodo' = <<>> /\ epRoute' = epRoute /\ epRow' = epRow /\ epAnswer' = code
      /\ epAnswer = Pending
  BY DEF Answer, Idle
<1>2. /\ epRow \in BOOLEAN /\ epRoute.deletable \in BOOLEAN /\ "nothing" \notin epChanged
      /\ epRoute.ok \in StatusCodes
  BY DEF EndpointsInv, EndpointsTypeOK
<1>3. RefusalChangesNothing'
  <2> DEFINE allowed == {"snapshot", "default profile"}
                \cup (IF epRoute.handler = "RefreshReused" THEN {"refresh tokens"} ELSE {})
  <2>1. HarmlessTo(epRoute.handler) = allowed \cup {"nothing"}
    BY Zenon DEF HarmlessTo, Harmless
  <2>2. RefusalChangesNothing' <=> (epAnswer' \in 400..499 => epChanged' \subseteq allowed)
    BY <1>1, Zenon DEF RefusalChangesNothing
  <2> HIDE DEF allowed
  <2>3. code \in 400..499 => epChanged \subseteq allowed
    BY <1>2, <2>1
  <2>4. QED
    BY <1>1, <2>2, <2>3, Zenon
<1>4. epTodo' \in Seq(StepShapes) /\ Len(epTodo') = 0
  BY <1>1
<1>5. epRoute.ok \in 400..499 => epChanged \subseteq HarmlessTo(epRoute.handler)
  BY <1>1 DEF EndpointsInv
<1>6. EndpointsTypeOK'
  BY <1>1, <1>2 DEF EndpointsTypeOK, StatusCodes
<1>7. QED
  BY <1>1, <1>2, <1>3, <1>4, <1>5, <1>6 DEF EndpointsInv, Careful

\* A step of a careful handler that is done, or not needed, leaves a careful handler: what
\* it changed matters to no condition that is still to come.
LEMMA ProceedKeeps ==
    ASSUME EndpointsInv, ~Idle, epTodo # <<>>, NEW s, s = Head(epTodo),
           epChanged' \in {epChanged, Made(s)},
           s.gone # {} => epRow \/ (s.may /\ epChanged' = epChanged),
           epTodo' = Tail(epTodo), UNCHANGED <<epRoute, epRow, epAnswer>>
    PROVE  EndpointsInv'
<1> DEFINE d == epRoute.deletable
<1>1. /\ epRow \in BOOLEAN /\ epRoute.deletable \in BOOLEAN /\ epRoute.ok \in StatusCodes
      /\ "nothing" \notin epChanged /\ epAnswer = Pending /\ epTodo \in Seq(StepShapes)
  BY DEF EndpointsInv, EndpointsTypeOK, Idle
<1>2. /\ Careful(epTodo, d, epRow)
      /\ \A j \in 1..Len(epTodo) :
            /\ refusing(epTodo[j].refusals) => epChanged \subseteq Harmless
            /\ refusing(epTodo[j].gone) => epChanged \subseteq Harmless \/ (~d /\ epRow)
      /\ epRoute.ok \in 400..499 =>
            /\ epChanged \subseteq HarmlessTo(epRoute.handler)
            /\ \A i \in 1..Len(epTodo) : epTodo[i].change \in HarmlessTo(epRoute.handler)
  BY <1>1 DEF EndpointsInv
<1>3. /\ s = epTodo[1] /\ 1 \in 1..Len(epTodo) /\ s \in StepShapes
      /\ epTodo' \in Seq(StepShapes)
      /\ Len(epTodo') = Len(epTodo) - 1 /\ Len(epTodo) \in Nat
      /\ \A i \in 1..Len(epTodo') : i + 1 \in 1..Len(epTodo) /\ epTodo'[i] = epTodo[i + 1]
  BY <1>1, HeadTailProperties
<1>4. epChanged' \subseteq epChanged \cup {s.change} /\ "nothing" \notin epChanged'
  BY <1>1 DEF Made
<1>5. epChanged' = epChanged \/ epChanged' = epChanged \cup {s.change}
  BY <1>4 DEF Made
<1> HIDE DEF d
<1>6. Careful(epTodo', d, epRow)
  <2> SUFFICES ASSUME NEW i \in 1..Len(epTodo'), NEW j \in 1..Len(epTodo'), i < j,
                      epTodo'[i] \notin Quiet
               PROVE  /\ ~refusing(epTodo'[j].refusals)
                      /\ refusing(epTodo'[j].gone) => ~d /\ (epRow \/ NeededRow(epTodo', i))
    BY DEF Careful
  <2>1. /\ i + 1 \in 1..Len(epTodo) /\ epTodo'[i] = epTodo[i + 1]
        /\ j + 1 \in 1..Len(epTodo) /\ epTodo'[j] = epTodo[j + 1] /\ i + 1 < j + 1
    BY <1>3
  <2>2. /\ ~refusing(epTodo'[j].refusals)
        /\ refusing(epTodo'[j].gone) => ~d /\ (epRow \/ NeededRow(epTodo, i + 1))
    BY <1>2, <2>1 DEF Careful
  <2>3. ASSUME NeededRow(epTodo, i + 1) PROVE epRow \/ NeededRow(epTodo', i)
    <3>1. PICK m \in 1..(i + 1) : epTodo[m].gone # {} /\ (m = i + 1 \/ ~epTodo[m].may)
      BY <2>3 DEF NeededRow
    <3>2. CASE m = 1
      BY <1>3, <3>1, <3>2
    <3>3. CASE m > 1
      <4>1. m - 1 \in 1..i /\ m - 1 \in 1..Len(epTodo') /\ (m - 1) + 1 = m
        BY <1>3, <3>3
      <4>2. epTodo'[m - 1] = epTodo[m] /\ (m = i + 1 => m - 1 = i)
        BY <1>3, <4>1
      <4>3. QED
        BY <3>1, <4>1, <4>2 DEF NeededRow
    <3>4. QED
      BY <3>2, <3>3
  <2>4. QED
    BY <2>2, <2>3
<1>7. ASSUME NEW j \in 1..Len(epTodo')
      PROVE  /\ refusing(epTodo'[j].refusals) => epChanged' \subseteq Harmless
             /\ refusing(epTodo'[j].gone) => epChanged' \subseteq Harmless \/ (~d /\ epRow)
  <2>1. j + 1 \in 1..Len(epTodo) /\ epTodo'[j] = epTodo[j + 1] /\ 1 < j + 1
    BY <1>3
  <2>2. /\ refusing(epTodo'[j].refusals) => s \in Quiet /\ epChanged \subseteq Harmless
        /\ refusing(epTodo'[j].gone) =>
              /\ s \in Quiet \/ (~d /\ (epRow \/ NeededRow(epTodo, 1)))
              /\ epChanged \subseteq Harmless \/ (~d /\ epRow)
    BY <1>2, <1>3, <2>1 DEF Careful
  <2>3. s \in Quiet => s.change \in Harmless
    BY DEF Quiet
  <2>4. NeededRow(epTodo, 1) => s.gone # {}
    BY <1>3 DEF NeededRow
  <2>5. QED
    BY <1>4, <2>2, <2>3, <2>4
<1>8. ASSUME epRoute.ok \in 400..499
      PROVE  /\ epChanged' \subseteq HarmlessTo(epRoute.handler)
             /\ \A i \in 1..Len(epTodo') : epTodo'[i].change \in HarmlessTo(epRoute.handler)
  BY <1>2, <1>3, <1>4, <1>8
<1>9. RefusalChangesNothing'
  <2>1. epAnswer' = Pending /\ Pending \notin 400..499
    BY <1>1 DEF Pending
  <2>2. QED
    BY <2>1 DEF RefusalChangesNothing
<1>10. EndpointsTypeOK'
  BY <1>1, <1>4 DEF EndpointsTypeOK, Idle
<1>11. QED
  BY <1>1, <1>3, <1>6, <1>7, <1>8, <1>9, <1>10 DEF EndpointsInv, d

\* What the handler's own step does: it goes on, or it answers.
LEMMA HandleKeeps ==
    ASSUME EndpointsInv, Handle
    PROVE  EndpointsInv'
<1>1. PICK s : s = Head(epTodo) /\ (Proceed(s) \/ Refused(s) \/ Gone(s) \/ Fails(s))
  BY DEF Handle
<1>2. ~Idle /\ epTodo # <<>>
  BY DEF Handle
<1>3. /\ epTodo \in Seq(StepShapes) /\ epAnswer = Pending /\ "nothing" \notin epChanged
      /\ epRow \in BOOLEAN /\ epRoute.deletable \in BOOLEAN /\ epRoute.ok \in StatusCodes
      /\ \A j \in 1..Len(epTodo) :
            /\ refusing(epTodo[j].refusals) => epChanged \subseteq Harmless
            /\ refusing(epTodo[j].gone) =>
                  epChanged \subseteq Harmless \/ (~epRoute.deletable /\ epRow)
  BY <1>2 DEF EndpointsInv, EndpointsTypeOK, Idle
<1>4. s = epTodo[1] /\ 1 \in 1..Len(epTodo) /\ s \in StepShapes
  BY <1>1, <1>2, <1>3, HeadTailProperties
<1>5. /\ s.refusals \in SUBSET StatusCodes /\ s.gone \in SUBSET StatusCodes /\ s.error \in SUBSET Errors
      /\ s.gone # {} => s.error = {500}
  <2>1. /\ s.refusals \in Codes /\ s.gone \in Codes /\ s.error \in SUBSET Errors
        /\ s.gone # {} => s.error = {500}
    BY <1>4 DEF StepShapes, StepRecords
  <2>2. \A codes \in Codes : codes \in SUBSET StatusCodes
    BY DEF Codes, StatusCodes
  <2>3. QED
    BY <2>1, <2>2
<1>6. Harmless \subseteq HarmlessTo(epRoute.handler)
  BY DEF HarmlessTo
<1>7. CASE Proceed(s)
  <2>1. /\ epChanged' \in {epChanged, Made(s)} /\ epTodo' = Tail(epTodo)
        /\ s.gone # {} => epRow \/ (s.may /\ epChanged' = epChanged)
        /\ UNCHANGED <<epRoute, epRow, epAnswer>>
    BY <1>7 DEF Proceed
  <2>2. QED
    BY <1>1, <1>2, <2>1, ProceedKeeps
<1>8. CASE Refused(s)
  <2>1. PICK code \in s.refusals : Answer(code)
    BY <1>8 DEF Refused
  <2>2. UNCHANGED epChanged
    BY <1>8 DEF Refused
  <2>3. code \in StatusCodes /\ (code \in 400..499 => refusing(s.refusals))
    BY <1>5 DEF refusing
  <2>4. code \in 400..499 => epChanged \subseteq HarmlessTo(epRoute.handler)
    BY <1>3, <1>4, <1>6, <2>3
  <2>5. QED
    BY <1>2, <2>1, <2>2, <2>3, <2>4, AnswerKeeps
<1>9. CASE Gone(s)
  <2>1. PICK code \in s.gone : Answer(code)
    BY <1>9 DEF Gone
  <2>2. ~epRow /\ UNCHANGED epChanged
    BY <1>9 DEF Gone
  <2>3. code \in StatusCodes /\ (code \in 400..499 => refusing(s.gone))
    BY <1>5 DEF refusing
  <2>4. code \in 400..499 => epChanged \subseteq HarmlessTo(epRoute.handler)
    BY <1>3, <1>4, <1>6, <2>2, <2>3
  <2>5. QED
    BY <1>2, <2>1, <2>2, <2>3, <2>4, AnswerKeeps
<1>10. CASE Fails(s)
  <2>1. PICK code \in s.error : IF code = Continue
                                THEN epTodo' = Tail(epTodo) /\ UNCHANGED <<epRoute, epRow, epAnswer>>
                                ELSE Answer(code)
    BY <1>10 DEF Fails
  <2>2. epChanged' \in {epChanged, Made(s)}
    BY <1>10 DEF Fails
  <2>3. CASE code = Continue
    <3>1. s.gone = {}
      BY <1>5, <2>3 DEF Continue
    <3>2. QED
      BY <1>1, <1>2, <2>1, <2>2, <2>3, <3>1, ProceedKeeps
  <2>4. CASE code # Continue
    <3>1. /\ epAnswer' = code /\ epTodo' = <<>> /\ epRow' = epRow
      BY <2>1, <2>4 DEF Answer
    <3>2. code \in {0, 200, 202, 207, 500}
      BY <1>5, <2>4 DEF Errors, NoAnswer
    <3>3. epAnswer' # Pending /\ epAnswer' \notin 400..499 /\ epAnswer' \in StatusCodes
      <4>1. code # Pending /\ code \notin 400..499
        BY <3>2 DEF Pending
      <4>2. code = 0 \/ code \in 200..599
        BY <3>2
      <4>3. QED
        BY <3>1, <4>1, <4>2 DEF StatusCodes, NoAnswer
    <3>4. "nothing" \notin epChanged'
      BY <1>3, <2>2 DEF Made
    <3>5. epRoute' = epRoute
      BY <2>1, <2>4 DEF Answer
    <3>6. EndpointsTypeOK'
      BY <1>3, <3>1, <3>3, <3>4, <3>5 DEF EndpointsTypeOK, StatusCodes
    <3>7. QED
      BY <1>3, <3>1, <3>3, <3>5, <3>6 DEF EndpointsInv, RefusalChangesNothing
  <2>5. QED
    BY <2>3, <2>4
<1>11. QED
  BY <1>1, <1>7, <1>8, <1>9, <1>10

\* A new request has a sound handler to go through, and has changed nothing.
LEMMA RequestKeeps ==
    ASSUME EndpointsInv, HandleRequest
    PROVE  EndpointsInv'
<1> DEFINE Takes(g, table, h) ==
        /\ epRoute' = [handler |-> h, deletable |-> table \in Deletable, ok |-> table[h].ok]
        /\ epTodo' = SetupRouter[g].chain \o table[h].steps
<1>a. PICK g \in DOMAIN SetupRouter :
          \E table \in SetupRouter[g].tables : \E h \in DOMAIN table : Takes(g, table, h)
  BY DEF HandleRequest
<1>b. PICK table \in SetupRouter[g].tables : \E h \in DOMAIN table : Takes(g, table, h)
  BY <1>a
<1>1. PICK h \in DOMAIN table : Takes(g, table, h)
  BY <1>b
<1>2. epRow' \in BOOLEAN /\ epChanged' = {} /\ epAnswer' = Pending
  BY DEF HandleRequest
<1>3. PICK chain : chain = SetupRouter[g].chain
  OBVIOUS
<1>4. PICK d : d = (table \in Deletable)
  OBVIOUS
<1>5. PICK r : r = table[h]
  OBVIOUS
<1>6. chain \in Seq(Quiet) /\ TableSound(table, d)
  BY <1>3, <1>4, GroupsSound DEF GroupSound
<1>7. /\ r.steps \in Seq(StepShapes) /\ Careful(r.steps, d, FALSE) /\ r.ok \in StatusCodes
      /\ r.ok \in 400..499 => \A i \in 1..Len(r.steps) : r.steps[i].change \in HarmlessTo(h)
  BY <1>5, <1>6 DEF TableSound, RouteSound
<1>8. /\ epTodo' = chain \o r.steps /\ epRoute'.handler = h /\ epRoute'.deletable = d
      /\ epRoute'.ok = r.ok /\ d \in BOOLEAN
  BY <1>1, <1>3, <1>4, <1>5
<1>9. /\ epTodo' \in Seq(StepShapes) /\ Careful(epTodo', d, epRow')
      /\ \A i \in 1..Len(epTodo') :
            epTodo'[i] \in Quiet \/ \E k \in 1..Len(r.steps) : epTodo'[i] = r.steps[k]
  <2>1. PICK row : row = epRow' /\ row \in BOOLEAN
    BY <1>2
  <2>2. PICK steps : steps = r.steps
    OBVIOUS
  <2>3. /\ chain \o steps \in Seq(StepShapes) /\ Careful(chain \o steps, d, row)
        /\ \A i \in 1..Len(chain \o steps) :
              \/ (chain \o steps)[i] \in Quiet
              \/ \E k \in 1..Len(steps) : (chain \o steps)[i] = steps[k]
    <3>1. chain \in Seq(Quiet) /\ d \in BOOLEAN
      BY <1>6, <1>8
    <3>2. steps \in Seq(StepShapes) /\ Careful(steps, d, FALSE)
      BY <1>7, <2>2
    <3>3. QED
      BY <2>1, <3>1, <3>2, ChainCareful
  <2>4. QED
    BY <1>8, <2>1, <2>2, <2>3
<1>10. ASSUME r.ok \in 400..499, NEW i \in 1..Len(epTodo')
       PROVE  epTodo'[i].change \in HarmlessTo(h)
  <2>1. CASE epTodo'[i] \in Quiet
    BY <2>1 DEF Quiet, HarmlessTo
  <2>2. CASE \E k \in 1..Len(r.steps) : epTodo'[i] = r.steps[k]
    BY <1>7, <1>10, <2>2
  <2>3. QED
    BY <1>9, <2>1, <2>2
<1>11. RefusalChangesNothing'
  BY <1>2 DEF RefusalChangesNothing
<1>12. EndpointsTypeOK'
  BY <1>2, <1>8 DEF EndpointsTypeOK, Idle
<1>13. QED
  BY <1>2, <1>7, <1>8, <1>9, <1>10, <1>11, <1>12 DEF EndpointsInv

\* What a request has still to do fits what it has done.
LEMMA EndpointsInvariant == EndpointsSpec => []EndpointsInv
<1>1. EndpointsInit => EndpointsInv
  <2>1. NoAnswer # Pending /\ NoAnswer \notin 400..499 /\ NoAnswer \in StatusCodes
    BY DEF NoAnswer, Pending, StatusCodes
  <2> SUFFICES ASSUME EndpointsInit PROVE EndpointsInv
    OBVIOUS
  <2>2. epRoute.deletable \in BOOLEAN /\ epRoute.ok = NoAnswer
    BY DEF EndpointsInit
  <2>3. /\ epRow \in BOOLEAN /\ epTodo = <<>> /\ "nothing" \notin epChanged
        /\ epAnswer = NoAnswer
    BY DEF EndpointsInit
  <2>4. EndpointsTypeOK
    BY <2>2, <2>3 DEF EndpointsTypeOK
  <2>5. QED
    BY <2>1, <2>2, <2>3, <2>4 DEF EndpointsInv, RefusalChangesNothing
<1>2. EndpointsInv /\ [EndpointsNext]_epVars => EndpointsInv'
  <2> SUFFICES ASSUME EndpointsInv, [EndpointsNext]_epVars
               PROVE  EndpointsInv'
    OBVIOUS
  <2>1. CASE HandleRequest
    BY <2>1, RequestKeeps
  <2>2. CASE Handle
    BY <2>2, HandleKeeps
  <2>3. CASE GiveAnswer
    <3>1. ~Idle /\ Answer(epRoute.ok) /\ UNCHANGED epChanged
      BY <2>3 DEF GiveAnswer
    <3>2. /\ epRoute.ok \in StatusCodes
          /\ epRoute.ok \in 400..499 => epChanged \subseteq HarmlessTo(epRoute.handler)
      BY <3>1 DEF EndpointsInv, Idle
    <3>3. QED
      BY <3>1, <3>2, AnswerKeeps
  <2>4. CASE RowDeleted
    <3>1. /\ epRoute.deletable /\ epRow' = FALSE
          /\ UNCHANGED <<epRoute, epTodo, epChanged, epAnswer>>
      BY <2>4 DEF RowDeleted
    <3>2. ASSUME Careful(epTodo, epRoute.deletable, epRow)
          PROVE  Careful(epTodo, epRoute.deletable, FALSE)
      BY <3>1, <3>2 DEF Careful
    <3>3. RefusalChangesNothing'
      BY <3>1 DEF RefusalChangesNothing, EndpointsInv
    <3>4. EndpointsTypeOK'
      BY <3>1 DEF EndpointsInv, EndpointsTypeOK, Idle
    <3>5. QED
      BY <3>1, <3>2, <3>3, <3>4 DEF EndpointsInv
  <2>5. CASE Killed
    <3>1. ~Idle /\ Answer(NoAnswer) /\ UNCHANGED epChanged
      BY <2>5 DEF Killed
    <3>2. NoAnswer \in StatusCodes /\ NoAnswer \notin 400..499
      BY DEF NoAnswer, StatusCodes
    <3>3. QED
      BY <3>1, <3>2, AnswerKeeps
  <2>6. CASE UNCHANGED epVars
    <3>1. /\ epRoute' = epRoute /\ epTodo' = epTodo /\ epRow' = epRow
          /\ epChanged' = epChanged /\ epAnswer' = epAnswer
      BY <2>6 DEF epVars
    <3>2. RefusalChangesNothing'
      BY <3>1, ZenonT(40) DEF EndpointsInv, RefusalChangesNothing, Idle, Answer
    <3>3. EndpointsTypeOK'
      <4>1. EndpointsTypeOK
        BY DEF EndpointsInv
      <4>2. Idle' => Idle
        BY <3>1 DEF Idle
      <4>3. epRow' \in BOOLEAN /\ epRoute'.deletable \in BOOLEAN
        BY <3>1, <4>1, ZenonT(20) DEF EndpointsTypeOK
      <4>4. /\ epAnswer' \in {NoAnswer, Pending} \union 200..599
            /\ Idle' => epTodo' = <<>>
            /\ "nothing" \notin epChanged'
        BY <3>1, <4>1, <4>2, ZenonT(20) DEF EndpointsTypeOK
      <4>5. QED
        BY <4>3, <4>4 DEF EndpointsTypeOK
    <3>4. QED
      BY <3>1, <3>2, <3>3 DEF EndpointsInv
  <2>7. QED
    BY <2>1, <2>2, <2>3, <2>4, <2>5, <2>6 DEF EndpointsNext
<1>3. QED
  BY <1>1, <1>2, PTL DEF EndpointsSpec

\* A request that is refused has changed nothing, whichever of the routes it is for, and
\* whatever happens to the row it names while its handler runs.
THEOREM RefusalsChangeNothing == EndpointsSpec => []RefusalChangesNothing
<1>1. EndpointsInv => RefusalChangesNothing
  BY DEF EndpointsInv
<1>2. QED
  BY <1>1, EndpointsInvariant, PTL

\* Every request is answered with a code there is, and the steps of one that is answered
\* are not gone on with.
THEOREM EndpointsType == EndpointsSpec => []EndpointsTypeOK
<1>1. EndpointsInv => EndpointsTypeOK
  BY DEF EndpointsInv
<1>2. QED
  BY <1>1, EndpointsInvariant, PTL

-----------------------------------------------------------------------------
\* Account: Account.tla.

\* Before the setup's insert nothing has been handed out, and nothing but a
\* setup is under way.
SetupInv == accRow = NoUser =>
    /\ accCache = NoUser /\ accAccess = {}
    /\ \A t \in ResetTokens : accReset[t] = "free"
    /\ \A t \in RefreshTokens : accRefresh[t] = FreeToken
    /\ \A r \in Requests : accReq[r].pc \in {"idle", "insert"}

\* The copy is never ahead of the row.
VersionInv == accCache # NoUser => accRow # NoUser /\ accCache.ver <= accRow.ver

\* What a setup is about to cache is the row, or the copy is known to be stale.
CacheInv == ~accStale =>
    /\ accCache \in {accRow, NoUser}
    /\ \A r \in Requests : at(r, "cache") => accRow = [hash |-> accReq[r].hash, ver |-> 1]

\* A request that will issue a token was verified against the present password,
\* or has been overtaken by a change of it.
LoginInv == \A r \in Requests :
    accReq[r].pc \in {"rotate", "issue"} => accReq[r].crossed \/ accReq[r].proof = accRow.hash

\* A token is paid for by its claim: one request at most is about to use it, and
\* then it has not been used.
Using(r, t) == at(r, "update") /\ accReq[r].token = t
ResetInv == \A t \in ResetTokens :
    /\ accResetUses[t] <= 1
    /\ accResetUses[t] = 1 => accReset[t] = "used"
    /\ \A r \in Requests : Using(r, t) => accReset[t] = "used" /\ accResetUses[t] = 0
    /\ \A r, q \in Requests : Using(r, t) /\ Using(q, t) => r = q

AccountInv == AccountTypeOK /\ SetupInv /\ VersionInv /\ CacheInv /\ LoginInv
    /\ SessionsFollowThePassword /\ ResetInv

-----------------------------------------------------------------------------
\* What a request holds at each of its steps.
LEMMA Shapes ==
    ASSUME NEW q \in AccRequests
    PROVE  /\ q.pc \in {"idle", "insert", "cache", "rotate", "issue", "claim", "update",
                        "store", "revoke", "increment"}
           /\ q.pc = "idle" => q = RequestIdle
           /\ q.pc \in {"insert", "cache"} => q \in [pc : {"insert", "cache"}, hash : Passwords]
           /\ q.pc = "rotate" => q \in [pc : {"rotate"}, token : RefreshTokens, proof : Passwords, crossed : BOOLEAN]
           /\ q.pc = "issue" => q \in [pc : {"issue"}, proof : Passwords, crossed : BOOLEAN]
           /\ q.pc = "claim" => q \in [pc : {"claim"}, token : ResetTokens, hash : Passwords]
           /\ q.pc = "update" => q \in [pc : {"update"}, token : ResetTokens \cup {NoToken}, hash : Passwords]
BY DEF AccRequests, RequestIdle

\* The initial state satisfies the invariant.
LEMMA InitI == AccountInit => AccountInv
<1> SUFFICES ASSUME AccountInit PROVE AccountInv
  OBVIOUS
<1> USE DEF AccountInit
<1>1. \A r \in Requests : accReq[r] = RequestIdle /\ accReq[r].pc = "idle"
  BY DEF RequestIdle
<1>2. AccountTypeOK
  BY DEF AccountTypeOK, AccRequests
<1>3. SetupInv
  BY <1>1 DEF SetupInv
<1>4. CacheInv
  BY <1>1 DEF CacheInv, at
<1>5. LoginInv
  BY <1>1 DEF LoginInv
<1>6. SessionsFollowThePassword
  BY DEF SessionsFollowThePassword, FreeToken
<1>7. ResetInv
  BY <1>1 DEF ResetInv, Using, at
<1>8. VersionInv
  BY DEF VersionInv
<1>9. QED
  BY <1>2, <1>3, <1>4, <1>5, <1>6, <1>7, <1>8 DEF AccountInv

-----------------------------------------------------------------------------
\* A setup that has found no user holds its password only.
LEMMA CompleteSetupKeeps ==
    ASSUME AccountInv, NEW r \in Requests, NEW p \in Passwords, CompleteSetup(r, p)
    PROVE  AccountInv'
<1> USE DEF CompleteSetup, idle, at, setRequest
<1>1. /\ AccountTypeOK /\ SetupInv /\ VersionInv /\ CacheInv /\ LoginInv
      /\ SessionsFollowThePassword /\ ResetInv
  BY DEF AccountInv
<1>2. \A q \in Requests : accReq[q] \in AccRequests
  BY <1>1 DEF AccountTypeOK
<1>3. AccountTypeOK'
  BY <1>1 DEF AccountTypeOK, AccRequests, RequestIdle
<1>4. SetupInv'
  BY <1>1 DEF SetupInv
<1>5. VersionInv'
  BY <1>1 DEF VersionInv
<1>6. CacheInv'
  BY <1>1 DEF CacheInv
<1>7. LoginInv'
  BY <1>1 DEF LoginInv
<1>8. SessionsFollowThePassword'
  BY <1>1 DEF SessionsFollowThePassword, changing
<1>9. ResetInv'
  BY <1>1 DEF ResetInv, Using
<1>10. QED
  BY <1>3, <1>4, <1>5, <1>6, <1>7, <1>8, <1>9 DEF AccountInv

\* The insert makes the row while nothing else has been handed out.
LEMMA CreateAdminUserKeeps ==
    ASSUME AccountInv, NEW r \in Requests, CreateAdminUser(r)
    PROVE  AccountInv'
<1> USE DEF CreateAdminUser, idle, at, setRequest
<1>1. /\ AccountTypeOK /\ SetupInv /\ VersionInv /\ CacheInv /\ LoginInv
      /\ SessionsFollowThePassword /\ ResetInv
  BY DEF AccountInv
<1>2. \A q \in Requests : accReq[q] \in AccRequests
  BY <1>1 DEF AccountTypeOK
<1>3. AccountTypeOK'
  BY <1>1, <1>2, TokensAssumption DEF AccountTypeOK, UserRows, RefreshRows, AccRequests, RequestIdle
<1>4. SetupInv'
  BY <1>1, <1>2, Shapes DEF SetupInv, RequestIdle, NoUser, UserRows, AccountTypeOK
<1>5. VersionInv'
  BY <1>1 DEF VersionInv
<1>6. CacheInv'
  <2>1. CASE accRow = NoUser
    <3>1. accReq[r] \in [pc : {"insert", "cache"}, hash : Passwords]
      BY <1>2, Shapes
    <3>2. accReq'[r].hash = accReq[r].hash
      BY <1>1, <2>1, <3>1 DEF AccountTypeOK
    <3>3. \A q \in Requests \ {r} : accReq'[q].pc # "cache"
      BY <1>1, <2>1 DEF SetupInv, AccountTypeOK
    <3>4. QED
      BY <1>1, <2>1, <3>2, <3>3 DEF CacheInv, SetupInv
  <2>2. CASE accRow # NoUser
    BY <1>1, <1>2, <2>2 DEF CacheInv, AccountTypeOK, RequestIdle
  <2>3. QED
    BY <2>1, <2>2
<1>7. LoginInv'
  <2>1. CASE accRow = NoUser
    <3>1. accReq[r] \in [pc : {"insert", "cache"}, hash : Passwords]
      BY <1>2, Shapes
    <3>2. accReq'[r].pc = "cache"
      BY <1>1, <2>1, <3>1 DEF AccountTypeOK
    <3>3. \A q \in Requests \ {r} : accReq'[q].pc \in {"idle", "insert"}
      BY <1>1, <2>1 DEF SetupInv, AccountTypeOK
    <3>4. QED
      BY <3>2, <3>3 DEF LoginInv
  <2>2. CASE accRow # NoUser
    BY <1>1, <1>2, <2>2 DEF LoginInv, AccountTypeOK, RequestIdle
  <2>3. QED
    BY <2>1, <2>2
<1>8. SessionsFollowThePassword'
  <2>1. CASE accRow = NoUser
    BY <1>1, <2>1 DEF SessionsFollowThePassword, SetupInv, FreeToken
  <2>2. CASE accRow # NoUser
    BY <1>1, <1>2, <2>2 DEF SessionsFollowThePassword, AccountTypeOK, changing
  <2>3. QED
    BY <2>1, <2>2
<1>9. ResetInv'
  BY <1>1, <1>2, Shapes DEF ResetInv, Using, RequestIdle, AccountTypeOK
<1>10. QED
  BY <1>3, <1>4, <1>5, <1>6, <1>7, <1>8, <1>9 DEF AccountInv

\* The setup's copy is the row, or known to be stale.
LEMMA CacheAdminUserKeeps ==
    ASSUME AccountInv, NEW r \in Requests, CacheAdminUser(r)
    PROVE  AccountInv'
<1> USE DEF CacheAdminUser, idle, at, setRequest
<1>1. /\ AccountTypeOK /\ SetupInv /\ VersionInv /\ CacheInv /\ LoginInv
      /\ SessionsFollowThePassword /\ ResetInv
  BY DEF AccountInv
<1>2. \A q \in Requests : accReq[q] \in AccRequests
  BY <1>1 DEF AccountTypeOK
<1>3. AccountTypeOK'
  BY <1>1, <1>2, TokensAssumption DEF AccountTypeOK, UserRows, RefreshRows, AccRequests, RequestIdle
<1>4. SetupInv'
  BY <1>1 DEF SetupInv
<1>5. VersionInv'
  BY <1>1, <1>2 DEF VersionInv, SetupInv, UserRows, NoUser, RequestIdle, AccountTypeOK
<1>6. CacheInv'
  BY <1>1 DEF CacheInv, RequestIdle, AccountTypeOK
<1>7. LoginInv'
  BY <1>1, <1>2 DEF LoginInv, CacheInv, RequestIdle, AccountTypeOK
<1>8. SessionsFollowThePassword'
  BY <1>1 DEF SessionsFollowThePassword, changing
<1>9. ResetInv'
  BY <1>1 DEF ResetInv, Using, RequestIdle, AccountTypeOK
<1>10. QED
  BY <1>3, <1>4, <1>5, <1>6, <1>7, <1>8, <1>9 DEF AccountInv

\* A login may load the copy, and was verified against the row unless that was stale.
LEMMA LoginKeeps ==
    ASSUME AccountInv, NEW r \in Requests, NEW p \in Passwords, Login(r, p)
    PROVE  AccountInv'
<1> USE DEF Login, loadUser, user, idle, at, setRequest
<1>1. /\ AccountTypeOK /\ SetupInv /\ VersionInv /\ CacheInv /\ LoginInv
      /\ SessionsFollowThePassword /\ ResetInv
  BY DEF AccountInv
<1>2. \A q \in Requests : accReq[q] \in AccRequests
  BY <1>1 DEF AccountTypeOK
<1>3. AccountTypeOK'
  BY <1>1 DEF AccountTypeOK, AccRequests, RequestIdle
<1>4. SetupInv'
  BY <1>1 DEF SetupInv
<1>5. VersionInv'
  BY <1>1, <1>2 DEF VersionInv, SetupInv, UserRows, NoUser, RequestIdle, AccountTypeOK
<1>6. CacheInv'
  BY <1>1 DEF CacheInv
<1>7. LoginInv'
  BY <1>1 DEF LoginInv, CacheInv, AccountTypeOK
<1>8. SessionsFollowThePassword'
  BY <1>1 DEF SessionsFollowThePassword, changing
<1>9. ResetInv'
  BY <1>1 DEF ResetInv, Using
<1>10. QED
  BY <1>3, <1>4, <1>5, <1>6, <1>7, <1>8, <1>9 DEF AccountInv

\* A rotation inherits what its token was verified for; a reused token ends all sessions.
LEMMA RefreshKeeps ==
    ASSUME AccountInv, NEW r \in Requests, NEW t \in RefreshTokens, Refresh(r, t)
    PROVE  AccountInv'
<1> USE DEF Refresh, RevokeAllRefreshTokens, idle, at, setRequest
<1>1. /\ AccountTypeOK /\ SetupInv /\ VersionInv /\ CacheInv /\ LoginInv
      /\ SessionsFollowThePassword /\ ResetInv
  BY DEF AccountInv
<1>2. \A q \in Requests : accReq[q] \in AccRequests
  BY <1>1 DEF AccountTypeOK
<1>3. AccountTypeOK'
  <2>1. CASE accRefresh[t].at = "revoked"
    <3>1. \A u \in RefreshTokens : accRefresh'[u] \in RefreshRows \cup {FreeToken}
      BY <1>1, <2>1 DEF AccountTypeOK, RefreshRows
    <3>2. accRefresh' \in [RefreshTokens -> RefreshRows \cup {FreeToken}]
      BY <2>1, <3>1
    <3>3. accCut' \in BOOLEAN
      BY <2>1
    <3>4. UNCHANGED <<accRow, accCache, accReset, accAccess, accReq, accResetUses, accStale>>
      BY <2>1
    <3>5. QED
      BY <1>1, <3>2, <3>3, <3>4 DEF AccountTypeOK
  <2>2. CASE accRefresh[t].at = "active"
    <3>1. accRefresh[t] \in [at : {"active"}, proof : Passwords, crossed : BOOLEAN]
      BY <1>1, <2>2 DEF AccountTypeOK, RefreshRows, FreeToken
    <3>2. changing \in BOOLEAN
      BY <1>1 DEF changing, AccountTypeOK
    <3>3. (accRefresh[t].crossed \/ changing) \in BOOLEAN
      OBVIOUS
    <3>4. [pc |-> "rotate", token |-> t, proof |-> accRefresh[t].proof,
           crossed |-> accRefresh[t].crossed \/ changing] \in AccRequests
      BY <3>1, <3>3 DEF AccRequests
    <3>5. QED
      BY <1>1, <2>2, <3>4 DEF AccountTypeOK
  <2>3. QED
    BY <2>1, <2>2
<1>4. SetupInv'
  BY <1>1, <1>2, Shapes DEF SetupInv, FreeToken, RequestIdle, AccountTypeOK
<1>5. VersionInv'
  BY <1>1 DEF VersionInv
<1>6. CacheInv'
  BY <1>1 DEF CacheInv, AccountTypeOK
<1>7. LoginInv'
  <2>1. CASE accRefresh[t].at = "revoked"
    BY <1>1, <1>2, <2>1 DEF LoginInv
  <2>2. CASE accRefresh[t].at = "active"
    <3>1. accRefresh[t] \in [at : {"active"}, proof : Passwords, crossed : BOOLEAN]
      BY <1>1, <2>2 DEF AccountTypeOK, RefreshRows, FreeToken
    <3>2. (accRefresh[t].crossed \/ changing) \/ accRefresh[t].proof = accRow.hash
      BY <1>1, <2>2 DEF SessionsFollowThePassword
    <3>3. /\ accReq' = [accReq EXCEPT ![r] = [pc |-> "rotate", token |-> t,
                 proof |-> accRefresh[t].proof, crossed |-> accRefresh[t].crossed \/ changing]]
          /\ UNCHANGED accRow
      BY <2>2
    <3>4. accReq \in [Requests -> AccRequests]
      BY <1>1 DEF AccountTypeOK
    <3>5. QED
      BY <1>1, <3>2, <3>3, <3>4 DEF LoginInv
  <2>3. QED
    BY <2>1, <2>2
<1>8. SessionsFollowThePassword'
  BY <1>1 DEF SessionsFollowThePassword, changing, AccountTypeOK
<1>9. ResetInv'
  BY <1>1 DEF ResetInv, Using, AccountTypeOK
<1>10. QED
  BY <1>3, <1>4, <1>5, <1>6, <1>7, <1>8, <1>9 DEF AccountInv

\* The rotation's revocation takes one token out of use.
LEMMA RevokeRefreshTokenKeeps ==
    ASSUME AccountInv, NEW r \in Requests, RevokeRefreshToken(r)
    PROVE  AccountInv'
<1> USE DEF RevokeRefreshToken, idle, at, setRequest
<1>1. /\ AccountTypeOK /\ SetupInv /\ VersionInv /\ CacheInv /\ LoginInv
      /\ SessionsFollowThePassword /\ ResetInv
  BY DEF AccountInv
<1>2. \A q \in Requests : accReq[q] \in AccRequests
  BY <1>1 DEF AccountTypeOK
<1>3. AccountTypeOK'
  BY <1>1, <1>2 DEF AccountTypeOK, UserRows, RefreshRows, AccRequests, RequestIdle
<1>4. SetupInv'
  BY <1>1 DEF SetupInv
<1>5. VersionInv'
  BY <1>1 DEF VersionInv
<1>6. CacheInv'
  BY <1>1 DEF CacheInv
<1>7. LoginInv'
  BY <1>1 DEF LoginInv
<1>8. SessionsFollowThePassword'
  BY <1>1 DEF SessionsFollowThePassword, changing
<1>9. ResetInv'
  BY <1>1 DEF ResetInv, Using
<1>10. QED
  BY <1>3, <1>4, <1>5, <1>6, <1>7, <1>8, <1>9 DEF AccountInv

\* The new refresh token is as good as the request that issues it.
LEMMA IssueTokensKeeps ==
    ASSUME AccountInv, NEW r \in Requests, IssueTokens(r)
    PROVE  AccountInv'
<1> USE DEF IssueTokens, loadUser, user, idle, at, setRequest
<1>1. /\ AccountTypeOK /\ SetupInv /\ VersionInv /\ CacheInv /\ LoginInv
      /\ SessionsFollowThePassword /\ ResetInv
  BY DEF AccountInv
<1>2. \A q \in Requests : accReq[q] \in AccRequests
  BY <1>1 DEF AccountTypeOK
<1>3. AccountTypeOK'
  BY <1>1, <1>2, Shapes DEF AccountTypeOK, UserRows, RefreshRows, AccRequests, RequestIdle
<1>4. SetupInv'
  BY <1>1 DEF SetupInv
<1>5. VersionInv'
  BY <1>1, <1>2 DEF VersionInv, SetupInv, UserRows, NoUser, RequestIdle, AccountTypeOK
<1>6. CacheInv'
  BY <1>1 DEF CacheInv, RequestIdle, AccountTypeOK
<1>7. LoginInv'
  BY <1>1, <1>2 DEF LoginInv, CacheInv, RequestIdle, AccountTypeOK
<1>8. SessionsFollowThePassword'
  BY <1>1 DEF SessionsFollowThePassword, changing, LoginInv, AccountTypeOK
<1>9. ResetInv'
  BY <1>1 DEF ResetInv, Using, RequestIdle, AccountTypeOK
<1>10. QED
  BY <1>3, <1>4, <1>5, <1>6, <1>7, <1>8, <1>9 DEF AccountInv

\* A logout leaves no active token.
LEMMA LogoutKeeps ==
    ASSUME AccountInv, NEW r \in Requests, Logout(r)
    PROVE  AccountInv'
<1> USE DEF Logout, RevokeAllRefreshTokens, AuthMiddleware, idle, at, setRequest
<1>1. /\ AccountTypeOK /\ SetupInv /\ VersionInv /\ CacheInv /\ LoginInv
      /\ SessionsFollowThePassword /\ ResetInv
  BY DEF AccountInv
<1>2. \A q \in Requests : accReq[q] \in AccRequests
  BY <1>1 DEF AccountTypeOK
<1>3. AccountTypeOK'
  BY <1>1, <1>2 DEF AccountTypeOK, UserRows, RefreshRows, AccRequests, RequestIdle
<1>4. SetupInv'
  BY <1>1 DEF SetupInv
<1>5. VersionInv'
  BY <1>1 DEF VersionInv
<1>6. CacheInv'
  BY <1>1 DEF CacheInv
<1>7. LoginInv'
  BY <1>1 DEF LoginInv
<1>8. SessionsFollowThePassword'
  BY <1>1 DEF SessionsFollowThePassword, changing
<1>9. ResetInv'
  BY <1>1 DEF ResetInv, Using
<1>10. QED
  BY <1>3, <1>4, <1>5, <1>6, <1>7, <1>8, <1>9 DEF AccountInv

\* The row and its copy are raised together, below the bound.
LEMMA IncrementSessionVersionKeeps ==
    ASSUME AccountInv, NEW r \in Requests, IncrementSessionVersion(r)
    PROVE  AccountInv'
<1> USE DEF IncrementSessionVersion, bumped, beingCached, idle, at, setRequest
<1>1. /\ AccountTypeOK /\ SetupInv /\ VersionInv /\ CacheInv /\ LoginInv
      /\ SessionsFollowThePassword /\ ResetInv
  BY DEF AccountInv
<1>2. \A q \in Requests : accReq[q] \in AccRequests
  BY <1>1 DEF AccountTypeOK
<1>3. AccountTypeOK'
  <2>1. accRow \in UserRows
    BY <1>1 DEF AccountTypeOK, SetupInv
  <2>2. accRow' \in UserRows
    BY <2>1, TokensAssumption DEF UserRows
  <2>3. accCache' \in UserRows \cup {NoUser}
    BY <1>1, <2>1, TokensAssumption DEF VersionInv, AccountTypeOK, UserRows
  <2>4. accStale' \in BOOLEAN
    BY <1>1 DEF AccountTypeOK
  <2>5. QED
    BY <1>1, <2>2, <2>3, <2>4 DEF AccountTypeOK, AccRequests
<1>4. SetupInv'
  BY <1>1, <1>2 DEF SetupInv, RequestIdle, NoUser, UserRows, AccountTypeOK
<1>5. VersionInv'
  BY <1>1, <1>2 DEF VersionInv, SetupInv, UserRows, NoUser, RequestIdle, AccountTypeOK
<1>6. CacheInv'
  BY <1>1 DEF CacheInv, RequestIdle, AccountTypeOK
<1>7. LoginInv'
  BY <1>1, <1>2 DEF LoginInv, CacheInv, RequestIdle, AccountTypeOK
<1>8. SessionsFollowThePassword'
  BY <1>1 DEF SessionsFollowThePassword, changing
<1>9. ResetInv'
  BY <1>1 DEF ResetInv, Using, RequestIdle, AccountTypeOK
<1>10. QED
  BY <1>3, <1>4, <1>5, <1>6, <1>7, <1>8, <1>9 DEF AccountInv

\* A change with the present password holds no reset token.
LEMMA ChangePasswordKeeps ==
    ASSUME AccountInv, NEW r \in Requests, NEW p \in Passwords, NEW new \in Passwords, ChangePassword(r, p, new)
    PROVE  AccountInv'
<1> USE DEF ChangePassword, AuthMiddleware, idle, at, setRequest
<1>1. /\ AccountTypeOK /\ SetupInv /\ VersionInv /\ CacheInv /\ LoginInv
      /\ SessionsFollowThePassword /\ ResetInv
  BY DEF AccountInv
<1>2. \A q \in Requests : accReq[q] \in AccRequests
  BY <1>1 DEF AccountTypeOK
<1>3. AccountTypeOK'
  BY <1>1 DEF AccountTypeOK, AccRequests, RequestIdle
<1>4. SetupInv'
  BY <1>1 DEF SetupInv
<1>5. VersionInv'
  BY <1>1 DEF VersionInv
<1>6. CacheInv'
  BY <1>1 DEF CacheInv
<1>7. LoginInv'
  BY <1>1 DEF LoginInv
<1>8. SessionsFollowThePassword'
  BY <1>1 DEF SessionsFollowThePassword, changing
<1>9. ResetInv'
  BY <1>1, <1>2, TokensAssumption DEF ResetInv, Using, RequestIdle, AccountTypeOK
<1>10. QED
  BY <1>3, <1>4, <1>5, <1>6, <1>7, <1>8, <1>9 DEF AccountInv

\* Deleting the reset tokens that are active touches no used one.
LEMMA RequestPasswordResetKeeps ==
    ASSUME AccountInv, NEW r \in Requests, RequestPasswordReset(r)
    PROVE  AccountInv'
<1> USE DEF RequestPasswordReset, idle, at, setRequest
<1>1. /\ AccountTypeOK /\ SetupInv /\ VersionInv /\ CacheInv /\ LoginInv
      /\ SessionsFollowThePassword /\ ResetInv
  BY DEF AccountInv
<1>2. \A q \in Requests : accReq[q] \in AccRequests
  BY <1>1 DEF AccountTypeOK
<1>3. AccountTypeOK'
  BY <1>1 DEF AccountTypeOK, AccRequests, RequestIdle
<1>4. SetupInv'
  BY <1>1 DEF SetupInv
<1>5. VersionInv'
  BY <1>1 DEF VersionInv
<1>6. CacheInv'
  BY <1>1 DEF CacheInv
<1>7. LoginInv'
  BY <1>1 DEF LoginInv
<1>8. SessionsFollowThePassword'
  BY <1>1 DEF SessionsFollowThePassword, changing
<1>9. ResetInv'
  BY <1>1 DEF ResetInv, Using
<1>10. QED
  BY <1>3, <1>4, <1>5, <1>6, <1>7, <1>8, <1>9 DEF AccountInv

\* The new reset token was unused: nobody holds it.
LEMMA CreatePasswordResetTokenKeeps ==
    ASSUME AccountInv, NEW r \in Requests, CreatePasswordResetToken(r)
    PROVE  AccountInv'
<1> USE DEF CreatePasswordResetToken, idle, at, setRequest
<1>1. /\ AccountTypeOK /\ SetupInv /\ VersionInv /\ CacheInv /\ LoginInv
      /\ SessionsFollowThePassword /\ ResetInv
  BY DEF AccountInv
<1>2. \A q \in Requests : accReq[q] \in AccRequests
  BY <1>1 DEF AccountTypeOK
<1>3. AccountTypeOK'
  BY <1>1 DEF AccountTypeOK, AccRequests, RequestIdle
<1>4. SetupInv'
  BY <1>1 DEF SetupInv
<1>5. VersionInv'
  BY <1>1 DEF VersionInv
<1>6. CacheInv'
  BY <1>1 DEF CacheInv, RequestIdle, AccountTypeOK
<1>7. LoginInv'
  BY <1>1, <1>2 DEF LoginInv, CacheInv, RequestIdle, AccountTypeOK
<1>8. SessionsFollowThePassword'
  BY <1>1 DEF SessionsFollowThePassword, changing
<1>9. ResetInv'
  <2> DEFINE t == nextFree(ResetTokens, [u \in ResetTokens |-> accReset[u] = "free"])
  <2>1. t \in ResetTokens /\ accReset[t] = "free"
    BY DEF nextFree
  <2>2. accReset' = [accReset EXCEPT ![t] = "active"]
    OBVIOUS
  <2> HIDE DEF t
  <2>3. QED
    BY <1>1, <1>2, <2>1, <2>2 DEF ResetInv, Using, AccountTypeOK, RequestIdle
<1>10. QED
  BY <1>3, <1>4, <1>5, <1>6, <1>7, <1>8, <1>9 DEF AccountInv

\* A reset that has found its token active has claimed nothing yet.
LEMMA ResetPasswordKeeps ==
    ASSUME AccountInv, NEW r \in Requests, NEW t \in ResetTokens, NEW new \in Passwords, ResetPassword(r, t, new)
    PROVE  AccountInv'
<1> USE DEF ResetPassword, idle, at, setRequest
<1>1. /\ AccountTypeOK /\ SetupInv /\ VersionInv /\ CacheInv /\ LoginInv
      /\ SessionsFollowThePassword /\ ResetInv
  BY DEF AccountInv
<1>2. \A q \in Requests : accReq[q] \in AccRequests
  BY <1>1 DEF AccountTypeOK
<1>3. AccountTypeOK'
  BY <1>1 DEF AccountTypeOK, AccRequests, RequestIdle
<1>4. SetupInv'
  BY <1>1 DEF SetupInv
<1>5. VersionInv'
  BY <1>1 DEF VersionInv
<1>6. CacheInv'
  BY <1>1 DEF CacheInv
<1>7. LoginInv'
  BY <1>1 DEF LoginInv
<1>8. SessionsFollowThePassword'
  BY <1>1 DEF SessionsFollowThePassword, changing
<1>9. ResetInv'
  BY <1>1 DEF ResetInv, Using
<1>10. QED
  BY <1>3, <1>4, <1>5, <1>6, <1>7, <1>8, <1>9 DEF AccountInv

\* The one request that finds the token active takes it: nobody else is using it.
LEMMA ClaimPasswordResetTokenKeeps ==
    ASSUME AccountInv, NEW r \in Requests, ClaimPasswordResetToken(r)
    PROVE  AccountInv'
<1> USE DEF ClaimPasswordResetToken, claimable, idle, at, setRequest
<1>1. /\ AccountTypeOK /\ SetupInv /\ VersionInv /\ CacheInv /\ LoginInv
      /\ SessionsFollowThePassword /\ ResetInv
  BY DEF AccountInv
<1>2. \A q \in Requests : accReq[q] \in AccRequests
  BY <1>1 DEF AccountTypeOK
<1>3. AccountTypeOK'
  BY <1>1 DEF AccountTypeOK, AccRequests, RequestIdle
<1>4. SetupInv'
  BY <1>1 DEF SetupInv
<1>5. VersionInv'
  BY <1>1 DEF VersionInv
<1>6. CacheInv'
  BY <1>1, <1>2, Shapes DEF CacheInv, RequestIdle, AccountTypeOK
<1>7. LoginInv'
  BY <1>1, <1>2, Shapes DEF LoginInv, CacheInv, RequestIdle, AccountTypeOK
<1>8. SessionsFollowThePassword'
  BY <1>1 DEF SessionsFollowThePassword, changing, AccountTypeOK
<1>9. ResetInv'
  BY <1>1, <1>2, Shapes DEF ResetInv, Using, RequestIdle, AccountTypeOK
<1>10. QED
  BY <1>3, <1>4, <1>5, <1>6, <1>7, <1>8, <1>9 DEF AccountInv

\* The change uses the token its request has claimed; logins and rotations under way
\* are marked as overtaken, and the sessions are not settled until RevokeAll.
LEMMA UpdatePasswordHashKeeps ==
    ASSUME AccountInv, NEW r \in Requests, NEW reloaded \in BOOLEAN, UpdatePasswordHash(r, reloaded)
    PROVE  AccountInv'
<1> USE DEF UpdatePasswordHash, overtaken, beingCached, idle, at, setRequest
<1>1. /\ AccountTypeOK /\ SetupInv /\ VersionInv /\ CacheInv /\ LoginInv
      /\ SessionsFollowThePassword /\ ResetInv
  BY DEF AccountInv
<1>2. \A q \in Requests : accReq[q] \in AccRequests
  BY <1>1 DEF AccountTypeOK
<1>3. AccountTypeOK'
  <2>1. accReq[r] \in [pc : {"update"}, token : ResetTokens \cup {NoToken}, hash : Passwords]
    BY <1>2, Shapes
  <2>2. accRow' \in UserRows
    BY <1>1, <2>1, TokensAssumption DEF AccountTypeOK, SetupInv, UserRows
  <2>3. accCache' \in UserRows \cup {NoUser}
    BY <1>1, <2>2 DEF AccountTypeOK
  <2>4. accResetUses' \in [ResetTokens -> Nat]
    BY <1>1, <2>1 DEF AccountTypeOK
  <2>5. accStale' \in BOOLEAN /\ accCut' \in BOOLEAN
    BY <1>1 DEF AccountTypeOK
  <2>6. \A q \in Requests : overtaken[q] \in AccRequests
    <3> SUFFICES ASSUME NEW q \in Requests PROVE overtaken[q] \in AccRequests
      OBVIOUS
    <3>1. CASE accReq[q].pc = "rotate"
      <4>1. accReq[q] \in [pc : {"rotate"}, token : RefreshTokens, proof : Passwords, crossed : BOOLEAN]
        BY <1>2, <3>1, Shapes
      <4>2. overtaken[q] = [accReq[q] EXCEPT !.crossed = TRUE]
        BY <3>1
      <4> HIDE DEF overtaken
      <4>3. overtaken[q] \in [pc : {"rotate"}, token : RefreshTokens, proof : Passwords, crossed : BOOLEAN]
        BY <4>1, <4>2
      <4>4. QED
        BY <4>3 DEF AccRequests
    <3>2. CASE accReq[q].pc = "issue"
      <4>1. accReq[q] \in [pc : {"issue"}, proof : Passwords, crossed : BOOLEAN]
        BY <1>2, <3>2, Shapes
      <4>2. overtaken[q] = [accReq[q] EXCEPT !.crossed = TRUE]
        BY <3>2
      <4> HIDE DEF overtaken
      <4>3. overtaken[q] \in [pc : {"issue"}, proof : Passwords, crossed : BOOLEAN]
        BY <4>1, <4>2
      <4>4. QED
        BY <4>3 DEF AccRequests
    <3>3. CASE accReq[q].pc \notin {"rotate", "issue"}
      BY <1>2, <3>3
    <3>4. QED
      BY <3>1, <3>2, <3>3
  <2>7. accReq' \in [Requests -> AccRequests]
    <3>1. overtaken \in [Requests -> AccRequests]
      BY <2>6
    <3>2. [pc |-> "revoke"] \in AccRequests /\ RequestIdle \in AccRequests
      BY DEF AccRequests
    <3> HIDE DEF overtaken
    <3>3. QED
      BY <3>1, <3>2
  <2>8. QED
    BY <1>1, <2>2, <2>3, <2>4, <2>5, <2>7 DEF AccountTypeOK
<1>4. SetupInv'
  BY <1>1, <1>2 DEF SetupInv, RequestIdle, NoUser, UserRows, AccountTypeOK
<1>5. VersionInv'
  <2>1. accRow \in UserRows
    BY <1>1 DEF AccountTypeOK, SetupInv
  <2>2. accRow'.ver = accRow.ver + 1 /\ accRow' # NoUser
    BY <2>1 DEF UserRows, NoUser
  <2>3. accRow.ver \in Int
    BY <2>1, TokensAssumption DEF UserRows
  <2>4. accCache # NoUser => accCache.ver \in Int
    BY <1>1, TokensAssumption DEF AccountTypeOK, UserRows
  <2>5. CASE reloaded
    BY <2>2, <2>3, <2>5 DEF VersionInv
  <2>6. CASE ~reloaded
    BY <1>1, <2>2, <2>3, <2>4, <2>6 DEF VersionInv
  <2>7. QED
    BY <2>5, <2>6
<1>6. CacheInv'
  <2> SUFFICES ASSUME ~accStale' PROVE CacheInv'
    BY DEF CacheInv
  <2>1. reloaded /\ ~beingCached /\ accCache' = accRow'
    BY <1>1 DEF AccountTypeOK
  <2>2. \A q \in Requests : accReq'[q].pc # "cache"
    <3> SUFFICES ASSUME NEW q \in Requests PROVE accReq'[q].pc # "cache"
      OBVIOUS
    <3>1. CASE q = r
      BY <1>1, <2>1, <3>1 DEF AccountTypeOK
    <3>2. CASE q # r
      <4>1. accReq'[q] = overtaken[q]
        BY <1>1, <3>2 DEF AccountTypeOK
      <4>2. overtaken[q].pc = accReq[q].pc
        BY <1>2, Shapes
      <4>3. QED
        BY <2>1, <4>1, <4>2
    <3>3. QED
      BY <3>1, <3>2
  <2>3. QED
    BY <2>1, <2>2 DEF CacheInv
<1>7. LoginInv'
  BY <1>1, <1>2, Shapes DEF LoginInv, CacheInv, RequestIdle, AccountTypeOK
<1>8. SessionsFollowThePassword'
  BY <1>1 DEF SessionsFollowThePassword, changing
<1>9. ResetInv'
  <2>1. accReq[r] \in [pc : {"update"}, token : ResetTokens \cup {NoToken}, hash : Passwords]
    BY <1>2, Shapes
  <2>2. \A q \in Requests, u \in ResetTokens : Using(q, u)' => q # r /\ Using(q, u)
    BY <1>1, <1>2, Shapes DEF Using, AccountTypeOK, RequestIdle
  <2>3. accReq[r].token # NoToken => Using(r, accReq[r].token)
    BY DEF Using
  <2>4. \A u \in ResetTokens : accResetUses'[u] = IF u = accReq[r].token THEN accResetUses[u] + 1
                                                  ELSE accResetUses[u]
    BY <1>1, <2>1, TokensAssumption DEF AccountTypeOK
  <2>5. UNCHANGED accReset
    OBVIOUS
  <2>6. \A u \in ResetTokens : accResetUses[u] \in Nat
    BY <1>1 DEF AccountTypeOK
  <2>7. accReq[r].token \in ResetTokens => accReq[r].token # NoToken
    BY TokensAssumption
  <2> SUFFICES ASSUME NEW u \in ResetTokens
               PROVE /\ accResetUses'[u] <= 1
                     /\ accResetUses'[u] = 1 => accReset[u] = "used"
                     /\ \A q \in Requests : Using(q, u)' => accReset[u] = "used" /\ accResetUses'[u] = 0
                     /\ \A q, s \in Requests : Using(q, u)' /\ Using(s, u)' => q = s
    BY <2>5 DEF ResetInv
  <2>8. /\ accResetUses[u] <= 1
        /\ accResetUses[u] = 1 => accReset[u] = "used"
        /\ \A q \in Requests : Using(q, u) => accReset[u] = "used" /\ accResetUses[u] = 0
        /\ \A q, s \in Requests : Using(q, u) /\ Using(s, u) => q = s
    BY <1>1 DEF ResetInv
  <2> HIDE DEF UpdatePasswordHash
  <2>9. CASE u = accReq[r].token
    BY <2>2, <2>3, <2>4, <2>6, <2>7, <2>8, <2>9
  <2>10. CASE u # accReq[r].token
    BY <2>2, <2>4, <2>6, <2>8, <2>10
  <2>11. QED
    BY <2>9, <2>10
<1>10. QED
  BY <1>3, <1>4, <1>5, <1>6, <1>7, <1>8, <1>9 DEF AccountInv

\* RevokeAll leaves no active token.
LEMMA RevokeAfterChangeKeeps ==
    ASSUME AccountInv, NEW r \in Requests, RevokeAfterChange(r)
    PROVE  AccountInv'
<1> USE DEF RevokeAfterChange, RevokeAllRefreshTokens, idle, at, setRequest
<1>1. /\ AccountTypeOK /\ SetupInv /\ VersionInv /\ CacheInv /\ LoginInv
      /\ SessionsFollowThePassword /\ ResetInv
  BY DEF AccountInv
<1>2. \A q \in Requests : accReq[q] \in AccRequests
  BY <1>1 DEF AccountTypeOK
<1>3. AccountTypeOK'
  BY <1>1, <1>2 DEF AccountTypeOK, UserRows, RefreshRows, AccRequests, RequestIdle
<1>4. SetupInv'
  BY <1>1 DEF SetupInv
<1>5. VersionInv'
  BY <1>1 DEF VersionInv
<1>6. CacheInv'
  BY <1>1 DEF CacheInv, RequestIdle, AccountTypeOK
<1>7. LoginInv'
  BY <1>1, <1>2 DEF LoginInv, CacheInv, RequestIdle, AccountTypeOK
<1>8. SessionsFollowThePassword'
  BY <1>1 DEF SessionsFollowThePassword, changing
<1>9. ResetInv'
  BY <1>1 DEF ResetInv, Using, RequestIdle, AccountTypeOK
<1>10. QED
  BY <1>3, <1>4, <1>5, <1>6, <1>7, <1>8, <1>9 DEF AccountInv

\* A request that ends early gives up what it held.
LEMMA RequestFailsKeeps ==
    ASSUME AccountInv, NEW r \in Requests, RequestFails(r)
    PROVE  AccountInv'
<1> USE DEF RequestFails, idle, at, setRequest
<1>1. /\ AccountTypeOK /\ SetupInv /\ VersionInv /\ CacheInv /\ LoginInv
      /\ SessionsFollowThePassword /\ ResetInv
  BY DEF AccountInv
<1>2. \A q \in Requests : accReq[q] \in AccRequests
  BY <1>1 DEF AccountTypeOK
<1>3. AccountTypeOK'
  BY <1>1 DEF AccountTypeOK, AccRequests, RequestIdle
<1>4. SetupInv'
  BY <1>1 DEF SetupInv, RequestIdle, AccountTypeOK
<1>5. VersionInv'
  BY <1>1 DEF VersionInv
<1>6. CacheInv'
  BY <1>1 DEF CacheInv, RequestIdle, AccountTypeOK
<1>7. LoginInv'
  BY <1>1, <1>2 DEF LoginInv, CacheInv, RequestIdle, AccountTypeOK
<1>8. SessionsFollowThePassword'
  BY <1>1 DEF SessionsFollowThePassword, changing, AccountTypeOK
<1>9. ResetInv'
  BY <1>1 DEF ResetInv, Using, RequestIdle, AccountTypeOK
<1>10. QED
  BY <1>3, <1>4, <1>5, <1>6, <1>7, <1>8, <1>9 DEF AccountInv

\* A token that expires was not used.
LEMMA ResetTokenExpiresKeeps ==
    ASSUME AccountInv, NEW t \in ResetTokens, ResetTokenExpires(t)
    PROVE  AccountInv'
<1> USE DEF ResetTokenExpires, idle, at, setRequest
<1>1. /\ AccountTypeOK /\ SetupInv /\ VersionInv /\ CacheInv /\ LoginInv
      /\ SessionsFollowThePassword /\ ResetInv
  BY DEF AccountInv
<1>2. \A q \in Requests : accReq[q] \in AccRequests
  BY <1>1 DEF AccountTypeOK
<1>3. AccountTypeOK'
  BY <1>1 DEF AccountTypeOK
<1>4. SetupInv'
  BY <1>1 DEF SetupInv
<1>5. VersionInv'
  BY <1>1 DEF VersionInv
<1>6. CacheInv'
  BY <1>1 DEF CacheInv
<1>7. LoginInv'
  BY <1>1 DEF LoginInv
<1>8. SessionsFollowThePassword'
  BY <1>1 DEF SessionsFollowThePassword, changing
<1>9. ResetInv'
  BY <1>1 DEF ResetInv, Using
<1>10. QED
  BY <1>3, <1>4, <1>5, <1>6, <1>7, <1>8, <1>9 DEF AccountInv

\* A token that expires is out of use.
LEMMA RefreshTokenExpiresKeeps ==
    ASSUME AccountInv, NEW t \in RefreshTokens, RefreshTokenExpires(t)
    PROVE  AccountInv'
<1> USE DEF RefreshTokenExpires, idle, at, setRequest
<1>1. /\ AccountTypeOK /\ SetupInv /\ VersionInv /\ CacheInv /\ LoginInv
      /\ SessionsFollowThePassword /\ ResetInv
  BY DEF AccountInv
<1>2. \A q \in Requests : accReq[q] \in AccRequests
  BY <1>1 DEF AccountTypeOK
<1>3. AccountTypeOK'
  BY <1>1, <1>2 DEF AccountTypeOK, UserRows, RefreshRows, AccRequests, RequestIdle
<1>4. SetupInv'
  BY <1>1, <1>2, Shapes DEF SetupInv, FreeToken, RequestIdle, AccountTypeOK
<1>5. VersionInv'
  BY <1>1 DEF VersionInv
<1>6. CacheInv'
  BY <1>1 DEF CacheInv
<1>7. LoginInv'
  BY <1>1 DEF LoginInv
<1>8. SessionsFollowThePassword'
  BY <1>1 DEF SessionsFollowThePassword, changing
<1>9. ResetInv'
  BY <1>1 DEF ResetInv, Using
<1>10. QED
  BY <1>3, <1>4, <1>5, <1>6, <1>7, <1>8, <1>9 DEF AccountInv

\* A restart reloads the copy and ends every request.
LEMMA RestartAPIKeeps ==
    ASSUME AccountInv, RestartAPI
    PROVE  AccountInv'
<1> USE DEF RestartAPI, idle, at, setRequest
<1>1. /\ AccountTypeOK /\ SetupInv /\ VersionInv /\ CacheInv /\ LoginInv
      /\ SessionsFollowThePassword /\ ResetInv
  BY DEF AccountInv
<1>2. \A q \in Requests : accReq[q] \in AccRequests
  BY <1>1 DEF AccountTypeOK
<1>3. AccountTypeOK'
  BY <1>1 DEF AccountTypeOK, AccRequests, RequestIdle
<1>4. SetupInv'
  BY <1>1 DEF SetupInv, RequestIdle, AccountTypeOK
<1>5. VersionInv'
  BY <1>1, <1>2 DEF VersionInv, SetupInv, UserRows, NoUser, RequestIdle, AccountTypeOK
<1>6. CacheInv'
  BY <1>1 DEF CacheInv, RequestIdle, AccountTypeOK
<1>7. LoginInv'
  BY <1>1, <1>2 DEF LoginInv, CacheInv, RequestIdle, AccountTypeOK
<1>8. SessionsFollowThePassword'
  BY <1>1 DEF SessionsFollowThePassword, changing
<1>9. ResetInv'
  BY <1>1 DEF ResetInv, Using, RequestIdle, AccountTypeOK
<1>10. QED
  BY <1>3, <1>4, <1>5, <1>6, <1>7, <1>8, <1>9 DEF AccountInv

\* Every step keeps the invariant.
LEMMA StepInv == AccountInv /\ [AccountNext]_accountVars => AccountInv'
<1> SUFFICES ASSUME AccountInv, [AccountNext]_accountVars PROVE AccountInv'
  OBVIOUS
<1>1. ASSUME NEW r \in Requests, NEW p \in Passwords, CompleteSetup(r, p) \/ Login(r, p)
      PROVE  AccountInv'
  BY <1>1, CompleteSetupKeeps, LoginKeeps
<1>2. ASSUME NEW r \in Requests, CreateAdminUser(r) \/ CacheAdminUser(r)
      PROVE  AccountInv'
  BY <1>2, CreateAdminUserKeeps, CacheAdminUserKeeps
<1>3. ASSUME NEW r \in Requests, NEW t \in RefreshTokens, Refresh(r, t)
      PROVE  AccountInv'
  BY <1>3, RefreshKeeps
<1>4. ASSUME NEW r \in Requests, RevokeRefreshToken(r) \/ IssueTokens(r)
      PROVE  AccountInv'
  BY <1>4, RevokeRefreshTokenKeeps, IssueTokensKeeps
<1>5. ASSUME NEW r \in Requests, Logout(r) \/ IncrementSessionVersion(r)
      PROVE  AccountInv'
  BY <1>5, LogoutKeeps, IncrementSessionVersionKeeps
<1>6. ASSUME NEW r \in Requests, NEW p \in Passwords, NEW new \in Passwords, ChangePassword(r, p, new)
      PROVE  AccountInv'
  BY <1>6, ChangePasswordKeeps
<1>7. ASSUME NEW r \in Requests, RequestPasswordReset(r) \/ CreatePasswordResetToken(r)
      PROVE  AccountInv'
  BY <1>7, RequestPasswordResetKeeps, CreatePasswordResetTokenKeeps
<1>8. ASSUME NEW r \in Requests, NEW t \in ResetTokens, NEW new \in Passwords, ResetPassword(r, t, new)
      PROVE  AccountInv'
  BY <1>8, ResetPasswordKeeps
<1>9. ASSUME NEW r \in Requests, ClaimPasswordResetToken(r)
      PROVE  AccountInv'
  BY <1>9, ClaimPasswordResetTokenKeeps
<1>10. ASSUME NEW r \in Requests, NEW reloaded \in BOOLEAN, UpdatePasswordHash(r, reloaded)
      PROVE  AccountInv'
  BY <1>10, UpdatePasswordHashKeeps
<1>11. ASSUME NEW r \in Requests, RevokeAfterChange(r) \/ RequestFails(r)
      PROVE  AccountInv'
  BY <1>11, RevokeAfterChangeKeeps, RequestFailsKeeps
<1>12. ASSUME NEW t \in ResetTokens, ResetTokenExpires(t)
      PROVE  AccountInv'
  BY <1>12, ResetTokenExpiresKeeps
<1>13. ASSUME NEW t \in RefreshTokens, RefreshTokenExpires(t)
      PROVE  AccountInv'
  BY <1>13, RefreshTokenExpiresKeeps
<1>14. CASE RestartAPI
  BY <1>14, RestartAPIKeeps
<1>15. CASE UNCHANGED accountVars
  BY <1>15 DEF AccountInv, AccountTypeOK, SetupInv, VersionInv, CacheInv, LoginInv,
               SessionsFollowThePassword, changing, ResetInv, Using, at, accountVars
<1>16. QED
  BY <1>1, <1>2, <1>3, <1>4, <1>5, <1>6, <1>7, <1>8, <1>9, <1>10, <1>11, <1>12, <1>13, <1>14,
     <1>15 DEF AccountNext

-----------------------------------------------------------------------------
\* The invariant holds in every state of every behaviour.
THEOREM AccountInvariance == AccountSpec => []AccountInv
<1>1. AccountInit => AccountInv
  BY InitI
<1>2. AccountInv /\ [AccountNext]_accountVars => AccountInv'
  BY StepInv
<1>3. QED
  BY <1>1, <1>2, PTL DEF AccountSpec

\* The variables keep their types, for any set of requests, passwords and tokens.
THEOREM AccountTypeCorrect == AccountSpec => []AccountTypeOK
<1>1. AccountInv => AccountTypeOK
  BY DEF AccountInv
<1>2. QED
  BY <1>1, AccountInvariance, PTL

\* ClaimPasswordResetToken: a reset token changes the password once at most,
\* however many requests present it.
THEOREM ResetTokenWorksOnce == AccountSpec => []ResetTokenSingleUse
<1>1. AccountInv => ResetTokenSingleUse
  BY DEF AccountInv, ResetInv, ResetTokenSingleUse
<1>2. QED
  BY <1>1, AccountInvariance, PTL

\* Repository.user: the copy that logins and the middleware trust is the row,
\* unless a reload failed or a setup was overtaken.
THEOREM CopyIsCurrent == AccountSpec => []AccountCacheCurrent
<1>1. AccountInv => AccountCacheCurrent
  BY DEF AccountInv, CacheInv, AccountCacheCurrent
<1>2. QED
  BY <1>1, AccountInvariance, PTL

\* ChangePassword, ResetPassword: once RevokeAll has run, every token that works stems
\* from a login with the present password, or was overtaken by the change.
THEOREM SessionsEnd == AccountSpec => []SessionsFollowThePassword
<1>1. AccountInv => SessionsFollowThePassword
  BY DEF AccountInv
<1>2. QED
  BY <1>1, AccountInvariance, PTL
=============================================================================
