----------------------------- MODULE Interviews -----------------------------
(***************************************************************************)
(* One interview session of backend/internal/interviews: its row, the      *)
(* requests that start and stop it and the callbacks of the voice service. *)
(* The service checks a transition on the session it fetched; the          *)
(* repository opens a transaction, reads the status again, checks AGAIN    *)
(* and updates the row WHERE it still has the status just checked.         *)
(***************************************************************************)
EXTENDS Naturals

CONSTANT Callers    \* concurrent requests and callbacks

VARIABLES ivStatus,      \* interview_sessions.status
          ivExternal,    \* external_session_id, provider and model are set
          ivStartedAt,   \* started_at and ended_at: 0 while NULL, otherwise the
          ivEndedAt,     \*   number of committed changes when now was taken, + 1
          ivChanges,     \* status changes committed so far
          ivTasks,       \* voice_session tasks dispatched
          ivOp           \* what each caller has in progress

ivRow == <<ivStatus, ivExternal, ivStartedAt, ivEndedAt, ivChanges>>
interviewsVars == <<ivRow, ivTasks, ivOp>>

-----------------------------------------------------------------------------
SessionStatus == {"pending", "starting", "active", "completed", "failed", "cancelled"}

SessionTransitionsRestart ==               \* a failed session may start again
    [pending |-> {"starting", "failed", "cancelled"},
     starting |-> {"active", "failed", "cancelled"},
     active |-> {"completed", "failed", "cancelled"},
     completed |-> {}, failed |-> {"starting"}, cancelled |-> {}]
SessionTransitions ==
    [pending   |-> {"starting", "failed", "cancelled"},
     starting  |-> {"active", "failed", "cancelled"},
     active    |-> {"completed", "failed", "cancelled"},
     completed |-> {},
     failed    |-> {},
     cancelled |-> {}]
CanTransition(from, to) == to \in SessionTransitions[from]
SessionEdges == {e \in SessionStatus \X SessionStatus : CanTransition(e[1], e[2])}

Terminal == {"completed", "failed", "cancelled"}

CallerIdle == [pc |-> "idle"]
\* start tells StartSession, which alone dispatches, from UpdateStatus.
CallerOps == {CallerIdle, [pc |-> "dispatch"]}
       \cup [pc : {"checked"}, to : SessionStatus, start : BOOLEAN]
       \cup [pc : {"inTx"}, to : SessionStatus, start : BOOLEAN, seen : SessionStatus, now : Nat]

InterviewsInit ==
    /\ ivStatus = "pending" /\ ivExternal = FALSE
    /\ ivStartedAt = 0 /\ ivEndedAt = 0 /\ ivChanges = 0
    /\ ivTasks = 0
    /\ ivOp = [c \in Callers |-> CallerIdle]

-----------------------------------------------------------------------------
\* Service.Start fetches the session and checks nothing itself.
Start(c) ==
    /\ ivOp[c] = CallerIdle
    /\ ivOp' = [ivOp EXCEPT ![c] = [pc |-> "checked", to |-> "starting", start |-> TRUE]]
    /\ UNCHANGED <<ivRow, ivTasks>>

\* Service.Stop and handleStatusEvent: TransitionTo on the fetched session.
CheckTransition(c, to) ==
    /\ ivOp[c] = CallerIdle
    /\ CanTransition(ivStatus, to)
    /\ ivOp' = [ivOp EXCEPT ![c] = [pc |-> "checked", to |-> to, start |-> FALSE]]
    /\ UNCHANGED <<ivRow, ivTasks>>

\* Repository.UpdateStatus and StartSession: BEGIN, read, validate, now.
\* A refused transition returns ErrInvalidStatus (see GiveUp).
ReadInTxUnchecked(c) ==                    \* trusts the service's check
    /\ ivOp[c].pc = "checked"
    /\ ivOp' = [ivOp EXCEPT ![c] = [pc |-> "inTx", to |-> ivOp[c].to, start |-> ivOp[c].start,
                                seen |-> ivStatus, now |-> ivChanges + 1]]
    /\ UNCHANGED <<ivRow, ivTasks>>
ReadInTx(c) ==
    /\ ivOp[c].pc = "checked"
    /\ CanTransition(ivStatus, ivOp[c].to)
    /\ ivOp' = [ivOp EXCEPT ![c] = [pc |-> "inTx", to |-> ivOp[c].to, start |-> ivOp[c].start,
                                seen |-> ivStatus, now |-> ivChanges + 1]]
    /\ UNCHANGED <<ivRow, ivTasks>>

\* The guarded UPDATE and COMMIT.
Commit(c) ==
    /\ ivOp[c].pc = "inTx"
    /\ ivStatus = ivOp[c].seen
    /\ ivStatus' = ivOp[c].to
    /\ ivExternal' = (ivExternal \/ ivOp[c].start)
    /\ ivStartedAt' = IF ivOp[c].to = "active" THEN ivOp[c].now ELSE ivStartedAt
    /\ ivEndedAt' = IF ivOp[c].to \in Terminal THEN ivOp[c].now ELSE ivEndedAt
    /\ ivChanges' = ivChanges + 1
    /\ ivOp' = [ivOp EXCEPT ![c] = IF ivOp[c].start THEN [pc |-> "dispatch"] ELSE CallerIdle]
    /\ UNCHANGED ivTasks

\* Service.Start goes on: DispatchVoiceSession succeeds or fails; a failure is
\* returned to the caller and leaves the session "starting".
DispatchVoiceSession(c) ==
    /\ ivOp[c].pc = "dispatch"
    /\ ivTasks' \in {ivTasks, ivTasks + 1}
    /\ ivOp' = [ivOp EXCEPT ![c] = CallerIdle]
    /\ UNCHANGED ivRow

\* A refused transition, a lost race (ErrStatusConflict), a database error or
\* the end of the caller: the transaction is rolled back.
GiveUp(c) ==
    /\ ivOp[c] # CallerIdle
    /\ ivOp' = [ivOp EXCEPT ![c] = CallerIdle]
    /\ UNCHANGED <<ivRow, ivTasks>>

InterviewsNext ==
    \E c \in Callers :
        \/ Start(c)
        \/ \E to \in SessionStatus : CheckTransition(c, to)
        \/ ReadInTx(c) \/ Commit(c)
        \/ DispatchVoiceSession(c)
        \/ GiveUp(c)

InterviewsSpec == InterviewsInit /\ [][InterviewsNext]_interviewsVars

-----------------------------------------------------------------------------
\* Every column and every operation in progress has its shape.
InterviewsTypeOK ==
    /\ ivStatus \in SessionStatus
    /\ ivExternal \in BOOLEAN
    /\ ivStartedAt \in Nat /\ ivEndedAt \in Nat /\ ivChanges \in Nat
    /\ ivTasks \in Nat
    /\ ivOp \in [Callers -> CallerOps]

\* "All transitions go through CanTransition()": whatever the callers
\* interleave, the row itself only ever follows the table, because check and
\* guard meet inside one transaction.
Table == INSTANCE StatusMachine
             WITH status <- ivStatus, Initial <- "pending", Edges <- SessionEdges
FollowsTransitionTable == Table!Spec

\* However often Start is requested, at most one voice session is launched,
\* and its task can be traced back by the external id of the row.
OneVoiceSession ==
    /\ ivTasks <= 1
    /\ ivTasks = 1 => ivExternal /\ ivStatus # "pending"

\* The two time stamps tell the session's story: started_at is set exactly
\* once the session was active, ended_at exactly in a terminal status, and a
\* session never ends before it started.
TimestampsTellTheStory ==
    /\ ivStatus \in {"pending", "starting"} => ivStartedAt = 0
    /\ ivStatus \in {"active", "completed"} => ivStartedAt > 0
    /\ ivEndedAt > 0 <=> ivStatus \in Terminal
    /\ ivEndedAt > 0 => ivStartedAt < ivEndedAt
=============================================================================
