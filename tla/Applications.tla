---------------------------- MODULE Applications ----------------------------
(***************************************************************************)
(* One row of the applications table and its audit trail                   *)
(* (backend/internal/applications).  Every change of status goes through   *)
(* Service.UpdateStatus, which reads the row and checks the transition,    *)
(* and then calls Repository.UpdateStatus, which opens a transaction,      *)
(* reads the status a second time and updates the row WHERE it still has   *)
(* that second value.  The writers are whatever calls UpdateStatus: the    *)
(* user's PUT /applications/:id/status, the approval workflow, the         *)
(* submission worker and the e-mail sync.  Rows are addressed by id and    *)
(* never interact, so one row is enough.                                   *)
(***************************************************************************)
EXTENDS Naturals, Sequences

CONSTANTS Writers,    \* concurrent callers of UpdateStatus
          MaxEvents   \* bound: no update starts once the trail is this long

ASSUME MaxEventsAssumption == MaxEvents \in Nat

VARIABLES status,      \* applications.status
          appliedAt,   \* applications.applied_at IS NOT NULL
          responseAt,  \* applications.response_at IS NOT NULL
          events,      \* application_events of this row, in commit order
          op           \* what each writer has in progress

vars == <<status, appliedAt, responseAt, events, op>>

-----------------------------------------------------------------------------
\* model.go: the pipeline and its transition table.
Status == {"draft", "queued", "applied", "assessment", "phone_screen",
           "technical", "final", "offer", "rejected"}

Transitions ==
    [draft        |-> {"queued", "rejected"},
     queued       |-> {"applied", "rejected"},
     applied      |-> {"assessment", "phone_screen", "technical", "final",
                       "offer", "rejected"},
     assessment   |-> {"phone_screen", "technical", "final", "offer", "rejected"},
     phone_screen |-> {"technical", "final", "offer", "rejected"},
     technical    |-> {"final", "offer", "rejected"},
     final        |-> {"offer", "rejected"},
     offer        |-> {},
     rejected     |-> {}]

CanTransitionSkips(from, to) ==           \* a queued application may skip ahead
    to \in Transitions[from] \cup (IF from = "queued" THEN {"phone_screen"} ELSE {})
CanTransition(from, to) == to \in Transitions[from]

\* The stages a portal's answer leads to: reachable only from "applied" on.
LaterStages == {"assessment", "phone_screen", "technical", "final", "offer"}

Idle == [pc |-> "idle"]

Ops == {Idle}
       \cup [pc : {"checked"}, to : Status, from : Nat]
       \cup [pc : {"inTx"}, to : Status, from : Nat, seen : Status, at : Nat]

\* An event also keeps where in the trail its caller's check read the status
\* (from) and where its created_at was taken (at): both count the events
\* committed by then, so created_at order is commit order exactly when each
\* event was stamped after the one before it.
Event == [old : Status, new : Status, from : Nat, at : Nat]

Init == /\ status = "draft"
        /\ appliedAt = FALSE
        /\ responseAt = FALSE
        /\ events = <<>>
        /\ op = [w \in Writers |-> Idle]

-----------------------------------------------------------------------------
\* Service.UpdateStatus up to the repository call.  An unknown status or a
\* refused transition returns ErrInvalidStatus and changes nothing, which is
\* the absence of this step.
CheckKnownStatus(w, to) ==                \* IsValidStatus without CanTransition
    /\ op[w] = Idle
    /\ Len(events) < MaxEvents
    /\ op' = [op EXCEPT ![w] = [pc |-> "checked", to |-> to, from |-> Len(events)]]
    /\ UNCHANGED <<status, appliedAt, responseAt, events>>
CheckTransition(w, to) ==
    /\ op[w] = Idle
    /\ Len(events) < MaxEvents
    /\ CanTransition(status, to)
    /\ op' = [op EXCEPT ![w] = [pc |-> "checked", to |-> to, from |-> Len(events)]]
    /\ UNCHANGED <<status, appliedAt, responseAt, events>>

\* Repository.UpdateStatus: BEGIN, the second read and the timestamp.
ReadInTx(w) ==
    /\ op[w].pc = "checked"
    /\ op' = [op EXCEPT ![w] = [pc |-> "inTx", to |-> op[w].to, from |-> op[w].from,
                                seen |-> status, at |-> Len(events)]]
    /\ UNCHANGED <<status, appliedAt, responseAt, events>>

\* The guarded UPDATE, the audit INSERT and COMMIT.  The row lock taken by the
\* UPDATE and the transaction make the three one step for every other writer.
CommitUnguarded(w) ==                     \* UPDATE ... WHERE id = $X only
    /\ op[w].pc = "inTx"
    /\ status' = op[w].to
    /\ appliedAt' = (appliedAt \/ op[w].to = "applied")
    /\ responseAt' = (responseAt \/ op[w].to \in {"offer", "rejected"})
    /\ events' = Append(events, [old |-> op[w].seen, new |-> op[w].to,
                                 from |-> op[w].from, at |-> op[w].at])
    /\ op' = [op EXCEPT ![w] = Idle]
Commit(w) ==
    /\ op[w].pc = "inTx"
    /\ status = op[w].seen
    /\ status' = op[w].to
    /\ appliedAt' = (appliedAt \/ op[w].to = "applied")
    /\ responseAt' = (responseAt \/ op[w].to \in {"offer", "rejected"})
    /\ events' = Append(events, [old |-> op[w].seen, new |-> op[w].to,
                                 from |-> op[w].from, at |-> op[w].at])
    /\ op' = [op EXCEPT ![w] = Idle]

\* No row matched: ErrStatusConflict, and the deferred Rollback.
Conflict(w) ==
    /\ op[w].pc = "inTx"
    /\ status # op[w].seen
    /\ op' = [op EXCEPT ![w] = Idle]
    /\ UNCHANGED <<status, appliedAt, responseAt, events>>

\* A database error, a cancelled context or a crash of the caller at any
\* point: every early return rolls the transaction back.
Abort(w) ==
    /\ op[w] # Idle
    /\ op' = [op EXCEPT ![w] = Idle]
    /\ UNCHANGED <<status, appliedAt, responseAt, events>>

Next == \E w \in Writers :
            \/ \E to \in Status : CheckTransition(w, to)
            \/ ReadInTx(w)
            \/ Commit(w)
            \/ Conflict(w)
            \/ Abort(w)

Spec == Init /\ [][Next]_vars

-----------------------------------------------------------------------------
\* The status the row had when k events had been committed.
StatusAt(k) == IF k = 0 THEN "draft" ELSE events[k].new

\* Every variable has the shape of its column, and a writer in progress
\* remembers positions of the trail.
TypeOK == /\ status \in Status
          /\ appliedAt \in BOOLEAN
          /\ responseAt \in BOOLEAN
          /\ events \in Seq(Event)
          /\ op \in [Writers -> Ops]

\* The audit trail is a chain from "draft" to the current status: each event's
\* old_status is the new_status of the event before it, whatever the writers
\* interleave.  This is what the WHERE-status guard of Repository.UpdateStatus
\* buys: no committed change is missing from the trail or overwritten unseen.
AuditTrailIsChain ==
    /\ \A k \in 1 .. Len(events) : events[k].old = StatusAt(k - 1)
    /\ status = StatusAt(Len(events))

\* What the check in Service.UpdateStatus is worth: each change was permitted
\* by the transition table from a status the application really had at some
\* point before, even if not from the one it had when the change was committed.
EveryChangeWasOnceLegal ==
    \A k \in 1 .. Len(events) :
        /\ events[k].from < k
        /\ CanTransition(StatusAt(events[k].from), events[k].new)

\* A row in a stage after submission has its applied_at, and a row that was
\* answered its response_at, whichever writer put it there: the dashboards
\* compute response times from the two columns.
StagesFollowSubmission ==
    /\ status \in LaterStages \cup {"applied"} => appliedAt
    /\ status \in {"offer", "rejected"} => responseAt

LegalTrail == \A k \in 1 .. Len(events) : CanTransition(events[k].old, events[k].new)

\* GetEvents sorts the trail by created_at, which a writer takes before it
\* commits.  As long as every recorded change is one the table permits, no
\* commit falls between a writer's timestamp and its own commit, so the
\* timeline shows the changes in the order they happened.
TimelineInCommitOrder ==
    LegalTrail => \A k \in 1 .. Len(events) : events[k].at = k - 1

\* The contract of the transition table, which a lost race between the check
\* and the transaction breaks: model.go says the map "defines valid status
\* transitions", and the guard is said to stop a writer that slips in "between
\* the service-layer transition check and the actual UPDATE".
Table == INSTANCE StatusMachine
             WITH Initial <- "draft",
                  Edges <- {e \in Status \X Status : CanTransition(e[1], e[2])}
FollowsTransitionTable == Table!Spec
=============================================================================
