------------------------- MODULE SubmissionWorkflow -------------------------
(***************************************************************************)
(* The human gate: one approval request, the draft application it guards   *)
(* and the submission that an approval sets off                            *)
(* (backend/internal/approvals, handlers_application.go of the worker).    *)
(* The application is the component Applications: every status change here *)
(* is one of its actions, taken by an HTTP request, by a worker or by      *)
(* somebody else (the user's PUT, the e-mail sync).                        *)
(*                                                                         *)
(* The approval row is read, checked and updated WHERE status is the one   *)
(* read.  The queue is the one of module Tasks, reduced to what the        *)
(* submission sees of it: a message is delivered at most MaxRetry + 1      *)
(* times, and a delivery may be given up at any moment.                    *)
(***************************************************************************)
EXTENDS Naturals, Sequences, FiniteSets

CONSTANTS Requests,   \* concurrent approve and reject requests
          Others,     \* other callers of applications.Service.UpdateStatus
          MaxRetry,   \* taskConfig[application_submit].Retries
          MaxEvents   \* bound: length of the application's audit trail

VARIABLES status, appliedAt, responseAt, events, op,  \* see Applications
          approval,  \* approval_requests.status
          req,       \* where each HTTP request is
          msg,       \* the submission message each request dispatched
          tries,     \* deliveries of that message
          sub,       \* where the handler of its current delivery is
          fills      \* forms the portal has received

Worker(r) == <<"worker", r>>

\* Requests, workers and the others are different callers.
ASSUME ActorsAssumption == /\ Requests \cap Others = {}
                           /\ \A r \in Requests : Worker(r) \notin Requests \cup Others
ASSUME BoundsAssumption == MaxRetry \in Nat /\ MaxEvents \in Nat

Actors == Requests \cup {Worker(r) : r \in Requests} \cup Others

App == INSTANCE Applications WITH Writers <- Actors

appVars == <<status, appliedAt, responseAt, events, op>>
subVars == <<msg, tries, sub, fills>>
vars == <<appVars, approval, req, subVars>>

-----------------------------------------------------------------------------
ApprovalStatus == {"pending", "approved", "rejected"}

ApprovalTransitionsReopen ==               \* a decision may be revised
    [pending |-> {"approved", "rejected"}, approved |-> {"rejected"}, rejected |-> {"approved"}]
ApprovalTransitions ==
    [pending |-> {"approved", "rejected"}, approved |-> {}, rejected |-> {}]

CanDecide(from, to) == to \in ApprovalTransitions[from]

\* newHandleScoring leaves a draft application and a pending approval request.
Init ==
    /\ App!Init
    /\ approval = "pending"
    /\ req = [r \in Requests |-> [pc |-> "idle", seen |-> "pending"]]
    /\ msg = [r \in Requests |-> "absent"]
    /\ tries = [r \in Requests |-> 0]
    /\ sub = [r \in Requests |-> "none"]
    /\ fills = 0

Goto(r, pc) == req' = [req EXCEPT ![r].pc = pc]

-----------------------------------------------------------------------------
\* Repository.UpdateStatus of the approvals, called with "approved" or
\* "rejected": GetByID and the check, then the guarded UPDATE.  An error of
\* either statement, a lost race and a refused transition all end the request.
DecideRead(r, to) ==
    /\ req[r].pc = "idle"
    /\ CanDecide(approval, to)
    /\ req' = [req EXCEPT ![r] = [pc |-> to, seen |-> approval]]
    /\ UNCHANGED <<appVars, approval, subVars>>

DecideWriteUnguarded(r) ==                 \* UPDATE ... WHERE id = $4 only
    /\ req[r].pc \in {"approved", "rejected"}
    /\ approval' = req[r].pc
    /\ Goto(r, IF req[r].pc = "approved" THEN "refetch" ELSE "rejectedOK")
    /\ UNCHANGED <<appVars, subVars>>
DecideWrite(r) ==
    /\ req[r].pc \in {"approved", "rejected"}
    /\ approval = req[r].seen
    /\ approval' = req[r].pc
    /\ Goto(r, IF req[r].pc = "approved" THEN "refetch" ELSE "rejectedOK")
    /\ UNCHANGED <<appVars, subVars>>

\* Service.Approve fetches the row again for its application id.
RefetchBeforeDeciding(r) ==                \* the check's result is ignored
    /\ req[r].pc \in {"approved", "refetch"}
    /\ Goto(r, "queueApp")
    /\ UNCHANGED <<appVars, approval, subVars>>
Refetch(r) ==
    /\ req[r].pc = "refetch"
    /\ Goto(r, "queueApp")
    /\ UNCHANGED <<appVars, approval, subVars>>

\* Any error before the decision is stored, or in the re-fetch after it.
RequestFails(r) ==
    /\ req[r].pc \in {"idle", "approved", "rejected", "refetch"}
    /\ Goto(r, "failed")
    /\ UNCHANGED <<appVars, approval, subVars>>

-----------------------------------------------------------------------------
\* Workflow.Approve: the application goes from draft to queued ...
QueueApp(r) ==
    /\ req[r].pc = "queueApp"
    /\ \/ App!CheckTransition(r, "queued") /\ UNCHANGED req
       \/ App!ReadInTx(r) /\ UNCHANGED req
       \/ App!Commit(r) /\ Goto(r, "dispatch")
       \/ (App!Conflict(r) \/ App!Abort(r)) /\ Goto(r, "dispatchError")
    /\ UNCHANGED <<approval, subVars>>

\* ... or the update is refused or fails before its transaction: a
\* DispatchError, with the approval stored.
QueueAppRefused(r) ==
    /\ req[r].pc = "queueApp" /\ op[r] = App!Idle
    /\ Goto(r, "dispatchError")
    /\ UNCHANGED <<appVars, approval, subVars>>

\* ... and the task is dispatched with a context of its own.  An error may
\* come back although the message is in the queue.
Dispatch(r) ==
    /\ req[r].pc = "dispatch"
    /\ \/ msg' = [msg EXCEPT ![r] = "waiting"] /\ Goto(r, "ok")
       \/ msg' = [msg EXCEPT ![r] = "waiting"] /\ Goto(r, "dispatchError")
       \/ UNCHANGED msg /\ Goto(r, "dispatchError")
    /\ UNCHANGED <<appVars, approval, tries, sub, fills>>

\* The API process dies, or the client's context ends the transaction.
RequestCrash(r) ==
    /\ req[r].pc \in {"approved", "rejected", "refetch", "queueApp", "dispatch"}
    /\ Goto(r, "crashed")
    /\ IF op[r] = App!Idle THEN UNCHANGED appVars ELSE App!Abort(r)
    /\ UNCHANGED <<approval, subVars>>

-----------------------------------------------------------------------------
\* newHandleSubmitApplication.  It never looks at the application's status.
Deliver(r) ==
    /\ msg[r] = "waiting"
    /\ msg' = [msg EXCEPT ![r] = "active"]
    /\ tries' = [tries EXCEPT ![r] = @ + 1]
    /\ sub' = [sub EXCEPT ![r] = "fetch"]
    /\ UNCHANGED <<appVars, approval, req, fills>>

SettleRetriesForever(r, ok) ==             \* MaxRetry is not passed on
    /\ msg' = [msg EXCEPT ![r] = IF ok THEN "done" ELSE "waiting"]
    /\ sub' = [sub EXCEPT ![r] = "none"]
Settle(r, ok) ==
    /\ msg' = [msg EXCEPT ![r] = IF ok THEN "done"
                                 ELSE IF tries[r] <= MaxRetry THEN "waiting"
                                 ELSE "archived"]
    /\ sub' = [sub EXCEPT ![r] = "none"]

\* Fetch the application and its job; a missing one completes the task.
Fetch(r) ==
    /\ sub[r] = "fetch"
    /\ \/ sub' = [sub EXCEPT ![r] = "fill"] /\ UNCHANGED msg
       \/ \E ok \in BOOLEAN : Settle(r, ok)
    /\ UNCHANGED <<appVars, approval, req, tries, fills>>

\* FillForm: submitted, reported as a business failure (completed, never
\* retried), or an error.  Neither failure says whether the portal got the form.
Fill(r) ==
    /\ sub[r] = "fill"
    /\ \/ fills' = fills + 1 /\ sub' = [sub EXCEPT ![r] = "update"] /\ UNCHANGED msg
       \/ fills' \in {fills, fills + 1} /\ \E ok \in BOOLEAN : Settle(r, ok)
    /\ UNCHANGED <<appVars, approval, req, tries>>

\* applicationsSvc.UpdateStatus(..., applied): an error fails the task, and
\* its retry fills the form again.
MarkApplied(r) ==
    /\ sub[r] = "update"
    /\ \/ (App!CheckTransition(Worker(r), "applied") \/ App!ReadInTx(Worker(r)))
          /\ UNCHANGED <<msg, sub>>
       \/ App!Commit(Worker(r)) /\ Settle(r, TRUE)
       \/ (App!Conflict(Worker(r)) \/ App!Abort(Worker(r))) /\ Settle(r, FALSE)
    /\ UNCHANGED <<approval, req, tries, fills>>

MarkAppliedRefused(r) ==
    /\ sub[r] = "update" /\ op[Worker(r)] = App!Idle
    /\ Settle(r, FALSE)
    /\ UNCHANGED <<appVars, approval, req, tries, fills>>

\* Deadline or crash at any point, also after the commit (the reply is lost).
\* A form being filled may still reach the portal.
DeliveryLost(r) ==
    /\ sub[r] # "none"
    /\ Settle(r, FALSE)
    /\ fills' \in (IF sub[r] = "fill" THEN {fills, fills + 1} ELSE {fills})
    /\ IF op[Worker(r)] = App!Idle THEN UNCHANGED appVars
       ELSE App!Abort(Worker(r)) \/ App!Commit(Worker(r))
    /\ UNCHANGED <<approval, req, tries>>

-----------------------------------------------------------------------------
OtherWriter(w) ==
    /\ \/ \E to \in App!Status : App!CheckTransition(w, to)
       \/ App!ReadInTx(w) \/ App!Commit(w) \/ App!Conflict(w) \/ App!Abort(w)
    /\ UNCHANGED <<approval, req, subVars>>

RequestStep(r) ==
    \/ DecideWrite(r) \/ Refetch(r)
    \/ QueueApp(r) \/ QueueAppRefused(r) \/ Dispatch(r)

SubmitStep(r) == \/ Deliver(r) \/ Fetch(r) \/ Fill(r)
                 \/ MarkApplied(r) \/ MarkAppliedRefused(r)

Next == \/ \E r \in Requests : \/ \E to \in {"approved", "rejected"} : DecideRead(r, to)
                               \/ RequestStep(r) \/ RequestFails(r) \/ RequestCrash(r)
                               \/ SubmitStep(r) \/ DeliveryLost(r)
        \/ \E w \in Others : OtherWriter(w)

\* Users keep trying to approve while requests are left, and neither a request
\* nor a worker stops between two steps for ever.
Fairness == \A r \in Requests : /\ WF_vars(DecideRead(r, "approved"))
                                /\ WF_vars(RequestStep(r))
                                /\ WF_vars(SubmitStep(r))

Spec == Init /\ [][Next]_vars
FairSpec == Spec /\ Fairness

-----------------------------------------------------------------------------
\* The workflow's own variables have their shapes; the application's are
\* checked by its module.
TypeOK ==
    /\ approval \in ApprovalStatus
    /\ req \in [Requests -> [pc : {"idle", "approved", "rejected", "refetch",
                                   "queueApp", "dispatch", "ok", "dispatchError",
                                   "rejectedOK", "failed", "crashed"},
                             seen : ApprovalStatus]]
    /\ msg \in [Requests -> {"absent", "waiting", "active", "done", "archived"}]
    /\ tries \in [Requests -> 0 .. MaxRetry + 1]
    /\ sub \in [Requests -> {"none", "fetch", "fill", "update"}]
    /\ fills \in Nat

\* However approvals and rejections race, the stored decision is taken once:
\* the row moves along approvalTransitions and never again.
Decision == INSTANCE StatusMachine
    WITH status <- approval, Initial <- "pending",
         Edges <- {e \in ApprovalStatus \X ApprovalStatus : CanDecide(e[1], e[2])}
DecidedOnce == Decision!Spec

\* The gate: unless the approval is stored as approved, no form has reached
\* the portal, no submission is queued and neither the workflow nor a worker
\* is touching the application.  And a submission is queued only for an
\* application whose trail shows it was queued.
NothingBeforeApproval ==
    /\ approval # "approved" =>
          /\ fills = 0
          /\ \A r \in Requests : /\ msg[r] = "absent"
                                 /\ op[r] = App!Idle
                                 /\ op[Worker(r)] = App!Idle
    /\ (\E r \in Requests : msg[r] # "absent") =>
          \E k \in 1 .. Len(events) : events[k].new = "queued"

\* Double clicks and retries by several people lead to one series of
\* submissions: one message, delivered at most MaxRetry + 1 times.
OneSubmissionSeries ==
    /\ Cardinality({r \in Requests : msg[r] # "absent"}) <= 1
    /\ fills <= MaxRetry + 1

\* model.go: "If rejected -> application marked as rejected, no submission".
\* The handler stores the rejection and never touches the application.
RejectionReachesApplication ==
    \A r \in Requests : req[r].pc = "rejectedOK" => status = "rejected"

\* handler.go answers a DispatchError with "application submission queued for
\* retry", workflow.go says "dispatch can be retried": then the submission of
\* that approval is in the queue sooner or later.
DispatchIsRetried ==
    (\E r \in Requests : req[r].pc = "dispatchError")
        ~> (\E r \in Requests : msg[r] # "absent")
=============================================================================
