------------------------------- MODULE Tasks --------------------------------
(***************************************************************************)
(* One asynchronous task: its row in the tasks table, its message in the   *)
(* asynq queue, the API call that dispatches it and the worker that runs   *)
(* it (backend/internal/tasks and the skeleton shared by the eleven        *)
(* handlers of backend/cmd/worker).  Tasks have their own rows and their   *)
(* own messages and meet only in the data they work on, so one is enough.  *)
(*                                                                         *)
(* Service.Start, Complete, Fail and Cancel each read the row, check the   *)
(* transition table and then write the WHOLE row back with no guard: two   *)
(* steps here.  asynq is external: a message is delivered again after an   *)
(* error, a deadline or a lost worker, at most MaxRetry times, and once    *)
(* more without counting it when a worker shuts down.                      *)
(***************************************************************************)
EXTENDS Naturals, FiniteSets

CONSTANTS MaxRetry,     \* taskConfig[type].Retries
          MaxRestarts   \* bound: graceful worker shutdowns that requeue a message

ASSUME BoundsAssumption == MaxRetry \in Nat /\ MaxRestarts \in Nat

VARIABLES row,       \* the row: status and attempts
          queue,     \* where asynq has the message
          retried,   \* the message's retry counter
          restarts,  \* shutdowns so far
          delivered, \* deliveries so far, one handler run each
          run,       \* the handler run of each delivery
          api,       \* Dispatcher.dispatch: where it is and the row it read
          works      \* how often the external work took effect

vars == <<row, queue, retried, restarts, delivered, run, api, works>>

-----------------------------------------------------------------------------
Status == {"pending", "running", "completed", "failed", "cancelled"}

\* Re-failing a failed task is accepted too, but Fail returns before using it.
ValidTransitions ==
    [pending   |-> {"running", "cancelled"},
     running   |-> {"completed", "failed", "cancelled"},
     completed |-> {},
     failed    |-> {"failed"},
     cancelled |-> {}]
CanTransition(from, to) == to \in ValidTransitions[from]

MaxDeliveries == MaxRetry + 1 + MaxRestarts
Deliveries == 1 .. MaxDeliveries

NoRow == [status |-> "absent", attempts |-> 0]
Rows  == [status : Status, attempts : Nat]

\* A run is at one of its three service calls (before the read while snap is
\* NoRow, before the write afterwards), at its work, or about to return.
\* ctx is "spent" once the handler's own WithTimeout has fired and "abandoned"
\* once asynq has given the delivery up: every database call then fails.
NotRun == [pc |-> "none", ctx |-> "live", snap |-> NoRow]
Gone   == [pc |-> "gone", ctx |-> "live", snap |-> NoRow]
RunPcs == {"start", "work", "complete", "fail", "nil", "err"}
Runs == {NotRun, Gone}
        \cup [pc : RunPcs, ctx : {"live", "spent", "abandoned"}, snap : Rows \cup {NoRow}]

Running(d) == run[d].pc \in RunPcs
Owned(d)   == Running(d) /\ run[d].ctx # "abandoned"

ApiPcs == {"idle", "created", "cleanup", "ok", "refused", "crashed"}

Init == /\ row = NoRow
        /\ queue = "absent"
        /\ retried = 0
        /\ restarts = 0
        /\ delivered = 0
        /\ run = [d \in Deliveries |-> NotRun]
        /\ api = [pc |-> "idle", snap |-> NoRow]
        /\ works = 0

-----------------------------------------------------------------------------
\* What each method of the service writes over the row it read.
Started(r)   == [status |-> "running",   attempts |-> r.attempts + 1]
Completed(r) == [status |-> "completed", attempts |-> r.attempts]
Failed(r)    == [status |-> "failed",    attempts |-> r.attempts]
Cancelled(r) == [status |-> "cancelled", attempts |-> r.attempts]

Update(call, r) == CASE call = "start"    -> Started(r)
                     [] call = "complete" -> Completed(r)
                     [] call = "fail"     -> Failed(r)

\* Where a handler goes on, whether or not the call succeeded: errors of the
\* service are logged as warnings only.
After(call) == CASE call = "start" -> "work" [] call = "complete" -> "nil" [] call = "fail" -> "err"

-----------------------------------------------------------------------------
\* Dispatcher.dispatch: the record first, then the message under the same id.
Create ==
    /\ api.pc = "idle"
    /\ row' = [status |-> "pending", attempts |-> 0]
    /\ api' = [api EXCEPT !.pc = "created"]
    /\ UNCHANGED <<queue, retried, restarts, delivered, run, works>>

CreateFails ==
    /\ api.pc = "idle"
    /\ api' = [api EXCEPT !.pc = "refused"]
    /\ UNCHANGED <<row, queue, retried, restarts, delivered, run, works>>

\* An error may come back although the message is in the queue (the reply was
\* lost or the request's context ended first).
EnqueueIgnoringErrors ==                   \* the error branch is dropped
    /\ api.pc = "created"
    /\ queue' \in {"waiting", "absent"}
    /\ api' = [api EXCEPT !.pc = "ok"]
    /\ UNCHANGED <<row, retried, restarts, delivered, run, works>>
Enqueue ==
    /\ api.pc = "created"
    /\ \/ queue' = "waiting" /\ api' = [api EXCEPT !.pc = "ok"]
       \/ queue' \in {"waiting", "absent"} /\ api' = [api EXCEPT !.pc = "cleanup"]
    /\ UNCHANGED <<row, retried, restarts, delivered, run, works>>

\* The clean-up after a failed enqueue: Service.Cancel.
CancelRead ==
    /\ api.pc = "cleanup" /\ api.snap = NoRow
    /\ api' = IF CanTransition(row.status, "cancelled")
              THEN [api EXCEPT !.snap = row]
              ELSE [api EXCEPT !.pc = "refused"]
    /\ UNCHANGED <<row, queue, retried, restarts, delivered, run, works>>

CancelWrite ==
    /\ api.pc = "cleanup" /\ api.snap # NoRow
    /\ row' = Cancelled(api.snap)
    /\ api' = [pc |-> "refused", snap |-> NoRow]
    /\ UNCHANGED <<queue, retried, restarts, delivered, run, works>>

\* Cancel itself fails (it uses the request's context): warned, and the row
\* stays as it is.  Or the API process dies.
CleanupFails ==
    /\ api.pc = "cleanup"
    /\ api' = [pc |-> "refused", snap |-> NoRow]
    /\ UNCHANGED <<row, queue, retried, restarts, delivered, run, works>>

ApiCrash ==
    /\ api.pc \in {"created", "cleanup"}
    /\ api' = [pc |-> "crashed", snap |-> NoRow]
    /\ UNCHANGED <<row, queue, retried, restarts, delivered, run, works>>

-----------------------------------------------------------------------------
\* asynq: deliver, retry or archive.
Deliver ==
    /\ queue = "waiting"
    /\ queue' = "active"
    /\ delivered' = delivered + 1
    /\ run' = [run EXCEPT ![delivered + 1] = [NotRun EXCEPT !.pc = "start"]]
    /\ UNCHANGED <<row, retried, restarts, api, works>>

RetryOrArchiveLate ==                      \* off by one: retried <= MaxRetry
    IF retried <= MaxRetry
    THEN queue' = "waiting" /\ retried' = retried + 1
    ELSE queue' = "archived" /\ UNCHANGED retried
RetryOrArchive ==
    IF retried < MaxRetry
    THEN queue' = "waiting" /\ retried' = retried + 1
    ELSE queue' = "archived" /\ UNCHANGED retried

\* A worker's service call: read and check, then write, or give up with a
\* warning.  Fail on a failed row and every refused transition end here too.
CallRead(d) ==
    /\ run[d].pc \in {"start", "complete", "fail"}
    /\ run[d].ctx = "live" /\ run[d].snap = NoRow
    /\ LET call == run[d].pc
           to   == Update(call, row).status
       IN  run' = [run EXCEPT ![d] =
                      IF CanTransition(row.status, to) /\ row.status # to
                      THEN [@ EXCEPT !.snap = row]
                      ELSE [@ EXCEPT !.pc = After(call)]]
    /\ UNCHANGED <<row, queue, retried, restarts, delivered, api, works>>

CallWriteDetached(d) ==                    \* a context that never ends
    /\ run[d].pc \in {"start", "complete", "fail"}
    /\ run[d].snap # NoRow
    /\ row' = Update(run[d].pc, run[d].snap)
    /\ run' = [run EXCEPT ![d] = [@ EXCEPT !.pc = After(run[d].pc), !.snap = NoRow]]
    /\ UNCHANGED <<queue, retried, restarts, delivered, api, works>>
CallWrite(d) ==
    /\ run[d].pc \in {"start", "complete", "fail"}
    /\ run[d].ctx = "live" /\ run[d].snap # NoRow
    /\ row' = Update(run[d].pc, run[d].snap)
    /\ run' = [run EXCEPT ![d] = [@ EXCEPT !.pc = After(run[d].pc), !.snap = NoRow]]
    /\ UNCHANGED <<queue, retried, restarts, delivered, api, works>>

CallFails(d) ==
    /\ run[d].pc \in {"start", "complete", "fail"}
    /\ run' = [run EXCEPT ![d] = [@ EXCEPT !.pc = After(run[d].pc), !.snap = NoRow]]
    /\ UNCHANGED <<row, queue, retried, restarts, delivered, api, works>>

\* The work: it takes effect or not, and the handler sees success or an error.
\* Success without an effect is a missing subject, skipped and completed; an
\* effect followed by an error is a lost reply or a failure after the effect.
Work(d) ==
    /\ run[d].pc = "work"
    /\ \E effect \in {0, 1}, next \in {"complete", "fail"} :
          /\ works' = works + effect
          /\ run' = [run EXCEPT ![d].pc = next]
    /\ UNCHANGED <<row, queue, retried, restarts, delivered, api>>

\* The handler returns; asynq listens only if it has not given it up.
Return(d) ==
    /\ run[d].pc \in {"nil", "err"}
    /\ run' = [run EXCEPT ![d] = Gone]
    /\ IF ~Owned(d) THEN UNCHANGED <<queue, retried>>
       ELSE IF run[d].pc = "nil" THEN queue' = "done" /\ UNCHANGED retried
       ELSE RetryOrArchive
    /\ UNCHANGED <<row, restarts, delivered, api, works>>

\* The handler's own WithTimeout, taken after Start.
HandlerTimeout(d) ==
    /\ Running(d) /\ run[d].pc # "start" /\ run[d].ctx = "live"
    /\ run' = [run EXCEPT ![d].ctx = "spent"]
    /\ UNCHANGED <<row, queue, retried, restarts, delivered, api, works>>

\* asynq.Timeout: the delivery is given up, the goroutine runs on.
Deadline(d) ==
    /\ Owned(d)
    /\ run' = [run EXCEPT ![d].ctx = "abandoned"]
    /\ RetryOrArchive
    /\ UNCHANGED <<row, restarts, delivered, api, works>>

WorkerCrash(d) ==
    /\ Running(d)
    /\ run' = [run EXCEPT ![d] = Gone]
    /\ UNCHANGED <<row, queue, retried, restarts, delivered, api, works>>

\* The lease of a lost worker runs out.
LeaseExpiredNever ==                       \* no recovery of lost messages
    /\ queue = "unleased"
    /\ UNCHANGED vars
LeaseExpired ==
    /\ queue = "active"
    /\ ~\E d \in Deliveries : Owned(d)
    /\ RetryOrArchive
    /\ UNCHANGED <<row, restarts, delivered, run, api, works>>

\* Graceful shutdown: the unfinished message goes back, uncounted.
Shutdown(d) ==
    /\ Owned(d) /\ restarts < MaxRestarts
    /\ restarts' = restarts + 1
    /\ run' = [run EXCEPT ![d] = Gone]
    /\ queue' = "waiting"
    /\ UNCHANGED <<row, retried, delivered, api, works>>

DispatchStep == \/ Create \/ CreateFails \/ Enqueue
                \/ CancelRead \/ CancelWrite \/ CleanupFails \/ ApiCrash
RunStep(d) == \/ CallRead(d) \/ CallWrite(d) \/ CallFails(d) \/ Work(d)
              \/ Return(d) \/ HandlerTimeout(d) \/ Deadline(d)
              \/ WorkerCrash(d) \/ Shutdown(d)

Next == \/ DispatchStep
        \/ Deliver \/ LeaseExpired
        \/ \E d \in Deliveries : RunStep(d)

\* asynq keeps delivering, its deadline cannot be escaped and its recoverer
\* keeps looking for lost leases.  Nothing is assumed of the handlers.
Fairness == /\ WF_vars(Deliver)
            /\ WF_vars(LeaseExpired)
            /\ \A d \in Deliveries : WF_vars(Deadline(d))

Spec == Init /\ [][Next]_vars
FairSpec == Spec /\ Fairness

-----------------------------------------------------------------------------
\* Rows, runs and counters have their shapes; a delivery beyond the retry
\* limit would have no run to be.
TypeOK ==
    /\ row \in Rows \cup {NoRow}
    /\ queue \in {"absent", "waiting", "active", "done", "archived"}
    /\ retried \in 0 .. MaxRetry
    /\ restarts \in 0 .. MaxRestarts
    /\ delivered \in 0 .. MaxDeliveries
    /\ run \in [Deliveries -> Runs]
    /\ api \in [pc : ApiPcs, snap : Rows \cup {NoRow}]
    /\ works \in Nat

\* A task whose id the caller was given has a row and had a message, and a
\* message never exists without the row its handler will look up by id.
DispatchedIsTracked ==
    /\ api.pc = "ok" => queue # "absent"
    /\ queue # "absent" => row # NoRow

\* The attempts column counts one start, however often the queue retries: a
\* row that got past "pending" was started exactly once, because no retry can
\* move a running, failed or cancelled row back to "running".
StartedOnce ==
    /\ row.attempts <= 1
    /\ row.status \in {"running", "completed", "failed"} => row.attempts = 1

\* Unguarded writes are safe between workers: once dispatch has reported
\* success, every change of the row is one its transition table permits,
\* since a run that asynq has given up can no longer write.  (A clean-up
\* Cancel racing a worker is the exception, hence the premise.)
WorkersNeverRace ==
    [][api.pc = "ok" /\ row' # row => CanTransition(row.status, row'.status)]_vars

\* Errors, deadlines and lost workers share one retry counter: together they
\* never make the external work happen more than MaxRetry + 1 times (and once
\* more per shutdown), and no two deliveries are owned at the same time.
WorkIsBounded ==
    /\ works <= MaxRetry + restarts + 1
    /\ \A d, e \in Deliveries : Owned(d) /\ Owned(e) => d = e

\* A message that was enqueued does not stay in the queue for ever.
EveryMessageSettles == (queue = "waiting") ~> (queue \in {"done", "archived"})

\* "It provides a unified dispatch layer that keeps the DB and queue in sync":
\* no task is failed in its row and done in the queue.  After one failed try it
\* is: the retry's Start and Complete are both refused on the failed row.
DoneIsNotFailed == queue = "done" => row.status # "failed"
=============================================================================
