---------------------------- MODULE Tasks_proofs ----------------------------
(***************************************************************************)
(* Theorems about Tasks, for any number of retries and of restarts.        *)
(***************************************************************************)
EXTENDS Tasks, FiniteSetTheorems, TLAPS

-----------------------------------------------------------------------------
\* Each delivery was paid for by the enqueue, a retry or a shutdown, and the
\* message is waiting exactly when the next one is paid for.
QueueInv ==
    /\ queue = "absent" => delivered = 0 /\ retried = 0 /\ restarts = 0
    /\ queue = "waiting" => delivered = retried + restarts
    /\ queue \notin {"absent", "waiting"} => delivered = retried + restarts + 1

\* Only the last delivery is asynq's, and only while the message is active.
OwnerInv == \A d \in Deliveries : /\ Owned(d) => queue = "active" /\ d = delivered
                                  /\ d > delivered => run[d] = NotRun

\* The dispatcher writes the row before the message.
DispatchInv ==
    /\ api.pc \in {"idle", "created"} => queue = "absent"
    /\ api.pc \notin {"idle", "refused"} => row # NoRow
    /\ DispatchedIsTracked

\* What a row can be, and the copies of it the calls hold: a start has read a
\* pending row, the other two a running one.
RowInv(r) == /\ r.attempts <= 1
             /\ r.status = "pending" => r.attempts = 0
             /\ r.status \in {"running", "completed", "failed"} => r.attempts = 1
SnapInv ==
    /\ RowInv(row) /\ RowInv(api.snap)
    /\ \A d \in Deliveries : run[d].snap # NoRow =>
          /\ RowInv(run[d].snap)
          /\ run[d].pc \in {"start", "complete", "fail"}
          /\ run[d].snap.status = IF run[d].pc = "start" THEN "pending" ELSE "running"

\* Once dispatch has succeeded, a live copy is the row.
FreshInv == api.pc = "ok" => \A d \in Deliveries :
                run[d].snap # NoRow /\ run[d].ctx = "live" => run[d].snap = row

\* A delivery works once, if at all.
Unworked == {d \in Deliveries : run[d].pc \in {"start", "work"}}
WorkInv == works + Cardinality(Unworked) <= delivered

IInv == /\ TypeOK /\ QueueInv /\ OwnerInv /\ DispatchInv
        /\ SnapInv /\ FreshInv /\ WorkInv

-----------------------------------------------------------------------------
\* A run that is at a step is a record with its three fields.
LEMMA RunIsRecord ==
    ASSUME TypeOK, NEW d \in Deliveries, Running(d)
    PROVE  run[d] \in [pc : RunPcs, ctx : {"live", "spent", "abandoned"},
                       snap : Rows \cup {NoRow}]
BY DEF TypeOK, Running, Runs, NotRun, Gone, RunPcs

\* A step keeps the types, the bounds of the counters included: a delivery is
\* only ever made after it was paid for.
LEMMA TypeStep ==
    ASSUME TypeOK, QueueInv, OwnerInv, DispatchInv, [Next]_vars
    PROVE  TypeOK'
<1> USE BoundsAssumption DEF TypeOK, QueueInv, OwnerInv, DispatchInv, Rows, NoRow,
       Runs, NotRun, Gone, RunPcs, ApiPcs, Status, Deliveries, MaxDeliveries,
       Started, Cancelled, Update, After, RetryOrArchive, Owned, Running
<1>1. CASE Create
  BY <1>1 DEF Create
<1>2. CASE CreateFails
  BY <1>2 DEF CreateFails
<1>3. CASE Enqueue
  BY <1>3 DEF Enqueue
<1>4. CASE CancelRead
  BY <1>4 DEF CancelRead
<1>5. CASE CancelWrite
  BY <1>5 DEF CancelWrite
<1>6. CASE CleanupFails
  BY <1>6 DEF CleanupFails
<1>7. CASE ApiCrash
  BY <1>7 DEF ApiCrash
<1>8. CASE Deliver
  BY <1>8 DEF Deliver
<1>9. CASE LeaseExpired
  BY <1>9 DEF LeaseExpired
<1>10. CASE \E d \in Deliveries : CallRead(d)
  <2> PICK d \in Deliveries : CallRead(d)  BY <1>10
  <2>1. Running(d)  BY DEF CallRead, RunPcs, Running
  <2>2. run[d] \in [pc : RunPcs, ctx : {"live", "spent", "abandoned"}, snap : Rows \cup {NoRow}]
    BY <2>1, RunIsRecord
  <2>3. /\ [run[d] EXCEPT !.snap = row] \in Runs
        /\ [run[d] EXCEPT !.pc = After(run[d].pc)] \in Runs
    BY <2>2 DEF CallRead, After, Runs, RunPcs, TypeOK
  <2>4. run' \in [Deliveries -> Runs]
    <3> HIDE DEF Runs, Update, After
    <3> QED BY <2>3 DEF CallRead, TypeOK
  <2> QED BY <2>4 DEF CallRead, TypeOK
<1>11. CASE \E d \in Deliveries : CallWrite(d)
  <2> PICK d \in Deliveries : CallWrite(d)  BY <1>11
  <2>1. Running(d)  BY DEF CallWrite, RunPcs, Running
  <2>2. run[d] \in [pc : RunPcs, ctx : {"live", "spent", "abandoned"}, snap : Rows \cup {NoRow}]
    BY <2>1, RunIsRecord
  <2>3. Update(run[d].pc, run[d].snap) \in Rows
    BY <2>2 DEF CallWrite, Update, Started, Completed, Failed, Rows, Status
  <2>4. [run[d] EXCEPT !.pc = After(run[d].pc), !.snap = NoRow] \in Runs
    BY <2>2 DEF CallWrite, After, Runs, RunPcs
  <2> HIDE DEF Runs, Update, After, Rows
  <2>5. run' \in [Deliveries -> Runs]
    BY <2>4 DEF CallWrite, TypeOK
  <2>6. row' \in Rows
    BY <2>3 DEF CallWrite
  <2> QED BY <2>5, <2>6 DEF CallWrite, TypeOK
<1>12. CASE \E d \in Deliveries : CallFails(d)
  <2> PICK d \in Deliveries : CallFails(d)  BY <1>12
  <2>1. Running(d)  BY DEF CallFails, RunPcs, Running
  <2>2. run[d] \in [pc : RunPcs, ctx : {"live", "spent", "abandoned"}, snap : Rows \cup {NoRow}]
    BY <2>1, RunIsRecord
  <2>3. [run[d] EXCEPT !.pc = After(run[d].pc), !.snap = NoRow] \in Runs
    BY <2>2 DEF CallFails, After, Runs, RunPcs
  <2> HIDE DEF Runs, Update, After, Rows
  <2>4. run' \in [Deliveries -> Runs]
    BY <2>3 DEF CallFails, TypeOK
  <2> QED BY <2>4 DEF CallFails, TypeOK
<1>13. CASE \E d \in Deliveries : Work(d)
  <2> PICK d \in Deliveries : Work(d)  BY <1>13
  <2>1. Running(d)  BY DEF Work, RunPcs, Running
  <2>2. run[d] \in [pc : RunPcs, ctx : {"live", "spent", "abandoned"}, snap : Rows \cup {NoRow}]
    BY <2>1, RunIsRecord
  <2>3. PICK effect \in {0, 1}, next \in {"complete", "fail"} :
            works' = works + effect /\ run' = [run EXCEPT ![d].pc = next]
    BY DEF Work
  <2>4. [run[d] EXCEPT !.pc = next] \in Runs
    BY <2>2 DEF Runs, RunPcs
  <2>5. run' \in [Deliveries -> Runs]
    BY <2>3, <2>4 DEF TypeOK
  <2>6. works' \in Nat
    BY <2>3 DEF TypeOK
  <2> QED BY <2>5, <2>6 DEF Work, TypeOK
<1>14. CASE \E d \in Deliveries : Return(d)
  BY <1>14 DEF Return
<1>15. CASE \E d \in Deliveries : HandlerTimeout(d)
  <2> PICK d \in Deliveries : HandlerTimeout(d)  BY <1>15
  <2>1. Running(d)  BY DEF HandlerTimeout, RunPcs, Running
  <2>2. run[d] \in [pc : RunPcs, ctx : {"live", "spent", "abandoned"}, snap : Rows \cup {NoRow}]
    BY <2>1, RunIsRecord
  <2>3. [run[d] EXCEPT !.ctx = "spent"] \in Runs
    BY <2>2 DEF Runs
  <2> QED BY <2>3 DEF HandlerTimeout, TypeOK
<1>16. CASE \E d \in Deliveries : Deadline(d)
  <2> PICK d \in Deliveries : Deadline(d)  BY <1>16
  <2>1. Running(d)  BY DEF Deadline, RunPcs, Running, Owned
  <2>2. run[d] \in [pc : RunPcs, ctx : {"live", "spent", "abandoned"}, snap : Rows \cup {NoRow}]
    BY <2>1, RunIsRecord
  <2>3. [run[d] EXCEPT !.ctx = "abandoned"] \in Runs
    BY <2>2 DEF Runs
  <2>4. run' \in [Deliveries -> Runs]
    BY <2>3 DEF Deadline
  <2>5. queue' \in {"waiting", "archived"} /\ retried' \in 0 .. MaxRetry
    BY DEF Deadline
  <2>6. UNCHANGED <<row, restarts, delivered, api, works>>
    BY DEF Deadline
  <2> QED BY <2>4, <2>5, <2>6
<1>17. CASE \E d \in Deliveries : WorkerCrash(d)
  BY <1>17 DEF WorkerCrash
<1>18. CASE \E d \in Deliveries : Shutdown(d)
  BY <1>18 DEF Shutdown
<1>19. CASE UNCHANGED vars
  BY <1>19 DEF vars
<1> QED BY <1>1, <1>2, <1>3, <1>4, <1>5, <1>6, <1>7, <1>8, <1>9, <1>10,
           <1>11, <1>12, <1>13, <1>14, <1>15, <1>16, <1>17, <1>18, <1>19
        DEF Next, DispatchStep, RunStep

\* A step keeps the account of the deliveries.
LEMMA QueueStep ==
    ASSUME TypeOK, QueueInv, OwnerInv, DispatchInv, [Next]_vars
    PROVE  QueueInv'
<1> USE BoundsAssumption DEF TypeOK, QueueInv, OwnerInv, DispatchInv, RetryOrArchive
<1>1. CASE Create
  BY <1>1 DEF Create
<1>2. CASE CreateFails
  BY <1>2 DEF CreateFails
<1>3. CASE Enqueue
  BY <1>3 DEF Enqueue
<1>4. CASE CancelRead
  BY <1>4 DEF CancelRead
<1>5. CASE CancelWrite
  BY <1>5 DEF CancelWrite
<1>6. CASE CleanupFails
  BY <1>6 DEF CleanupFails
<1>7. CASE ApiCrash
  BY <1>7 DEF ApiCrash
<1>8. CASE Deliver
  BY <1>8 DEF Deliver
<1>9. CASE LeaseExpired
  BY <1>9 DEF LeaseExpired
<1>10. CASE \E d \in Deliveries : CallRead(d)
  BY <1>10 DEF CallRead
<1>11. CASE \E d \in Deliveries : CallWrite(d)
  BY <1>11 DEF CallWrite
<1>12. CASE \E d \in Deliveries : CallFails(d)
  BY <1>12 DEF CallFails
<1>13. CASE \E d \in Deliveries : Work(d)
  BY <1>13 DEF Work
<1>14. CASE \E d \in Deliveries : Return(d)
  BY <1>14 DEF Return
<1>15. CASE \E d \in Deliveries : HandlerTimeout(d)
  BY <1>15 DEF HandlerTimeout
<1>16. CASE \E d \in Deliveries : Deadline(d)
  BY <1>16 DEF Deadline
<1>17. CASE \E d \in Deliveries : WorkerCrash(d)
  BY <1>17 DEF WorkerCrash
<1>18. CASE \E d \in Deliveries : Shutdown(d)
  BY <1>18 DEF Shutdown
<1>19. CASE UNCHANGED vars
  BY <1>19 DEF vars
<1> QED BY <1>1, <1>2, <1>3, <1>4, <1>5, <1>6, <1>7, <1>8, <1>9, <1>10,
           <1>11, <1>12, <1>13, <1>14, <1>15, <1>16, <1>17, <1>18, <1>19
        DEF Next, DispatchStep, RunStep

\* A step keeps the single owner.
LEMMA OwnerStep ==
    ASSUME TypeOK, QueueInv, OwnerInv, DispatchInv, [Next]_vars
    PROVE  OwnerInv'
<1> USE BoundsAssumption DEF TypeOK, QueueInv, OwnerInv, DispatchInv, RetryOrArchive,
       Owned, Running, RunPcs, NotRun, Gone, Deliveries, MaxDeliveries
<1>1. CASE Create
  BY <1>1 DEF Create
<1>2. CASE CreateFails
  BY <1>2 DEF CreateFails
<1>3. CASE Enqueue
  BY <1>3 DEF Enqueue
<1>4. CASE CancelRead
  BY <1>4 DEF CancelRead
<1>5. CASE CancelWrite
  BY <1>5 DEF CancelWrite
<1>6. CASE CleanupFails
  BY <1>6 DEF CleanupFails
<1>7. CASE ApiCrash
  BY <1>7 DEF ApiCrash
<1>8. CASE Deliver
  BY <1>8 DEF Deliver
<1>9. CASE LeaseExpired
  BY <1>9 DEF LeaseExpired
<1>10. CASE \E d \in Deliveries : CallRead(d)
  BY <1>10 DEF CallRead
<1>11. CASE \E d \in Deliveries : CallWrite(d)
  BY <1>11 DEF CallWrite
<1>12. CASE \E d \in Deliveries : CallFails(d)
  BY <1>12 DEF CallFails
<1>13. CASE \E d \in Deliveries : Work(d)
  BY <1>13 DEF Work
<1>14. CASE \E d \in Deliveries : Return(d)
  BY <1>14 DEF Return
<1>15. CASE \E d \in Deliveries : HandlerTimeout(d)
  BY <1>15 DEF HandlerTimeout
<1>16. CASE \E d \in Deliveries : Deadline(d)
  BY <1>16 DEF Deadline
<1>17. CASE \E d \in Deliveries : WorkerCrash(d)
  BY <1>17 DEF WorkerCrash
<1>18. CASE \E d \in Deliveries : Shutdown(d)
  BY <1>18 DEF Shutdown
<1>19. CASE UNCHANGED vars
  BY <1>19 DEF vars
<1> QED BY <1>1, <1>2, <1>3, <1>4, <1>5, <1>6, <1>7, <1>8, <1>9, <1>10,
           <1>11, <1>12, <1>13, <1>14, <1>15, <1>16, <1>17, <1>18, <1>19
        DEF Next, DispatchStep, RunStep

\* A step keeps the row before the message.
LEMMA TrackedStep ==
    ASSUME TypeOK, QueueInv, OwnerInv, DispatchInv, [Next]_vars
    PROVE  DispatchInv'
<1> USE BoundsAssumption DEF TypeOK, QueueInv, OwnerInv, DispatchInv, DispatchedIsTracked, RetryOrArchive,
       NoRow, Rows, Status, Update, Started, Completed, Failed, Cancelled
<1>1. CASE Create
  BY <1>1 DEF Create
<1>2. CASE CreateFails
  BY <1>2 DEF CreateFails
<1>3. CASE Enqueue
  BY <1>3 DEF Enqueue
<1>4. CASE CancelRead
  BY <1>4 DEF CancelRead
<1>5. CASE CancelWrite
  BY <1>5 DEF CancelWrite
<1>6. CASE CleanupFails
  BY <1>6 DEF CleanupFails
<1>7. CASE ApiCrash
  BY <1>7 DEF ApiCrash
<1>8. CASE Deliver
  BY <1>8 DEF Deliver
<1>9. CASE LeaseExpired
  BY <1>9 DEF LeaseExpired
<1>10. CASE \E d \in Deliveries : CallRead(d)
  BY <1>10 DEF CallRead
<1>11. CASE \E d \in Deliveries : CallWrite(d)
  BY <1>11 DEF CallWrite
<1>12. CASE \E d \in Deliveries : CallFails(d)
  BY <1>12 DEF CallFails
<1>13. CASE \E d \in Deliveries : Work(d)
  BY <1>13 DEF Work
<1>14. CASE \E d \in Deliveries : Return(d)
  BY <1>14 DEF Return
<1>15. CASE \E d \in Deliveries : HandlerTimeout(d)
  BY <1>15 DEF HandlerTimeout
<1>16. CASE \E d \in Deliveries : Deadline(d)
  BY <1>16 DEF Deadline
<1>17. CASE \E d \in Deliveries : WorkerCrash(d)
  BY <1>17 DEF WorkerCrash
<1>18. CASE \E d \in Deliveries : Shutdown(d)
  BY <1>18 DEF Shutdown
<1>19. CASE UNCHANGED vars
  BY <1>19 DEF vars
<1> QED BY <1>1, <1>2, <1>3, <1>4, <1>5, <1>6, <1>7, <1>8, <1>9, <1>10,
           <1>11, <1>12, <1>13, <1>14, <1>15, <1>16, <1>17, <1>18, <1>19
        DEF Next, DispatchStep, RunStep

\* While a run is at a step the row exists: its message did, and the row first.
LEMMA RowExists ==
    ASSUME TypeOK, QueueInv, OwnerInv, DispatchInv, NEW d \in Deliveries, Running(d)
    PROVE  row \in Rows
<1>1. d <= delivered
  BY DEF OwnerInv, Running, NotRun, RunPcs, TypeOK, Deliveries
<1>2. queue # "absent"
  BY <1>1, BoundsAssumption DEF QueueInv, TypeOK, Deliveries, MaxDeliveries
<1> QED BY <1>2 DEF DispatchInv, DispatchedIsTracked, TypeOK

\* A step keeps the rows and their copies one of the kinds above.
LEMMA SnapStep ==
    ASSUME TypeOK, QueueInv, OwnerInv, DispatchInv, SnapInv, [Next]_vars
    PROVE  SnapInv'
<1> USE BoundsAssumption DEF TypeOK, DispatchInv, SnapInv, RowInv, RetryOrArchive,
       NoRow, NotRun, Gone, Rows, Status, CanTransition, ValidTransitions,
       Update, After, Started, Completed, Failed, Cancelled
<1>1. CASE Create
  BY <1>1 DEF Create
<1>2. CASE CreateFails
  BY <1>2 DEF CreateFails
<1>3. CASE Enqueue
  BY <1>3 DEF Enqueue
<1>4. CASE CancelRead
  BY <1>4 DEF CancelRead
<1>5. CASE CancelWrite
  BY <1>5 DEF CancelWrite
<1>6. CASE CleanupFails
  BY <1>6 DEF CleanupFails
<1>7. CASE ApiCrash
  BY <1>7 DEF ApiCrash
<1>8. CASE Deliver
  BY <1>8 DEF Deliver
<1>9. CASE LeaseExpired
  BY <1>9 DEF LeaseExpired
<1>10. CASE \E d \in Deliveries : CallRead(d)
  <2> PICK d \in Deliveries : CallRead(d)  BY <1>10
  <2>1. Running(d)  BY DEF CallRead, RunPcs, Running
  <2>2. row \in Rows  BY <2>1, RowExists
  <2> QED BY <2>2 DEF CallRead
<1>11. CASE \E d \in Deliveries : CallWrite(d)
  BY <1>11 DEF CallWrite
<1>12. CASE \E d \in Deliveries : CallFails(d)
  BY <1>12 DEF CallFails
<1>13. CASE \E d \in Deliveries : Work(d)
  BY <1>13 DEF Work
<1>14. CASE \E d \in Deliveries : Return(d)
  BY <1>14 DEF Return
<1>15. CASE \E d \in Deliveries : HandlerTimeout(d)
  BY <1>15 DEF HandlerTimeout
<1>16. CASE \E d \in Deliveries : Deadline(d)
  BY <1>16 DEF Deadline
<1>17. CASE \E d \in Deliveries : WorkerCrash(d)
  BY <1>17 DEF WorkerCrash
<1>18. CASE \E d \in Deliveries : Shutdown(d)
  BY <1>18 DEF Shutdown
<1>19. CASE UNCHANGED vars
  BY <1>19 DEF vars
<1> QED BY <1>1, <1>2, <1>3, <1>4, <1>5, <1>6, <1>7, <1>8, <1>9, <1>10,
           <1>11, <1>12, <1>13, <1>14, <1>15, <1>16, <1>17, <1>18, <1>19
        DEF Next, DispatchStep, RunStep

\* Before the first delivery no run holds a copy.
LEMMA NoCopyYet ==
    ASSUME TypeOK, OwnerInv, delivered = 0, NEW d \in Deliveries
    PROVE  run[d].snap = NoRow
BY DEF OwnerInv, NotRun, Deliveries

\* Only the run that asynq waits for holds a live copy.
LEMMA OneLiveCopy ==
    ASSUME TypeOK, OwnerInv, SnapInv, NEW d \in Deliveries,
           run[d].snap # NoRow, run[d].ctx = "live"
    PROVE  d = delivered
BY DEF OwnerInv, SnapInv, Owned, Running, RunPcs

\* A step keeps the live copies fresh.
LEMMA FreshStep ==
    ASSUME TypeOK, QueueInv, OwnerInv, DispatchInv, SnapInv, FreshInv, [Next]_vars
    PROVE  FreshInv'
<1> USE BoundsAssumption DEF TypeOK, FreshInv, NotRun, Gone
<1>1. CASE Create
  BY <1>1 DEF Create
<1>2. CASE CreateFails
  BY <1>2 DEF CreateFails
<1>3. CASE Enqueue
  <2>1. delivered = 0  BY <1>3 DEF Enqueue, DispatchInv, QueueInv
  <2> QED BY <2>1, <1>3, NoCopyYet DEF Enqueue
<1>4. CASE CancelRead
  BY <1>4 DEF CancelRead
<1>5. CASE CancelWrite
  BY <1>5 DEF CancelWrite
<1>6. CASE CleanupFails
  BY <1>6 DEF CleanupFails
<1>7. CASE ApiCrash
  BY <1>7 DEF ApiCrash
<1>8. CASE Deliver
  BY <1>8 DEF Deliver
<1>9. CASE LeaseExpired
  BY <1>9 DEF LeaseExpired
<1>10. CASE \E d \in Deliveries : CallRead(d)
  BY <1>10 DEF CallRead
<1>11. CASE \E d \in Deliveries : CallWrite(d)
  <2> PICK d \in Deliveries : CallWrite(d)  BY <1>11
  <2>1. d = delivered  BY OneLiveCopy DEF CallWrite
  <2>2. ASSUME NEW e \in Deliveries, run'[e].snap # NoRow, run'[e].ctx = "live"
        PROVE  FALSE
    <3>1. e # d  BY <2>2 DEF CallWrite
    <3>2. run'[e] = run[e]  BY <3>1 DEF CallWrite
    <3> QED BY <2>1, <2>2, <3>1, <3>2, OneLiveCopy
  <2> QED BY <2>2
<1>12. CASE \E d \in Deliveries : CallFails(d)
  BY <1>12 DEF CallFails
<1>13. CASE \E d \in Deliveries : Work(d)
  BY <1>13 DEF Work
<1>14. CASE \E d \in Deliveries : Return(d)
  BY <1>14 DEF Return
<1>15. CASE \E d \in Deliveries : HandlerTimeout(d)
  BY <1>15 DEF HandlerTimeout
<1>16. CASE \E d \in Deliveries : Deadline(d)
  BY <1>16 DEF Deadline
<1>17. CASE \E d \in Deliveries : WorkerCrash(d)
  BY <1>17 DEF WorkerCrash
<1>18. CASE \E d \in Deliveries : Shutdown(d)
  BY <1>18 DEF Shutdown
<1>19. CASE UNCHANGED vars
  BY <1>19 DEF vars
<1> QED BY <1>1, <1>2, <1>3, <1>4, <1>5, <1>6, <1>7, <1>8, <1>9, <1>10,
           <1>11, <1>12, <1>13, <1>14, <1>15, <1>16, <1>17, <1>18, <1>19
        DEF Next, DispatchStep, RunStep

-----------------------------------------------------------------------------
\* The runs that may still work are finitely many.
LEMMA UnworkedFinite == TypeOK => IsFiniteSet(Unworked) /\ Cardinality(Unworked) \in Nat
<1>1. IsFiniteSet(Deliveries)
  BY FS_Interval, BoundsAssumption DEF Deliveries, MaxDeliveries
<1> QED BY <1>1, FS_Subset, FS_CardinalityType DEF Unworked

\* A step that does not work and delivers nothing keeps the bound.
LEMMA Fewer ==
    ASSUME TypeOK, WorkInv, Unworked' \subseteq Unworked,
           works' = works, delivered' = delivered
    PROVE  WorkInv'
<1>1. Cardinality(Unworked') <= Cardinality(Unworked) /\ Cardinality(Unworked') \in Nat
  BY UnworkedFinite, FS_Subset, FS_CardinalityType
<1> QED BY <1>1, UnworkedFinite DEF WorkInv, TypeOK

\* A step pays for its work with a delivery.
LEMMA WorkStep ==
    ASSUME TypeOK, QueueInv, OwnerInv, WorkInv, [Next]_vars
    PROVE  WorkInv'
<1> USE BoundsAssumption
<1>1. CASE Create
  <2>1. Unworked' \subseteq Unworked /\ works' = works /\ delivered' = delivered
    BY <1>1 DEF Create, Unworked, Gone, NotRun, TypeOK
  <2> QED BY <2>1, Fewer
<1>2. CASE CreateFails
  <2>1. Unworked' \subseteq Unworked /\ works' = works /\ delivered' = delivered
    BY <1>2 DEF CreateFails, Unworked, Gone, NotRun, TypeOK
  <2> QED BY <2>1, Fewer
<1>3. CASE Enqueue
  <2>1. Unworked' \subseteq Unworked /\ works' = works /\ delivered' = delivered
    BY <1>3 DEF Enqueue, Unworked, Gone, NotRun, TypeOK
  <2> QED BY <2>1, Fewer
<1>4. CASE CancelRead
  <2>1. Unworked' \subseteq Unworked /\ works' = works /\ delivered' = delivered
    BY <1>4 DEF CancelRead, Unworked, Gone, NotRun, TypeOK
  <2> QED BY <2>1, Fewer
<1>5. CASE CancelWrite
  <2>1. Unworked' \subseteq Unworked /\ works' = works /\ delivered' = delivered
    BY <1>5 DEF CancelWrite, Unworked, Gone, NotRun, TypeOK
  <2> QED BY <2>1, Fewer
<1>6. CASE CleanupFails
  <2>1. Unworked' \subseteq Unworked /\ works' = works /\ delivered' = delivered
    BY <1>6 DEF CleanupFails, Unworked, Gone, NotRun, TypeOK
  <2> QED BY <2>1, Fewer
<1>7. CASE ApiCrash
  <2>1. Unworked' \subseteq Unworked /\ works' = works /\ delivered' = delivered
    BY <1>7 DEF ApiCrash, Unworked, Gone, NotRun, TypeOK
  <2> QED BY <2>1, Fewer
<1>8. CASE Deliver
  <2>1. delivered + 1 \in Deliveries
    BY <1>8 DEF Deliver, TypeOK, QueueInv, Deliveries, MaxDeliveries
  <2>2. Unworked' \subseteq Unworked \cup {delivered + 1}
    BY <1>8, <2>1 DEF Deliver, Unworked, TypeOK
  <2>3. IsFiniteSet(Unworked \cup {delivered + 1})
        /\ Cardinality(Unworked \cup {delivered + 1}) <= Cardinality(Unworked) + 1
    BY UnworkedFinite, FS_AddElement
  <2>4. Cardinality(Unworked') <= Cardinality(Unworked \cup {delivered + 1})
        /\ Cardinality(Unworked') \in Nat
    BY <2>2, <2>3, FS_Subset, FS_CardinalityType
  <2>5. Cardinality(Unworked \cup {delivered + 1}) \in Nat
    BY <2>3, FS_CardinalityType
  <2> QED BY <1>8, <2>3, <2>4, <2>5, UnworkedFinite DEF Deliver, WorkInv, TypeOK
<1>9. CASE LeaseExpired
  <2>1. Unworked' \subseteq Unworked /\ works' = works /\ delivered' = delivered
    BY <1>9 DEF LeaseExpired, Unworked, Gone, NotRun, TypeOK
  <2> QED BY <2>1, Fewer
<1>10. CASE \E d \in Deliveries : CallRead(d)
  <2>1. Unworked' \subseteq Unworked /\ works' = works /\ delivered' = delivered
    BY <1>10 DEF CallRead, Unworked, Gone, NotRun, TypeOK, After
  <2> QED BY <2>1, Fewer
<1>11. CASE \E d \in Deliveries : CallWrite(d)
  <2>1. Unworked' \subseteq Unworked /\ works' = works /\ delivered' = delivered
    BY <1>11 DEF CallWrite, Unworked, Gone, NotRun, TypeOK, After
  <2> QED BY <2>1, Fewer
<1>12. CASE \E d \in Deliveries : CallFails(d)
  <2>1. Unworked' \subseteq Unworked /\ works' = works /\ delivered' = delivered
    BY <1>12 DEF CallFails, Unworked, Gone, NotRun, TypeOK, After
  <2> QED BY <2>1, Fewer
<1>13. CASE \E d \in Deliveries : Work(d)
  <2> PICK d \in Deliveries : Work(d)  BY <1>13
  <2>1. PICK effect \in {0, 1}, next \in {"complete", "fail"} :
            works' = works + effect /\ run' = [run EXCEPT ![d].pc = next]
    BY DEF Work
  <2>2. d \in Unworked  BY DEF Work, Unworked
  <2>3. Unworked' \subseteq Unworked \ {d}
    <3>1. run'[d].pc = next
      BY <2>1, RunIsRecord DEF Work, Running, RunPcs, TypeOK
    <3>2. ASSUME NEW e \in Deliveries, e # d PROVE run'[e] = run[e]
      BY <2>1, <3>2 DEF TypeOK
    <3> QED BY <3>1, <3>2, <2>1 DEF Unworked
  <2>4. IsFiniteSet(Unworked \ {d})
        /\ Cardinality(Unworked \ {d}) = Cardinality(Unworked) - 1
    BY <2>2, UnworkedFinite, FS_RemoveElement
  <2>5. Cardinality(Unworked') <= Cardinality(Unworked \ {d})
        /\ Cardinality(Unworked') \in Nat
    BY <2>3, <2>4, FS_Subset, FS_CardinalityType
  <2>6. delivered' = delivered  BY DEF Work
  <2> QED BY <2>1, <2>4, <2>5, <2>6, UnworkedFinite DEF WorkInv, TypeOK
<1>14. CASE \E d \in Deliveries : Return(d)
  <2>1. Unworked' \subseteq Unworked /\ works' = works /\ delivered' = delivered
    BY <1>14 DEF Return, Unworked, Gone, NotRun, TypeOK, After
  <2> QED BY <2>1, Fewer
<1>15. CASE \E d \in Deliveries : HandlerTimeout(d)
  <2>1. Unworked' \subseteq Unworked /\ works' = works /\ delivered' = delivered
    BY <1>15 DEF HandlerTimeout, Unworked, Gone, NotRun, TypeOK, After
  <2> QED BY <2>1, Fewer
<1>16. CASE \E d \in Deliveries : Deadline(d)
  <2>1. Unworked' \subseteq Unworked /\ works' = works /\ delivered' = delivered
    BY <1>16 DEF Deadline, Unworked, Gone, NotRun, TypeOK, After
  <2> QED BY <2>1, Fewer
<1>17. CASE \E d \in Deliveries : WorkerCrash(d)
  <2>1. Unworked' \subseteq Unworked /\ works' = works /\ delivered' = delivered
    BY <1>17 DEF WorkerCrash, Unworked, Gone, NotRun, TypeOK, After
  <2> QED BY <2>1, Fewer
<1>18. CASE \E d \in Deliveries : Shutdown(d)
  <2>1. Unworked' \subseteq Unworked /\ works' = works /\ delivered' = delivered
    BY <1>18 DEF Shutdown, Unworked, Gone, NotRun, TypeOK, After
  <2> QED BY <2>1, Fewer
<1>19. CASE UNCHANGED vars
  BY <1>19, Fewer DEF vars, Unworked
<1> QED BY <1>1, <1>2, <1>3, <1>4, <1>5, <1>6, <1>7, <1>8, <1>9, <1>10,
           <1>11, <1>12, <1>13, <1>14, <1>15, <1>16, <1>17, <1>18, <1>19
        DEF Next, DispatchStep, RunStep

-----------------------------------------------------------------------------
\* Every reachable state satisfies the inductive invariant.
THEOREM Inductive == Spec => []IInv
<1>1. Init => IInv
  <2> SUFFICES ASSUME Init PROVE IInv  OBVIOUS
  <2>1. TypeOK
    BY BoundsAssumption DEF Init, TypeOK, Rows, NoRow, Runs, ApiPcs, Deliveries, MaxDeliveries
  <2>2. QueueInv /\ OwnerInv /\ DispatchInv
    BY DEF Init, QueueInv, OwnerInv, DispatchInv, DispatchedIsTracked, Owned, Running,
           RunPcs, NotRun, NoRow
  <2>3. SnapInv /\ FreshInv
    BY DEF Init, SnapInv, FreshInv, RowInv, NotRun, NoRow
  <2>4. WorkInv
    <3>1. Unworked = {}  BY DEF Init, Unworked, NotRun
    <3> QED BY <3>1, FS_EmptySet DEF Init, WorkInv
  <2> QED BY <2>1, <2>2, <2>3, <2>4 DEF IInv
<1>2. IInv /\ [Next]_vars => IInv'
  BY TypeStep, QueueStep, OwnerStep, TrackedStep, SnapStep, FreshStep, WorkStep DEF IInv
<1> QED BY <1>1, <1>2, PTL DEF Spec

\* Rows, runs and counters keep their shapes and bounds: asynq delivers at most
\* MaxRetry + 1 times, and once more per shutdown.
THEOREM TypeCorrect == Spec => []TypeOK
<1>1. IInv => TypeOK  BY DEF IInv
<1> QED BY <1>1, Inductive, PTL

\* A dispatched task has a row and had a message, and a message has its row.
THEOREM Tracked == Spec => []DispatchedIsTracked
<1>1. IInv => DispatchedIsTracked  BY DEF IInv, DispatchInv
<1> QED BY <1>1, Inductive, PTL

\* However often the queue retries, the row counts one start.
THEOREM OneStart == Spec => []StartedOnce
<1>1. IInv => StartedOnce  BY DEF IInv, SnapInv, RowInv, StartedOnce
<1> QED BY <1>1, Inductive, PTL

\* The work takes effect at most once per paid delivery, and never are two
\* deliveries owned.
THEOREM BoundedWork == Spec => []WorkIsBounded
<1>1. ASSUME IInv PROVE WorkIsBounded
  <2>1. works <= MaxRetry + restarts + 1
    BY <1>1, UnworkedFinite, BoundsAssumption DEF IInv, TypeOK, QueueInv, WorkInv
  <2>2. \A d, e \in Deliveries : Owned(d) /\ Owned(e) => d = e
    BY <1>1 DEF IInv, OwnerInv
  <2> QED BY <2>1, <2>2 DEF WorkIsBounded
<1> QED BY <1>1, Inductive, PTL

\* After a successful dispatch every change of the row is a permitted transition,
\* although no write checks the row it replaces.
THEOREM NoRace == Spec => WorkersNeverRace
<1>1. ASSUME IInv, [Next]_vars, api.pc = "ok", row' # row
      PROVE  CanTransition(row.status, row'.status)
  <2>1. PICK d \in Deliveries : CallWrite(d)
    BY <1>1 DEF Next, DispatchStep, RunStep, vars, Create, CreateFails, Enqueue, CancelRead,
         CancelWrite, CleanupFails, ApiCrash, Deliver, LeaseExpired, CallRead, CallFails,
         Work, Return, HandlerTimeout, Deadline, WorkerCrash, Shutdown
  <2>2. run[d].snap = row
    BY <1>1, <2>1 DEF IInv, FreshInv, CallWrite
  <2>3. row.status = IF run[d].pc = "start" THEN "pending" ELSE "running"
    BY <1>1, <2>1, <2>2 DEF IInv, SnapInv, CallWrite
  <2> QED BY <2>1, <2>3 DEF CallWrite, Update, Started, Completed, Failed,
                           CanTransition, ValidTransitions
<1>2. IInv /\ [Next]_vars => [api.pc = "ok" /\ row' # row => CanTransition(row.status, row'.status)]_vars
  BY <1>1
<1> QED BY <1>2, Inductive, PTL DEF Spec, WorkersNeverRace
=============================================================================
