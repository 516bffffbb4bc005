--------------------- MODULE SubmissionWorkflow_proofs ---------------------
(***************************************************************************)
(* Theorems about SubmissionWorkflow, for any sets of requests and other   *)
(* callers, any number of retries and any length of the audit trail.  What *)
(* is proved of Applications is used for the application's part.           *)
(***************************************************************************)
EXTENDS SubmissionWorkflow, FiniteSetTheorems, TLAPS

AppProofs == INSTANCE Applications_proofs WITH Writers <- Actors

-----------------------------------------------------------------------------
\* A request that stored "approved" and went on.
Past(r) == req[r].pc \in {"refetch", "queueApp", "dispatch", "ok", "dispatchError"}

\* One decision: a writing request saw the row pending, and only one request
\* is past its approval.
DecisionInv ==
    /\ \A r \in Requests : req[r].pc \in {"approved", "rejected"} => req[r].seen = "pending"
    /\ \A r \in Requests : Past(r) => approval = "approved"
    /\ \A r, s \in Requests : Past(r) /\ Past(s) => r = s

\* Who is touching the application, and for which change.
CallersInv ==
    \A r \in Requests :
        /\ op[r] # App!Idle => req[r].pc = "queueApp" /\ op[r].to = "queued"
        /\ op[Worker(r)] # App!Idle => sub[r] = "update"

\* A message comes from a request past its approval, and a delivery from a
\* message; the next delivery is within the limit.
MessageInv ==
    \A r \in Requests :
        /\ msg[r] # "absent" => req[r].pc \in {"ok", "dispatchError"}
        /\ msg[r] = "absent" => tries[r] = 0
        /\ msg[r] = "waiting" => tries[r] <= MaxRetry
        /\ sub[r] # "none" => msg[r] = "active"

\* A form is paid for by a delivery that is past its filling.
Unfilled(r) == IF sub[r] \in {"fetch", "fill"} THEN 1 ELSE 0
FillInv ==
    /\ fills > 0 => \E r \in Requests : msg[r] # "absent"
    /\ \A r \in Requests : msg[r] # "absent" => fills + Unfilled(r) <= tries[r]

\* Nothing is dispatched before the trail says "queued".
WasQueued == \E k \in 1 .. Len(events) : events[k].new = "queued"
QueuedInv == \A r \in Requests : req[r].pc = "dispatch" \/ msg[r] # "absent" => WasQueued

IInv == /\ TypeOK /\ AppProofs!IInv
        /\ DecisionInv /\ CallersInv /\ MessageInv /\ FillInv /\ QueuedInv

-----------------------------------------------------------------------------
\* The callers have operations of their own.
LEMMA CallersDiffer ==
    /\ Requests \subseteq Actors /\ Others \subseteq Actors
    /\ \A r \in Requests : Worker(r) \in Actors
    /\ \A r, s \in Requests : Worker(r) # s /\ (Worker(r) = Worker(s) => r = s)
    /\ \A r \in Requests, w \in Others : r # w /\ Worker(r) # w
BY ActorsAssumption DEF Actors, Worker

\* The workflow touches the application only through its actions.
LEMMA ApplicationStep ==
    ASSUME [Next]_vars
    PROVE  [App!Next]_appVars
<1>1. CASE \E r \in Requests, to \in {"approved", "rejected"} : DecideRead(r, to)
  BY <1>1 DEF DecideRead, appVars
<1>2. CASE \E r \in Requests : DecideWrite(r)
  BY <1>2 DEF DecideWrite, appVars
<1>3. CASE \E r \in Requests : Refetch(r)
  BY <1>3 DEF Refetch, appVars
<1>4. CASE \E r \in Requests : RequestFails(r)
  BY <1>4 DEF RequestFails, appVars
<1>5. CASE \E r \in Requests : QueueApp(r)
  BY <1>5, CallersDiffer DEF QueueApp, App!Next, App!Status
<1>6. CASE \E r \in Requests : QueueAppRefused(r)
  BY <1>6 DEF QueueAppRefused, appVars
<1>7. CASE \E r \in Requests : Dispatch(r)
  BY <1>7 DEF Dispatch, appVars
<1>8. CASE \E r \in Requests : RequestCrash(r)
  BY <1>8, CallersDiffer DEF RequestCrash, App!Next, App!Status
<1>9. CASE \E r \in Requests : Deliver(r)
  BY <1>9 DEF Deliver, appVars
<1>10. CASE \E r \in Requests : Fetch(r)
  BY <1>10 DEF Fetch, appVars
<1>11. CASE \E r \in Requests : Fill(r)
  BY <1>11 DEF Fill, appVars
<1>12. CASE \E r \in Requests : MarkApplied(r)
  BY <1>12, CallersDiffer DEF MarkApplied, App!Next, App!Status
<1>13. CASE \E r \in Requests : MarkAppliedRefused(r)
  BY <1>13 DEF MarkAppliedRefused, appVars
<1>14. CASE \E r \in Requests : DeliveryLost(r)
  BY <1>14, CallersDiffer DEF DeliveryLost, App!Next, App!Status
<1>15. CASE \E w \in Others : OtherWriter(w)
  BY <1>15, CallersDiffer DEF OtherWriter, App!Next, App!Status
<1>16. CASE UNCHANGED vars
  BY <1>16 DEF vars, appVars, subVars, appVars
<1> QED BY <1>1, <1>2, <1>3, <1>4, <1>5, <1>6, <1>7, <1>8,
           <1>9, <1>10, <1>11, <1>12, <1>13, <1>14, <1>15, <1>16
        DEF Next, RequestStep, SubmitStep

\* So what Applications_proofs shows of the application's steps holds here.
LEMMA ApplicationInv ==
    ASSUME AppProofs!IInv, [Next]_vars
    PROVE  AppProofs!IInv'
<1>1. [AppProofs!Next]_(AppProofs!vars)
  BY ApplicationStep
     DEF appVars, App!Next, AppProofs!Next, AppProofs!vars,
         App!CheckTransition, AppProofs!CheckTransition, App!ReadInTx, AppProofs!ReadInTx,
         App!Commit, AppProofs!Commit, App!Conflict, AppProofs!Conflict, App!Abort, AppProofs!Abort,
         App!CanTransition, AppProofs!CanTransition, App!Transitions, AppProofs!Transitions,
         App!Idle, AppProofs!Idle, App!Status, AppProofs!Status
<1> QED BY <1>1, AppProofs!NextIInv, BoundsAssumption

\* The application's operations and trail have the types proved of them.
LEMMA ApplicationTypes ==
    ASSUME AppProofs!IInv
    PROVE  op \in [Actors -> AppProofs!Ops] /\ events \in Seq(AppProofs!Event)
BY DEF AppProofs!IInv, AppProofs!TypeOK

\* A caller's step leaves the operations of the others alone ...
AppStep(w) == \/ \E to \in App!Status : App!CheckTransition(w, to)
              \/ App!ReadInTx(w) \/ App!Commit(w) \/ App!Conflict(w) \/ App!Abort(w)
\* Only the one who steps changes what it holds.
LEMMA OthersKeepTheirs ==
    ASSUME AppProofs!IInv, NEW w \in Actors, AppStep(w)
    PROVE  \A v \in Actors \ {w} : op'[v] = op[v]
BY ApplicationTypes DEF AppStep, App!CheckTransition, App!ReadInTx, App!Commit, App!Conflict, App!Abort

\* ... begins and goes on for one change of status ...
LEMMA Begins ==
    ASSUME AppProofs!IInv, NEW w \in Actors, NEW to, App!CheckTransition(w, to)
    PROVE  op'[w].to = to
BY ApplicationTypes DEF App!CheckTransition
\* ... reads inside its transaction without changing its mind ...
LEMMA GoesOn ==
    ASSUME AppProofs!IInv, NEW w \in Actors, App!ReadInTx(w)
    PROVE  op[w] # App!Idle /\ op'[w].to = op[w].to
BY ApplicationTypes DEF App!ReadInTx, App!Idle

\* ... and ends by forgetting it.
LEMMA Ends ==
    ASSUME AppProofs!IInv, NEW w \in Actors, App!Commit(w) \/ App!Conflict(w) \/ App!Abort(w)
    PROVE  op'[w] = App!Idle
BY ApplicationTypes DEF App!Commit, App!Conflict, App!Abort

\* The trail keeps its events, and the event of a commit is its change.
LEMMA QueuedStays ==
    ASSUME AppProofs!IInv, [App!Next]_appVars, WasQueued
    PROVE  WasQueued'
<1>1. CASE UNCHANGED events
  BY <1>1 DEF WasQueued
<1>2. CASE \E w \in Actors : App!Commit(w)
  <2> PICK w \in Actors : App!Commit(w)  BY <1>2
  <2>1. /\ op[w].pc = "inTx"
        /\ events' = Append(events, [old |-> op[w].seen, new |-> op[w].to,
                                     from |-> op[w].from, at |-> op[w].at])
    BY DEF App!Commit
  <2>2. PICK k \in 1 .. Len(events) : events[k].new = "queued"
    BY DEF WasQueued
  <2>3. k \in 1 .. Len(events') /\ events'[k] = events[k]
    BY <2>1, ApplicationTypes
  <2> QED BY <2>2, <2>3 DEF WasQueued
<1> QED BY <1>1, <1>2 DEF App!Next, appVars, App!CheckTransition, App!ReadInTx,
                          App!Conflict, App!Abort

\* A commit of queued leaves its trace in the trail.
LEMMA QueuedNow ==
    ASSUME AppProofs!IInv, NEW w \in Actors, App!Commit(w), op[w].to = "queued"
    PROVE  WasQueued'
<1> DEFINE e == [old |-> op[w].seen, new |-> op[w].to,
                 from |-> op[w].from, at |-> op[w].at]
<1>1. events' = Append(events, e) /\ e.new = "queued"
  BY DEF App!Commit
<1> HIDE DEF e
<1>2. Len(events') \in 1 .. Len(events') /\ events'[Len(events')] = e
  BY <1>1, ApplicationTypes
<1> QED BY <1>1, <1>2 DEF WasQueued

-----------------------------------------------------------------------------
\* A step keeps the types; a message within its limit is delivered within it.
LEMMA TypeStep ==
    ASSUME TypeOK, MessageInv, [Next]_vars
    PROVE  TypeOK'
<1> USE BoundsAssumption DEF TypeOK, MessageInv, ApprovalStatus, Goto, Settle,
       appVars, subVars
<1>1. CASE \E r \in Requests, to \in {"approved", "rejected"} : DecideRead(r, to)
  BY <1>1 DEF DecideRead
<1>2. CASE \E r \in Requests : DecideWrite(r)
  BY <1>2 DEF DecideWrite
<1>3. CASE \E r \in Requests : Refetch(r)
  BY <1>3 DEF Refetch
<1>4. CASE \E r \in Requests : RequestFails(r)
  BY <1>4 DEF RequestFails
<1>5. CASE \E r \in Requests : QueueApp(r)
  <2> PICK r \in Requests : QueueApp(r)  BY <1>5
  <2>1. \/ UNCHANGED req
        \/ req' = [req EXCEPT ![r].pc = "dispatch"]
        \/ req' = [req EXCEPT ![r].pc = "dispatchError"]
    BY DEF QueueApp
  <2>2. UNCHANGED <<approval, subVars>>
    BY DEF QueueApp
  <2> QED BY <2>1, <2>2
<1>6. CASE \E r \in Requests : QueueAppRefused(r)
  BY <1>6 DEF QueueAppRefused
<1>7. CASE \E r \in Requests : Dispatch(r)
  <2> PICK r \in Requests : Dispatch(r)  BY <1>7
  <2>1. \E pc \in {"ok", "dispatchError"} : req' = [req EXCEPT ![r].pc = pc]
    BY DEF Dispatch
  <2>2. msg' \in [Requests -> {"absent", "waiting", "active", "done", "archived"}]
    BY DEF Dispatch
  <2>3. UNCHANGED <<approval, tries, sub, fills>>
    BY DEF Dispatch
  <2> HIDE DEF Settle, Goto, MessageInv
  <2>4. req' \in [Requests -> [pc : {"idle", "approved", "rejected", "refetch", "queueApp",
                                    "dispatch", "ok", "dispatchError", "rejectedOK", "failed",
                                    "crashed"},
                              seen : ApprovalStatus]]
    BY <2>1
  <2> QED BY <2>2, <2>3, <2>4
<1>8. CASE \E r \in Requests : RequestCrash(r)
  BY <1>8 DEF RequestCrash
<1>9. CASE \E r \in Requests : Deliver(r)
  BY <1>9 DEF Deliver
<1>10. CASE \E r \in Requests : Fetch(r)
  BY <1>10 DEF Fetch
<1>11. CASE \E r \in Requests : Fill(r)
  BY <1>11 DEF Fill
<1>12. CASE \E r \in Requests : MarkApplied(r)
  <2> PICK r \in Requests : MarkApplied(r)  BY <1>12
  <2>1. UNCHANGED <<msg, sub>> \/ \E ok \in BOOLEAN : Settle(r, ok)
    <3> HIDE DEF Settle
    <3> QED BY DEF MarkApplied
  <2>2. msg' \in [Requests -> {"absent", "waiting", "active", "done", "archived"}]
    BY <2>1
  <2>3. sub' \in [Requests -> {"none", "fetch", "fill", "update"}]
    BY <2>1
  <2>4. UNCHANGED <<approval, req, tries, fills>>
    BY DEF MarkApplied
  <2> HIDE DEF Settle
  <2> QED BY <2>2, <2>3, <2>4
<1>13. CASE \E r \in Requests : MarkAppliedRefused(r)
  BY <1>13 DEF MarkAppliedRefused
<1>14. CASE \E r \in Requests : DeliveryLost(r)
  BY <1>14 DEF DeliveryLost
<1>15. CASE \E w \in Others : OtherWriter(w)
  BY <1>15 DEF OtherWriter
<1>16. CASE UNCHANGED vars
  BY <1>16 DEF vars, appVars, subVars
<1> QED BY <1>1, <1>2, <1>3, <1>4, <1>5, <1>6, <1>7, <1>8,
           <1>9, <1>10, <1>11, <1>12, <1>13, <1>14, <1>15, <1>16
        DEF Next, RequestStep, SubmitStep

\* A step keeps the decision one: the guarded UPDATE finds the row pending or fails.
LEMMA DecisionStep ==
    ASSUME TypeOK, DecisionInv, [Next]_vars
    PROVE  DecisionInv'
<1> USE DEF TypeOK, DecisionInv, Past, Goto, Settle, appVars, subVars, CanDecide,
       ApprovalTransitions, ApprovalStatus
<1>1. CASE \E r \in Requests, to \in {"approved", "rejected"} : DecideRead(r, to)
  BY <1>1 DEF DecideRead
<1>2. CASE \E r \in Requests : DecideWrite(r)
  BY <1>2 DEF DecideWrite
<1>3. CASE \E r \in Requests : Refetch(r)
  BY <1>3 DEF Refetch
<1>4. CASE \E r \in Requests : RequestFails(r)
  BY <1>4 DEF RequestFails
<1>5. CASE \E r \in Requests : QueueApp(r)
  <2> PICK r \in Requests : QueueApp(r)  BY <1>5
  <2>1. /\ req[r].pc = "queueApp"
        /\ \/ UNCHANGED req
           \/ req' = [req EXCEPT ![r].pc = "dispatch"]
           \/ req' = [req EXCEPT ![r].pc = "dispatchError"]
    BY DEF QueueApp
  <2>2. ASSUME NEW s \in Requests
        PROVE  /\ Past(s)' <=> Past(s)
               /\ req'[s].pc \in {"approved", "rejected"} => req'[s] = req[s]
    BY <2>1
  <2>3. UNCHANGED approval
    BY DEF QueueApp
  <2> QED BY <2>2, <2>3
<1>6. CASE \E r \in Requests : QueueAppRefused(r)
  BY <1>6 DEF QueueAppRefused
<1>7. CASE \E r \in Requests : Dispatch(r)
  <2> PICK r \in Requests : Dispatch(r)  BY <1>7
  <2>1. ASSUME NEW s \in Requests
        PROVE  /\ Past(s)' <=> Past(s)
               /\ req'[s].pc \in {"approved", "rejected"} => req'[s] = req[s]
    BY DEF Dispatch
  <2> QED BY <2>1 DEF Dispatch
<1>8. CASE \E r \in Requests : RequestCrash(r)
  BY <1>8 DEF RequestCrash
<1>9. CASE \E r \in Requests : Deliver(r)
  BY <1>9 DEF Deliver
<1>10. CASE \E r \in Requests : Fetch(r)
  BY <1>10 DEF Fetch
<1>11. CASE \E r \in Requests : Fill(r)
  BY <1>11 DEF Fill
<1>12. CASE \E r \in Requests : MarkApplied(r)
  BY <1>12 DEF MarkApplied
<1>13. CASE \E r \in Requests : MarkAppliedRefused(r)
  BY <1>13 DEF MarkAppliedRefused
<1>14. CASE \E r \in Requests : DeliveryLost(r)
  BY <1>14 DEF DeliveryLost
<1>15. CASE \E w \in Others : OtherWriter(w)
  BY <1>15 DEF OtherWriter
<1>16. CASE UNCHANGED vars
  BY <1>16 DEF vars, appVars, subVars
<1> QED BY <1>1, <1>2, <1>3, <1>4, <1>5, <1>6, <1>7, <1>8,
           <1>9, <1>10, <1>11, <1>12, <1>13, <1>14, <1>15, <1>16
        DEF Next, RequestStep, SubmitStep

\* A step keeps each caller to its own change.
LEMMA CallersStep ==
    ASSUME TypeOK, AppProofs!IInv, CallersInv, MessageInv, [Next]_vars
    PROVE  CallersInv'
<1> USE DEF TypeOK, CallersInv, Goto, Settle, appVars, subVars
<1>1. CASE \E r \in Requests, to \in {"approved", "rejected"} : DecideRead(r, to)
  BY <1>1 DEF DecideRead
<1>2. CASE \E r \in Requests : DecideWrite(r)
  BY <1>2 DEF DecideWrite
<1>3. CASE \E r \in Requests : Refetch(r)
  BY <1>3 DEF Refetch
<1>4. CASE \E r \in Requests : RequestFails(r)
  BY <1>4 DEF RequestFails
<1>5. CASE \E r \in Requests : QueueApp(r)
  <2> PICK r \in Requests : QueueApp(r)  BY <1>5
  <2>1. AppStep(r)  BY DEF QueueApp, AppStep, App!Status
  <2>2. ASSUME NEW s \in Requests
        PROVE  op'[Worker(s)] = op[Worker(s)] /\ sub'[s] = sub[s]
               /\ (s # r => op'[s] = op[s] /\ req'[s] = req[s])
    BY <2>1, OthersKeepTheirs, CallersDiffer DEF QueueApp, Goto
  <2>3. op'[r] # App!Idle => req'[r].pc = "queueApp" /\ op'[r].to = "queued"
    BY CallersDiffer, Begins, GoesOn, Ends DEF QueueApp
  <2> QED BY <2>2, <2>3
<1>6. CASE \E r \in Requests : QueueAppRefused(r)
  BY <1>6 DEF QueueAppRefused
<1>7. CASE \E r \in Requests : Dispatch(r)
  BY <1>7 DEF Dispatch
<1>8. CASE \E r \in Requests : RequestCrash(r)
  <2> PICK r \in Requests : RequestCrash(r)  BY <1>8
  <2>1. op'[r] = App!Idle  BY CallersDiffer, Ends DEF RequestCrash, appVars
  <2>2. ASSUME NEW s \in Requests
        PROVE  op'[Worker(s)] = op[Worker(s)] /\ sub'[s] = sub[s]
               /\ (s # r => op'[s] = op[s] /\ req'[s] = req[s])
    BY OthersKeepTheirs, CallersDiffer DEF RequestCrash, AppStep, appVars, Goto
  <2> QED BY <2>1, <2>2
<1>9. CASE \E r \in Requests : Deliver(r)
  BY <1>9 DEF Deliver, MessageInv
<1>10. CASE \E r \in Requests : Fetch(r)
  BY <1>10 DEF Fetch
<1>11. CASE \E r \in Requests : Fill(r)
  BY <1>11 DEF Fill
<1>12. CASE \E r \in Requests : MarkApplied(r)
  <2> PICK r \in Requests : MarkApplied(r)  BY <1>12
  <2>1. AppStep(Worker(r))  BY DEF MarkApplied, AppStep, App!Status
  <2>2. ASSUME NEW s \in Requests
        PROVE  op'[s] = op[s] /\ req'[s] = req[s]
               /\ (s # r => op'[Worker(s)] = op[Worker(s)] /\ sub'[s] = sub[s])
    BY <2>1, OthersKeepTheirs, CallersDiffer DEF MarkApplied, Settle
  <2>3. op'[Worker(r)] # App!Idle => sub'[r] = "update"
    BY CallersDiffer, Ends DEF MarkApplied
  <2> QED BY <2>2, <2>3
<1>13. CASE \E r \in Requests : MarkAppliedRefused(r)
  BY <1>13 DEF MarkAppliedRefused
<1>14. CASE \E r \in Requests : DeliveryLost(r)
  <2> PICK r \in Requests : DeliveryLost(r)  BY <1>14
  <2>1. op'[Worker(r)] = App!Idle  BY CallersDiffer, Ends DEF DeliveryLost, appVars
  <2>2. ASSUME NEW s \in Requests
        PROVE  op'[s] = op[s] /\ req'[s] = req[s]
               /\ (s # r => op'[Worker(s)] = op[Worker(s)] /\ sub'[s] = sub[s])
    BY OthersKeepTheirs, CallersDiffer DEF DeliveryLost, AppStep, appVars, Settle
  <2> QED BY <2>1, <2>2
<1>15. CASE \E w \in Others : OtherWriter(w)
  <2> PICK w \in Others : OtherWriter(w)  BY <1>15
  <2>1. ASSUME NEW s \in Requests
        PROVE  op'[s] = op[s] /\ op'[Worker(s)] = op[Worker(s)]
    BY OthersKeepTheirs, CallersDiffer DEF OtherWriter, AppStep
  <2> QED BY <2>1 DEF OtherWriter, subVars
<1>16. CASE UNCHANGED vars
  BY <1>16 DEF vars, appVars, subVars
<1> QED BY <1>1, <1>2, <1>3, <1>4, <1>5, <1>6, <1>7, <1>8,
           <1>9, <1>10, <1>11, <1>12, <1>13, <1>14, <1>15, <1>16
        DEF Next, RequestStep, SubmitStep

\* A step keeps the messages with their requests.
LEMMA MessageStep ==
    ASSUME TypeOK, MessageInv, [Next]_vars
    PROVE  MessageInv'
<1> USE BoundsAssumption DEF TypeOK, MessageInv, Goto, Settle, subVars
<1>1. CASE \E r \in Requests, to \in {"approved", "rejected"} : DecideRead(r, to)
  BY <1>1 DEF DecideRead
<1>2. CASE \E r \in Requests : DecideWrite(r)
  BY <1>2 DEF DecideWrite
<1>3. CASE \E r \in Requests : Refetch(r)
  BY <1>3 DEF Refetch
<1>4. CASE \E r \in Requests : RequestFails(r)
  BY <1>4 DEF RequestFails
<1>5. CASE \E r \in Requests : QueueApp(r)
  BY <1>5 DEF QueueApp
<1>6. CASE \E r \in Requests : QueueAppRefused(r)
  BY <1>6 DEF QueueAppRefused
<1>7. CASE \E r \in Requests : Dispatch(r)
  BY <1>7 DEF Dispatch
<1>8. CASE \E r \in Requests : RequestCrash(r)
  BY <1>8 DEF RequestCrash
<1>9. CASE \E r \in Requests : Deliver(r)
  BY <1>9 DEF Deliver
<1>10. CASE \E r \in Requests : Fetch(r)
  BY <1>10 DEF Fetch
<1>11. CASE \E r \in Requests : Fill(r)
  BY <1>11 DEF Fill
<1>12. CASE \E r \in Requests : MarkApplied(r)
  BY <1>12 DEF MarkApplied
<1>13. CASE \E r \in Requests : MarkAppliedRefused(r)
  BY <1>13 DEF MarkAppliedRefused
<1>14. CASE \E r \in Requests : DeliveryLost(r)
  BY <1>14 DEF DeliveryLost
<1>15. CASE \E w \in Others : OtherWriter(w)
  BY <1>15 DEF OtherWriter
<1>16. CASE UNCHANGED vars
  BY <1>16 DEF vars, appVars, subVars
<1> QED BY <1>1, <1>2, <1>3, <1>4, <1>5, <1>6, <1>7, <1>8,
           <1>9, <1>10, <1>11, <1>12, <1>13, <1>14, <1>15, <1>16
        DEF Next, RequestStep, SubmitStep

\* A step keeps the account of the forms: each is paid for by a delivery of the one
\* message there is.
LEMMA FillStep ==
    ASSUME TypeOK, DecisionInv, MessageInv, FillInv, [Next]_vars
    PROVE  FillInv'
<1> USE DEF TypeOK, FillInv, Unfilled, Goto, Settle, subVars
<1>1. CASE \E r \in Requests, to \in {"approved", "rejected"} : DecideRead(r, to)
  BY <1>1 DEF DecideRead
<1>2. CASE \E r \in Requests : DecideWrite(r)
  BY <1>2 DEF DecideWrite
<1>3. CASE \E r \in Requests : Refetch(r)
  BY <1>3 DEF Refetch
<1>4. CASE \E r \in Requests : RequestFails(r)
  BY <1>4 DEF RequestFails
<1>5. CASE \E r \in Requests : QueueApp(r)
  BY <1>5 DEF QueueApp
<1>6. CASE \E r \in Requests : QueueAppRefused(r)
  BY <1>6 DEF QueueAppRefused
<1>7. CASE \E r \in Requests : Dispatch(r)
  <2> PICK r \in Requests : Dispatch(r)  BY <1>7
  <2>1. fills = 0  BY DEF Dispatch, MessageInv, DecisionInv, Past
  <2> QED BY <2>1 DEF Dispatch, MessageInv
<1>8. CASE \E r \in Requests : RequestCrash(r)
  BY <1>8 DEF RequestCrash
<1>9. CASE \E r \in Requests : Deliver(r)
  BY <1>9 DEF Deliver
<1>10. CASE \E r \in Requests : Fetch(r)
  <2> PICK r \in Requests : Fetch(r)  BY <1>10
  <2>1. ASSUME NEW s \in Requests
        PROVE  /\ msg'[s] # "absent" <=> msg[s] # "absent"
               /\ Unfilled(s)' <= Unfilled(s) /\ Unfilled(s)' \in 0 .. 1 /\ Unfilled(s) \in 0 .. 1
    BY DEF Fetch, MessageInv
  <2>2. fills' = fills /\ tries' = tries  BY DEF Fetch
  <2> HIDE DEF Unfilled
  <2> QED BY <2>1, <2>2
<1>11. CASE \E r \in Requests : Fill(r)
  <2> PICK r \in Requests : Fill(r)  BY <1>11
  <2>1. msg[r] # "absent"  BY DEF Fill, MessageInv
  <2>2. \A s \in Requests : msg[s] # "absent" => s = r
    BY <2>1 DEF MessageInv, DecisionInv, Past
  <2> QED BY <2>1, <2>2 DEF Fill
<1>12. CASE \E r \in Requests : MarkApplied(r)
  <2> PICK r \in Requests : MarkApplied(r)  BY <1>12
  <2>1. ASSUME NEW s \in Requests
        PROVE  /\ msg'[s] # "absent" <=> msg[s] # "absent"
               /\ Unfilled(s)' <= Unfilled(s) /\ Unfilled(s)' \in 0 .. 1 /\ Unfilled(s) \in 0 .. 1
    BY DEF MarkApplied, MessageInv
  <2>2. fills' = fills /\ tries' = tries  BY DEF MarkApplied
  <2> HIDE DEF Unfilled
  <2> QED BY <2>1, <2>2
<1>13. CASE \E r \in Requests : MarkAppliedRefused(r)
  <2> PICK r \in Requests : MarkAppliedRefused(r)  BY <1>13
  <2>1. ASSUME NEW s \in Requests
        PROVE  /\ msg'[s] # "absent" <=> msg[s] # "absent"
               /\ Unfilled(s)' <= Unfilled(s) /\ Unfilled(s)' \in 0 .. 1 /\ Unfilled(s) \in 0 .. 1
    BY DEF MarkAppliedRefused, MessageInv
  <2>2. fills' = fills /\ tries' = tries  BY DEF MarkAppliedRefused
  <2> HIDE DEF Unfilled
  <2> QED BY <2>1, <2>2
<1>14. CASE \E r \in Requests : DeliveryLost(r)
  <2> PICK r \in Requests : DeliveryLost(r)  BY <1>14
  <2>1. msg[r] # "absent"  BY DEF DeliveryLost, MessageInv
  <2>2. \A s \in Requests : msg[s] # "absent" => s = r
    BY <2>1 DEF MessageInv, DecisionInv, Past
  <2> QED BY <2>1, <2>2 DEF DeliveryLost
<1>15. CASE \E w \in Others : OtherWriter(w)
  BY <1>15 DEF OtherWriter
<1>16. CASE UNCHANGED vars
  BY <1>16 DEF vars, appVars, subVars
<1> QED BY <1>1, <1>2, <1>3, <1>4, <1>5, <1>6, <1>7, <1>8,
           <1>9, <1>10, <1>11, <1>12, <1>13, <1>14, <1>15, <1>16
        DEF Next, RequestStep, SubmitStep

\* A step keeps the trail ahead of the queue.
LEMMA QueuedStep ==
    ASSUME TypeOK, AppProofs!IInv, CallersInv, MessageInv, QueuedInv, [Next]_vars
    PROVE  QueuedInv'
<1> USE DEF TypeOK, QueuedInv, MessageInv, Goto, Settle, appVars, subVars
<1>0. WasQueued => WasQueued'
  BY ApplicationStep, QueuedStays
<1>1. CASE \E r \in Requests, to \in {"approved", "rejected"} : DecideRead(r, to)
  BY <1>1, <1>0 DEF DecideRead
<1>2. CASE \E r \in Requests : DecideWrite(r)
  BY <1>2, <1>0 DEF DecideWrite
<1>3. CASE \E r \in Requests : Refetch(r)
  BY <1>3, <1>0 DEF Refetch
<1>4. CASE \E r \in Requests : RequestFails(r)
  BY <1>4, <1>0 DEF RequestFails
<1>5. CASE \E r \in Requests : QueueApp(r)
  <2> PICK r \in Requests : QueueApp(r)  BY <1>5
  <2>1. ASSUME App!Commit(r) PROVE WasQueued'
    <3>1. op[r] # App!Idle  BY <2>1 DEF App!Commit, App!Idle
    <3>2. op[r].to = "queued"  BY <3>1 DEF CallersInv
    <3> QED BY <2>1, <3>2, CallersDiffer, QueuedNow
  <2> QED BY <2>1, <1>0 DEF QueueApp
<1>6. CASE \E r \in Requests : QueueAppRefused(r)
  BY <1>6, <1>0 DEF QueueAppRefused
<1>7. CASE \E r \in Requests : Dispatch(r)
  BY <1>7, <1>0 DEF Dispatch
<1>8. CASE \E r \in Requests : RequestCrash(r)
  BY <1>8, <1>0 DEF RequestCrash
<1>9. CASE \E r \in Requests : Deliver(r)
  BY <1>9, <1>0 DEF Deliver
<1>10. CASE \E r \in Requests : Fetch(r)
  BY <1>10, <1>0 DEF Fetch
<1>11. CASE \E r \in Requests : Fill(r)
  BY <1>11, <1>0 DEF Fill
<1>12. CASE \E r \in Requests : MarkApplied(r)
  BY <1>12, <1>0 DEF MarkApplied
<1>13. CASE \E r \in Requests : MarkAppliedRefused(r)
  BY <1>13, <1>0 DEF MarkAppliedRefused
<1>14. CASE \E r \in Requests : DeliveryLost(r)
  BY <1>14, <1>0 DEF DeliveryLost
<1>15. CASE \E w \in Others : OtherWriter(w)
  BY <1>15, <1>0 DEF OtherWriter
<1>16. CASE UNCHANGED vars
  BY <1>16, <1>0 DEF vars, appVars, subVars
<1> QED BY <1>1, <1>2, <1>3, <1>4, <1>5, <1>6, <1>7, <1>8,
           <1>9, <1>10, <1>11, <1>12, <1>13, <1>14, <1>15, <1>16
        DEF Next, RequestStep, SubmitStep

-----------------------------------------------------------------------------
\* Every reachable state satisfies the inductive invariant.
THEOREM Inductive == Spec => []IInv
<1>1. Init => IInv
  <2> SUFFICES ASSUME Init PROVE IInv  OBVIOUS
  <2>1. AppProofs!IInv
    <3>1. AppProofs!Init  BY DEF Init, App!Init, AppProofs!Init, App!Idle, AppProofs!Idle
    <3> QED BY <3>1, AppProofs!InitIInv, BoundsAssumption
  <2>2. \A w \in Actors : op[w] = App!Idle  BY DEF Init, App!Init
  <2>3. TypeOK  BY BoundsAssumption DEF Init, TypeOK, ApprovalStatus
  <2>4. DecisionInv /\ MessageInv /\ FillInv /\ QueuedInv
    BY BoundsAssumption DEF Init, DecisionInv, Past, MessageInv, FillInv, Unfilled, QueuedInv
  <2>5. CallersInv  BY <2>2, CallersDiffer DEF CallersInv
  <2> QED BY <2>1, <2>3, <2>4, <2>5 DEF IInv
<1>2. IInv /\ [Next]_vars => IInv'
  BY TypeStep, ApplicationInv, DecisionStep, CallersStep, MessageStep, FillStep, QueuedStep DEF IInv
<1> QED BY <1>1, <1>2, PTL DEF Spec

\* The workflow's rows, messages and deliveries keep their shapes and bounds: a
\* submission is delivered at most MaxRetry + 1 times.
THEOREM TypeCorrect == Spec => []TypeOK
<1>1. IInv => TypeOK  BY DEF IInv
<1> QED BY <1>1, Inductive, PTL

\* Every step of the workflow, of a worker and of anybody else is, for the application,
\* a step of module Applications: what is proved of that module holds in the workflow.
THEOREM UsesApplications == Spec => App!Init /\ [][App!Next]_appVars
<1>1. Init => App!Init  BY DEF Init
<1>2. [Next]_vars => [App!Next]_appVars  BY ApplicationStep
<1> QED BY <1>1, <1>2, PTL DEF Spec

\* Until the approval is stored as approved nobody submits, queues or touches the
\* application on its behalf, and a submission finds the application queued before it.
THEOREM Gate == Spec => []NothingBeforeApproval
<1>1. ASSUME IInv PROVE NothingBeforeApproval
  <2> USE <1>1 DEF IInv
  <2>1. ASSUME approval # "approved", NEW r \in Requests
        PROVE  msg[r] = "absent" /\ op[r] = App!Idle /\ op[Worker(r)] = App!Idle
    <3>1. ~Past(r)  BY <2>1 DEF DecisionInv
    <3>2. msg[r] = "absent" /\ op[r] = App!Idle
      BY <3>1 DEF Past, MessageInv, CallersInv
    <3>3. op[Worker(r)] = App!Idle
      BY <3>2 DEF MessageInv, CallersInv
    <3> QED BY <3>2, <3>3
  <2>2. approval # "approved" => fills = 0
    BY <2>1 DEF FillInv, TypeOK
  <2>3. (\E r \in Requests : msg[r] # "absent") => WasQueued
    BY DEF QueuedInv
  <2> QED BY <2>1, <2>2, <2>3 DEF NothingBeforeApproval, WasQueued
<1> QED BY <1>1, Inductive, PTL

\* However many requests race, one of them queues a submission, and the portal
\* receives at most one form per delivery of it.
THEOREM OneSeries == Spec => []OneSubmissionSeries
<1>1. ASSUME IInv PROVE OneSubmissionSeries
  <2> DEFINE M == {r \in Requests : msg[r] # "absent"}
  <2>1. \A r, s \in M : r = s
    BY <1>1 DEF IInv, MessageInv, DecisionInv, Past
  <2>2. Cardinality(M) <= 1 /\ fills <= MaxRetry + 1
    <3>1. CASE M = {}
      <4>1. Cardinality(M) = 0
        BY <3>1, FS_EmptySet
      <4>2. fills = 0
        BY <3>1, <1>1 DEF IInv, FillInv, TypeOK
      <4> QED BY <4>1, <4>2, BoundsAssumption
    <3>2. CASE \E r \in M : TRUE
      <4> PICK r \in M : TRUE  BY <3>2
      <4>1. M = {r}  BY <2>1
      <4>2. Cardinality(M) = 1  BY <4>1, FS_Singleton
      <4>3. fills + Unfilled(r) <= tries[r] /\ tries[r] \in 0 .. MaxRetry + 1
        BY <1>1 DEF IInv, FillInv, TypeOK
      <4> QED BY <1>1, <4>2, <4>3, BoundsAssumption DEF Unfilled, IInv, TypeOK
    <3> QED BY <3>1, <3>2
  <2> QED BY <2>2 DEF OneSubmissionSeries
<1> QED BY <1>1, Inductive, PTL

\* The stored decision follows the approval's transition table and is taken once,
\* whatever the order of the reads and the writes of the requests.
THEOREM Decides == Spec => DecidedOnce
<1>1. Init => Decision!Init  BY DEF Init, Decision!Init
<1>2. ASSUME IInv, [Next]_vars PROVE [Decision!Next]_approval
  <2>1. SUFFICES ASSUME approval' # approval PROVE Decision!Next  OBVIOUS
  <2>2. PICK r \in Requests : DecideWrite(r)
    BY <1>2, <2>1 DEF Next, RequestStep, SubmitStep, vars, DecideRead, Refetch, RequestFails,
         QueueApp, QueueAppRefused, Dispatch, RequestCrash, Deliver, Fetch, Fill,
         MarkApplied, MarkAppliedRefused, DeliveryLost, OtherWriter
  <2>3. approval = "pending" /\ approval' \in {"approved", "rejected"}
    BY <1>2, <2>2 DEF IInv, DecisionInv, DecideWrite
  <2> QED BY <2>3 DEF Decision!Next, ApprovalStatus, CanDecide, ApprovalTransitions
<1> QED BY <1>1, <1>2, Inductive, PTL DEF Spec, DecidedOnce, Decision!Spec
=============================================================================
