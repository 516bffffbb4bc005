------------------------ MODULE Applications_proofs ------------------------
(***************************************************************************)
(* Theorems about Applications, for any set of writers and any length of   *)
(* the audit trail.                                                        *)
(***************************************************************************)
EXTENDS Applications, TLAPS

-----------------------------------------------------------------------------
\* A change the table permits moves an application strictly forward, so no
\* chain of permitted changes returns to a status it has left.
Rank == [draft |-> 0, queued |-> 1, applied |-> 2, assessment |-> 3,
         phone_screen |-> 4, technical |-> 5, final |-> 6, offer |-> 7,
         rejected |-> 8]

\* What is known of a writer between its check and its commit: the status its
\* check read was the row's status then and permits the change, and the status
\* its transaction read was the row's status when it took its timestamp.
Checked(o) == /\ o.from \in 0 .. Len(events)
              /\ CanTransition(StatusAt(o.from), o.to)

OpsInv == \A w \in Writers :
              /\ op[w] # Idle => Checked(op[w])
              /\ op[w].pc = "inTx" => /\ op[w].at \in 0 .. Len(events)
                                      /\ op[w].seen = StatusAt(op[w].at)

\* Every status of the trail, not only the last, has left its timestamp.
TimestampsInv ==
    \A k \in 0 .. Len(events) :
        /\ StatusAt(k) \in LaterStages \cup {"applied"} => appliedAt
        /\ StatusAt(k) \in {"offer", "rejected"} => responseAt

RankInv == LegalTrail => \A i, j \in 0 .. Len(events) :
                             i < j => Rank[StatusAt(i)] < Rank[StatusAt(j)]

IInv == /\ TypeOK
        /\ AuditTrailIsChain
        /\ OpsInv
        /\ EveryChangeWasOnceLegal
        /\ TimestampsInv
        /\ RankInv
        /\ TimelineInCommitOrder

-----------------------------------------------------------------------------
\* The transition table only permits moves to a higher rank.
LEMMA TransitionsClimb ==
    ASSUME NEW s \in Status, NEW t \in Status, CanTransition(s, t)
    PROVE  Rank[s] \in Nat /\ Rank[t] \in Nat /\ Rank[s] < Rank[t]
BY DEF Status, CanTransition, Transitions, Rank

\* A stage after submission is only permitted from one that is itself not
\* before submission: model.go leads to them from "applied" on.
LEMMA LaterStagesAreGuarded ==
    ASSUME NEW s \in Status, NEW t \in LaterStages, CanTransition(s, t)
    PROVE  s \in LaterStages \cup {"applied"}
BY DEF Status, CanTransition, Transitions, LaterStages

\* The statuses of the trail are statuses of the pipeline.
LEMMA StatusAtType ==
    ASSUME TypeOK, NEW k \in 0 .. Len(events)
    PROVE  StatusAt(k) \in Status
<1>1. CASE k = 0
  BY <1>1 DEF StatusAt, Status
<1>2. CASE k # 0
  <2>1. k \in 1 .. Len(events) /\ events[k] \in Event
    BY <1>2 DEF TypeOK
  <2>2. QED BY <1>2, <2>1 DEF StatusAt, Event
<1>3. QED BY <1>1, <1>2

\* A commit extends the trail by one status and leaves the earlier ones.
LEMMA CommitExtends ==
    ASSUME TypeOK, NEW w \in Writers, Commit(w)
    PROVE  /\ op[w] \in [pc : {"inTx"}, to : Status, from : Nat, seen : Status, at : Nat]
           /\ Len(events') = Len(events) + 1
           /\ \A k \in 1 .. Len(events) : events'[k] = events[k]
           /\ events'[Len(events) + 1] = [old |-> op[w].seen, new |-> op[w].to,
                                          from |-> op[w].from, at |-> op[w].at]
           /\ \A k \in 0 .. Len(events) : StatusAt(k)' = StatusAt(k)
           /\ StatusAt(Len(events))' = op[w].to
<1> DEFINE e == [old |-> op[w].seen, new |-> op[w].to,
                 from |-> op[w].from, at |-> op[w].at]
<1>1. op[w] \in [pc : {"inTx"}, to : Status, from : Nat, seen : Status, at : Nat]
  BY DEF TypeOK, Ops, Idle, Commit
<1>2. e \in Event /\ events \in Seq(Event) /\ events' = Append(events, e)
  BY <1>1 DEF TypeOK, Event, Commit
<1> HIDE DEF e
<1>3. /\ Len(events') = Len(events) + 1
      /\ \A k \in 1 .. Len(events) : events'[k] = events[k]
      /\ events'[Len(events) + 1] = e
      /\ Len(events) \in Nat
  BY <1>2
<1>4. \A k \in 0 .. Len(events) : StatusAt(k)' = StatusAt(k)
  BY <1>3 DEF StatusAt
<1>5. StatusAt(Len(events))' = op[w].to
  BY <1>3 DEF StatusAt, e
<1>6. QED BY <1>1, <1>3, <1>4, <1>5 DEF e

-----------------------------------------------------------------------------
\* The invariant is inductive: the initial state.
LEMMA InitIInv == Init => IInv
<1> SUFFICES ASSUME Init PROVE IInv
  OBVIOUS
<1>1. events = <<>> /\ Len(events) = 0 /\ StatusAt(0) = "draft"
  BY DEF Init, StatusAt
<1>2. TypeOK
  <2>1. <<>> \in Seq(Event)
    OBVIOUS
  <2>2. Idle \in Ops /\ "draft" \in Status
    BY DEF Ops, Status
  <2>3. QED BY <2>1, <2>2 DEF Init, TypeOK
<1>3. OpsInv
  BY DEF Init, OpsInv, Idle
<1>4. QED
  BY <1>1, <1>2, <1>3 DEF Init, IInv, AuditTrailIsChain, EveryChangeWasOnceLegal,
     TimestampsInv, RankInv, TimelineInCommitOrder, LaterStages

\* A step that leaves the row and its trail alone keeps what the invariant
\* says of them, and what it says of every writer whose operation is the same.
LEMMA RowUnchanged ==
    ASSUME IInv, UNCHANGED <<status, appliedAt, responseAt, events>>,
           op' \in [Writers -> Ops], OpsInv'
    PROVE  IInv'
<1>1. \A k : StatusAt(k)' = StatusAt(k)
  BY DEF StatusAt
<1>2. TypeOK'
  BY DEF IInv, TypeOK
<1>3. LegalTrail' = LegalTrail
  BY DEF LegalTrail
<1>4. AuditTrailIsChain' /\ EveryChangeWasOnceLegal' /\ TimestampsInv'
  BY <1>1 DEF IInv, AuditTrailIsChain, EveryChangeWasOnceLegal, TimestampsInv
<1>5. RankInv' /\ TimelineInCommitOrder'
  BY <1>1, <1>3 DEF IInv, RankInv, TimelineInCommitOrder
<1>6. QED BY <1>2, <1>4, <1>5 DEF IInv

\* Service.UpdateStatus's check establishes what the writer will rely on.
LEMMA CheckTransitionIInv ==
    ASSUME IInv, NEW w \in Writers, NEW to \in Status, CheckTransition(w, to)
    PROVE  IInv'
<1> DEFINE o == [pc |-> "checked", to |-> to, from |-> Len(events)]
<1>1. Len(events) \in Nat /\ o \in Ops
  BY DEF IInv, TypeOK, Ops
<1>2. op' = [op EXCEPT ![w] = o] /\ UNCHANGED <<status, appliedAt, responseAt, events>>
  BY DEF CheckTransition
<1>3. op' \in [Writers -> Ops]
  BY <1>1, <1>2 DEF IInv, TypeOK
<1>4. CanTransition(StatusAt(Len(events)), to)
  BY DEF CheckTransition, IInv, AuditTrailIsChain
<1>5. ASSUME NEW v \in Writers
      PROVE  /\ op'[v] # Idle => Checked(op'[v])
             /\ op'[v].pc = "inTx" => /\ op'[v].at \in 0 .. Len(events)
                                      /\ op'[v].seen = StatusAt(op'[v].at)
  <2>1. CASE v = w
    BY <1>1, <1>2, <1>4, <2>1 DEF Checked, IInv, TypeOK
  <2>2. CASE v # w
    BY <1>2, <2>2 DEF IInv, TypeOK, OpsInv
  <2>3. QED BY <2>1, <2>2
<1>6. OpsInv'
  BY <1>2, <1>5 DEF OpsInv, Checked, StatusAt
<1>7. QED BY <1>2, <1>3, <1>6, RowUnchanged

\* The second read keeps the check's position and records its own.
LEMMA ReadInTxIInv ==
    ASSUME IInv, NEW w \in Writers, ReadInTx(w)
    PROVE  IInv'
<1> DEFINE o == [pc |-> "inTx", to |-> op[w].to, from |-> op[w].from,
                 seen |-> status, at |-> Len(events)]
<1>1. Len(events) \in Nat /\ op[w] \in Ops /\ op[w].pc = "checked"
  BY DEF IInv, TypeOK, ReadInTx
<1>2. op[w].to \in Status /\ op[w].from \in Nat /\ o \in Ops /\ op[w] # Idle
  BY <1>1 DEF Ops, Idle, IInv, TypeOK
<1>3. op' = [op EXCEPT ![w] = o] /\ UNCHANGED <<status, appliedAt, responseAt, events>>
  BY DEF ReadInTx
<1>4. op' \in [Writers -> Ops]
  BY <1>2, <1>3 DEF IInv, TypeOK
<1>5. Checked(op[w]) /\ status = StatusAt(Len(events))
  BY <1>2 DEF IInv, OpsInv, AuditTrailIsChain
<1>6. ASSUME NEW v \in Writers
      PROVE  /\ op'[v] # Idle => Checked(op'[v])
             /\ op'[v].pc = "inTx" => /\ op'[v].at \in 0 .. Len(events)
                                      /\ op'[v].seen = StatusAt(op'[v].at)
  <2>1. CASE v = w
    BY <1>1, <1>3, <1>5, <2>1 DEF Checked, IInv, TypeOK
  <2>2. CASE v # w
    BY <1>3, <2>2 DEF IInv, TypeOK, OpsInv
  <2>3. QED BY <2>1, <2>2
<1>7. OpsInv'
  BY <1>3, <1>6 DEF OpsInv, Checked, StatusAt
<1>8. QED BY <1>3, <1>4, <1>7, RowUnchanged

\* Giving up, for whatever reason, only forgets the writer's own operation.
LEMMA GiveUpIInv ==
    ASSUME IInv, NEW w \in Writers, Conflict(w) \/ Abort(w)
    PROVE  IInv'
<1>1. op' = [op EXCEPT ![w] = Idle] /\ UNCHANGED <<status, appliedAt, responseAt, events>>
  BY DEF Conflict, Abort
<1>2. op' \in [Writers -> Ops]
  BY <1>1 DEF IInv, TypeOK, Ops
<1>3. ASSUME NEW v \in Writers
      PROVE  /\ op'[v] # Idle => Checked(op'[v])
             /\ op'[v].pc = "inTx" => /\ op'[v].at \in 0 .. Len(events)
                                      /\ op'[v].seen = StatusAt(op'[v].at)
  <2>1. CASE v = w
    BY <1>1, <2>1 DEF IInv, TypeOK, Idle
  <2>2. CASE v # w
    BY <1>1, <2>2 DEF IInv, TypeOK, OpsInv
  <2>3. QED BY <2>1, <2>2
<1>4. OpsInv'
  BY <1>1, <1>3 DEF OpsInv, Checked, StatusAt
<1>5. QED BY <1>1, <1>2, <1>4, RowUnchanged

-----------------------------------------------------------------------------
\* The guarded UPDATE, conjunct by conjunct.
LEMMA CommitIInv ==
    ASSUME IInv, NEW w \in Writers, Commit(w)
    PROVE  IInv'
<1> DEFINE n == Len(events)
           e == [old |-> op[w].seen, new |-> op[w].to,
                 from |-> op[w].from, at |-> op[w].at]
<1> USE DEF IInv
<1>1. /\ op[w] \in [pc : {"inTx"}, to : Status, from : Nat, seen : Status, at : Nat]
      /\ n \in Nat
      /\ Len(events') = n + 1
      /\ \A k \in 1 .. n : events'[k] = events[k]
      /\ events'[n + 1] = e
      /\ \A k \in 0 .. n : StatusAt(k)' = StatusAt(k)
      /\ StatusAt(Len(events))' = op[w].to
  BY CommitExtends DEF TypeOK
<1>2. op[w] # Idle /\ op[w].pc = "inTx" /\ op' = [op EXCEPT ![w] = Idle]
  BY DEF Commit, Idle
<1>3. /\ op[w].from \in 0 .. n
      /\ CanTransition(StatusAt(op[w].from), op[w].to)
      /\ op[w].at \in 0 .. n
      /\ status = StatusAt(op[w].at)
      /\ status = StatusAt(n)
  BY <1>2 DEF OpsInv, Checked, AuditTrailIsChain, Commit
<1>4. TypeOK'
  <2>1. e \in Event /\ Idle \in Ops
    BY <1>1 DEF Event, Ops
  <2>2. events' \in Seq(Event)
    BY <2>1 DEF TypeOK, Commit
  <2>3. status' \in Status /\ appliedAt' \in BOOLEAN /\ responseAt' \in BOOLEAN
    BY <1>1 DEF TypeOK, Commit
  <2>4. op' \in [Writers -> Ops]
    BY <1>2, <2>1 DEF TypeOK
  <2>5. QED BY <2>2, <2>3, <2>4 DEF TypeOK
<1>5. AuditTrailIsChain'
  <2>1. ASSUME NEW k \in 1 .. n + 1
        PROVE  events'[k].old = StatusAt(k - 1)'
    <3>1. CASE k = n + 1
      BY <1>1, <1>3, <3>1 DEF Commit
    <3>2. CASE k \in 1 .. n
      <4>1. k - 1 \in 0 .. n
        BY <3>2, <1>1
      <4>2. QED BY <1>1, <3>2, <4>1 DEF AuditTrailIsChain
    <3>3. QED BY <1>1, <3>1, <3>2
  <2>2. status' = StatusAt(Len(events))'
    BY <1>1 DEF Commit
  <2>3. QED BY <1>1, <2>1, <2>2 DEF AuditTrailIsChain
<1>6. OpsInv'
  <2>1. ASSUME NEW v \in Writers, op'[v] # Idle \/ op'[v].pc = "inTx"
        PROVE  v # w /\ op'[v] = op[v]
    BY <1>2, <2>1 DEF TypeOK, Idle
  <2>2. ASSUME NEW v \in Writers, op'[v] # Idle
        PROVE  Checked(op[v])'
    BY <1>1, <2>1, <2>2 DEF OpsInv, Checked
  <2>3. ASSUME NEW v \in Writers, op'[v].pc = "inTx"
        PROVE  op'[v].at \in 0 .. n + 1 /\ op'[v].seen = StatusAt(op[v].at)'
    BY <1>1, <2>1, <2>3 DEF OpsInv
  <2>4. QED BY <1>1, <2>1, <2>2, <2>3 DEF OpsInv, Checked
<1>7. EveryChangeWasOnceLegal'
  <2>1. ASSUME NEW k \in 1 .. n + 1
        PROVE  /\ events'[k].from < k
               /\ events'[k].from \in 0 .. n
               /\ CanTransition(StatusAt(events'[k].from), events'[k].new)
    <3>1. CASE k = n + 1
      BY <1>1, <1>3, <3>1
    <3>2. CASE k \in 1 .. n
      <4>1. events[k] \in Event
        BY <3>2 DEF TypeOK
      <4>2. events[k].from \in Nat /\ events[k].from < k
            /\ CanTransition(StatusAt(events[k].from), events[k].new)
        BY <3>2, <4>1 DEF EveryChangeWasOnceLegal, Event
      <4>3. QED BY <1>1, <3>2, <4>2
    <3>3. QED BY <1>1, <3>1, <3>2
  <2>2. QED BY <1>1, <2>1 DEF EveryChangeWasOnceLegal, CanTransition
<1>8. TimestampsInv'
  <2>1. op[w].to \in LaterStages => appliedAt
    <3>1. StatusAt(op[w].from) \in Status
      BY <1>3, StatusAtType
    <3>2. op[w].to \in LaterStages => StatusAt(op[w].from) \in LaterStages \cup {"applied"}
      BY <3>1, <1>3, LaterStagesAreGuarded
    <3>3. QED BY <3>2, <1>3 DEF TimestampsInv
  <2>2. ASSUME NEW k \in 0 .. n + 1
        PROVE  /\ StatusAt(k)' \in LaterStages \cup {"applied"} => appliedAt'
               /\ StatusAt(k)' \in {"offer", "rejected"} => responseAt'
    <3>1. CASE k = n + 1
      BY <1>1, <2>1, <3>1 DEF Commit
    <3>2. CASE k \in 0 .. n
      BY <1>1, <3>2 DEF TimestampsInv, Commit
    <3>3. QED BY <1>1, <3>1, <3>2
  <2>3. QED BY <1>1, <2>2 DEF TimestampsInv
<1>9. LegalTrail' => LegalTrail /\ CanTransition(status, op[w].to)
  <2>1. SUFFICES ASSUME LegalTrail' PROVE LegalTrail /\ CanTransition(status, op[w].to)
    OBVIOUS
  <2>2. \A k \in 1 .. n + 1 : CanTransition(events'[k].old, events'[k].new)
    BY <1>1, <2>1 DEF LegalTrail, CanTransition
  <2>3. CanTransition(status, op[w].to)
    BY <1>1, <2>2 DEF Commit
  <2>4. \A k \in 1 .. n : CanTransition(events[k].old, events[k].new)
    BY <1>1, <2>2
  <2>5. QED BY <2>3, <2>4 DEF LegalTrail
<1>10. RankInv'
  <2>1. SUFFICES ASSUME LegalTrail', NEW i \in 0 .. n + 1, NEW j \in 0 .. n + 1, i < j
                 PROVE  Rank[StatusAt(i)'] < Rank[StatusAt(j)']
    BY <1>1 DEF RankInv
  <2>2. \A a, b \in 0 .. n : a < b => Rank[StatusAt(a)] < Rank[StatusAt(b)]
    BY <1>9, <2>1 DEF RankInv
  <2>3. CASE j \in 0 .. n
    BY <1>1, <2>1, <2>2, <2>3
  <2>4. CASE j = n + 1
    <3>1. Rank[status] \in Nat /\ Rank[op[w].to] \in Nat /\ Rank[status] < Rank[op[w].to]
      BY <1>1, <1>9, <2>1, TransitionsClimb DEF TypeOK
    <3>2. i \in 0 .. n /\ StatusAt(i) \in Status /\ StatusAt(i)' = StatusAt(i)
      BY <1>1, <2>1, <2>4, StatusAtType
    <3>3. i = n \/ Rank[StatusAt(i)] < Rank[StatusAt(n)]
      BY <1>1, <2>2, <3>2
    <3>4. Rank[StatusAt(i)] \in Nat
      BY <3>2 DEF Rank, Status
    <3>5. StatusAt(j)' = op[w].to
      BY <1>1, <2>4
    <3>6. QED BY <1>3, <3>1, <3>2, <3>3, <3>4, <3>5
  <2>5. QED BY <1>1, <2>3, <2>4
<1>11. TimelineInCommitOrder'
  <2>1. SUFFICES ASSUME LegalTrail', NEW k \in 1 .. n + 1
                 PROVE  events'[k].at = k - 1
    BY <1>1 DEF TimelineInCommitOrder
  <2>2. LegalTrail
    BY <1>9, <2>1
  <2>3. CASE k \in 1 .. n
    BY <1>1, <2>2, <2>3 DEF TimelineInCommitOrder
  <2>4. CASE k = n + 1
    <3>1. StatusAt(n) \in Status /\ Rank[StatusAt(n)] \in Nat
      BY <1>1, StatusAtType DEF Rank, Status
    <3>2. op[w].at < n => Rank[StatusAt(op[w].at)] < Rank[StatusAt(n)]
      <4>1. \A a, b \in 0 .. n : a < b => Rank[StatusAt(a)] < Rank[StatusAt(b)]
        BY <2>2 DEF RankInv
      <4>2. op[w].at \in 0 .. n /\ n \in 0 .. n
        BY <1>1, <1>3
      <4>3. QED BY <4>1, <4>2
    <3>3. op[w].at = n
      BY <1>1, <1>3, <3>1, <3>2
    <3>4. QED BY <1>1, <2>4, <3>3
  <2>5. QED BY <1>1, <2>3, <2>4
<1>12. QED BY <1>4, <1>5, <1>6, <1>7, <1>8, <1>10, <1>11

\* Every step of every writer keeps the invariant.
LEMMA NextIInv == IInv /\ [Next]_vars => IInv'
<1> SUFFICES ASSUME IInv, [Next]_vars PROVE IInv'
  OBVIOUS
<1>1. CASE UNCHANGED vars
  <2>1. op' \in [Writers -> Ops] /\ OpsInv'
    BY <1>1 DEF IInv, TypeOK, OpsInv, Checked, StatusAt, vars
  <2>2. QED BY <1>1, <2>1, RowUnchanged DEF vars
<1>2. ASSUME NEW w \in Writers, NEW to \in Status, CheckTransition(w, to)
      PROVE  IInv'
  BY <1>2, CheckTransitionIInv
<1>3. ASSUME NEW w \in Writers, ReadInTx(w) PROVE IInv'
  BY <1>3, ReadInTxIInv
<1>4. ASSUME NEW w \in Writers, Commit(w) PROVE IInv'
  BY <1>4, CommitIInv
<1>5. ASSUME NEW w \in Writers, Conflict(w) \/ Abort(w) PROVE IInv'
  BY <1>5, GiveUpIInv
<1>6. QED BY <1>1, <1>2, <1>3, <1>4, <1>5 DEF Next

\* The strengthened invariant holds throughout.
THEOREM Invariance == Spec => []IInv
BY InitIInv, NextIInv, PTL DEF Spec

-----------------------------------------------------------------------------
\* The row and the writers' local state always have their declared shape.
THEOREM TypeCorrect == Spec => []TypeOK
<1>1. IInv => TypeOK
  BY DEF IInv
<1>2. QED BY <1>1, Invariance, PTL

\* The trail Repository.UpdateStatus writes is a chain that ends in the status
\* of the row, however many writers race on it.
THEOREM AuditTrail == Spec => []AuditTrailIsChain
<1>1. IInv => AuditTrailIsChain
  BY DEF IInv
<1>2. QED BY <1>1, Invariance, PTL

\* Every recorded change was permitted by the table from a status the row had
\* had: the guarantee the check of Service.UpdateStatus gives under races.
THEOREM OnceLegal == Spec => []EveryChangeWasOnceLegal
<1>1. IInv => EveryChangeWasOnceLegal
  BY DEF IInv
<1>2. QED BY <1>1, Invariance, PTL

\* applied_at and response_at are set in every stage that implies them.
THEOREM StagesFollow == Spec => []StagesFollowSubmission
<1>1. IInv => StagesFollowSubmission
  <2>1. SUFFICES ASSUME IInv PROVE StagesFollowSubmission
    OBVIOUS
  <2>2. Len(events) \in 0 .. Len(events) /\ status = StatusAt(Len(events))
    BY <2>1 DEF IInv, TypeOK, AuditTrailIsChain
  <2>3. QED BY <2>1, <2>2 DEF IInv, TimestampsInv, StagesFollowSubmission
<1>2. QED BY <1>1, Invariance, PTL

\* A trail of permitted changes is stamped in the order it was committed: the
\* pipeline only climbs, so the status guard cannot be fooled by a status that
\* was left and came back.
THEOREM Timeline == Spec => []TimelineInCommitOrder
<1>1. IInv => TimelineInCommitOrder
  BY DEF IInv
<1>2. QED BY <1>1, Invariance, PTL
=============================================================================
