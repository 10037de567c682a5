----------------------- MODULE ProjectLifecycle_proofs -----------------------
(***************************************************************************)
(* Proofs about ProjectLifecycle, for any finite set of requests and any   *)
(* pool size.                                                              *)
(***************************************************************************)
EXTENDS ProjectLifecycle, FiniteSetTheorems, TLAPS

\* Any part of the set of requests is finite, and no larger than a set that
\* contains it.
LEMMA RequestSets ==
  ASSUME NEW S \in SUBSET Requests, NEW T \in SUBSET S
  PROVE  /\ IsFiniteSet(S) /\ IsFiniteSet(T)
         /\ Cardinality(S) \in Nat /\ Cardinality(T) \in Nat
         /\ Cardinality(T) <= Cardinality(S)
<1>1. IsFiniteSet(S)
  BY RequestsAssumption, FS_Subset
<1>. QED
  BY <1>1, FS_Subset, FS_CardinalityType

-----------------------------------------------------------------------------
(* Type correctness                                                        *)

\* A new project and idle requests have their types.
LEMMA InitTypeOK == Init => TypeOK
BY RequestsAssumption DEF Init, TypeOK, AllStatuses, Statuses, Sources,
   RunStatuses, TaskStates

\* No handler, task or crash leaves the types.
LEMMA StepTypeOK == TypeOK /\ [Next]_vars => TypeOK'
<1> SUFFICES ASSUME TypeOK, [Next]_vars PROVE TypeOK'
  OBVIOUS
<1> USE DEF TypeOK, rows, Goto, Working, Answers, TaskStates, RunStatuses,
            Sources
<1>1. ASSUME NEW r \in Requests, Begin(r) PROVE TypeOK'
  <2>1. CASE status = Deleted
    BY <1>1, <2>1 DEF Begin
  <2>2. CASE status # Deleted
    <3>1. PICK a \in Asks :
            req' = [req EXCEPT ![r] = [kind |-> a.kind, to |-> a.to,
                                       from |-> status, sources |-> sources]]
      BY <1>1, <2>2 DEF Begin
    <3>2. a.kind \in {"transition", "patch", "delete"} /\ a.to \in AllStatuses
      BY AsksAssumption
    <3>3. status \in AllStatuses
      BY <2>2
    <3>. QED
      BY <1>1, <2>2, <3>1, <3>2, <3>3 DEF Begin
  <2>. QED
    BY <2>1, <2>2
<1>2. ASSUME NEW r \in Requests, NotFound(r) PROVE TypeOK'
  BY <1>2 DEF NotFound
<1>3. ASSUME NEW r \in Requests, Refuse(r) PROVE TypeOK'
  BY <1>3 DEF Refuse
<1>4. ASSUME NEW r \in Requests, CheckActive(r) PROVE TypeOK'
  <2>1. ActiveRunsVerdict \in {"insert", "409", "500"}
    BY DEF ActiveRunsVerdict
  <2>. QED
    BY <1>4, <2>1 DEF CheckActive
<1>5. ASSUME NEW r \in Requests, InsertRun(r) PROVE TypeOK'
  BY <1>5 DEF InsertRun
<1>6. ASSUME NEW r \in Requests, Apply(r) PROVE TypeOK'
  <2>1. pc' \in [Requests -> {"idle"} \cup Working \cup Answers]
    BY <1>6 DEF Apply
  <2>2. lock' \in Requests \cup {Nobody}
    BY <1>6 DEF Apply
  <2>3. task' \in [Requests -> TaskStates]
    BY <1>6 DEF Apply, Dispatch
  <2>4. UNCHANGED <<rows, req, before>>
    BY <1>6 DEF Apply
  <2>. QED
    BY <2>1, <2>2, <2>3, <2>4
<1>7. ASSUME NEW r \in Requests, ApplyDelete(r) PROVE TypeOK'
  BY <1>7 DEF ApplyDelete
<1>8. ASSUME NEW r \in Requests, Commit(r) PROVE TypeOK'
  BY <1>8 DEF Commit, CommitChange, CommitDelete, Unlock
<1>9. ASSUME NEW r \in Requests, Abort(r) PROVE TypeOK'
  BY <1>9 DEF Abort, Unlock
<1>10. ASSUME NEW r \in Requests, TaskStep(r) PROVE TypeOK'
  <2>1. task' \in [Requests -> TaskStates]
    BY <1>10 DEF TaskStep, TaskStart, TaskComplete, TaskFail
  <2>2. runs' \in [Requests -> RunStatuses]
    BY <1>10 DEF TaskStep, TaskStart, TaskComplete, TaskFail
  <2>3. UNCHANGED <<status, sources, lock, pc, req, before>>
    BY <1>10 DEF TaskStep, TaskStart, TaskComplete, TaskFail
  <2>. QED
    BY <2>1, <2>2, <2>3
<1>11. CASE UpdateStrategy
  BY <1>11 DEF UpdateStrategy
<1>12. CASE Crash
  BY <1>12 DEF Crash
<1>13. CASE UNCHANGED vars
  BY <1>13 DEF vars
<1>. QED
  BY <1>1, <1>2, <1>3, <1>4, <1>5, <1>6, <1>7, <1>8, <1>9, <1>10, <1>11,
     <1>12, <1>13 DEF Next, Progress

\* Every variable keeps its type: in particular only pending and completed are
\* ever committed as the status of a collection run.
THEOREM TypeCorrect == Spec => []TypeOK
<1>1. Init /\ [][Next]_vars => []TypeOK
  BY InitTypeOK, StepTypeOK, PTL
<1>. QED
  BY <1>1, PTL DEF Spec, Safety

-----------------------------------------------------------------------------
(* The locks                                                               *)

\* A request is in one place and a task in another: the facts about places
\* that every case below needs.
LEMMA Places ==
  /\ Deleted \notin AllStatuses
  /\ "idle" \notin Working \cup Answers
  /\ Working \cap Answers = {}
BY DEF Deleted, AllStatuses, Statuses, OtherStatus, Working, Answers

\* The insertion of a run is reached through the check of a collection only.
LEMMA StepInsert == IInv /\ [Next]_vars => InsertInv'
<1> SUFFICES ASSUME IInv, [Next]_vars PROVE InsertInv'
  OBVIOUS
<1> USE DEF IInv, TypeOK, InsertInv, Goto, Collects
<1>1. ASSUME NEW r \in Requests,
             Begin(r) \/ NotFound(r) \/ Refuse(r) \/ CheckActive(r) \/ InsertRun(r)
      PROVE  InsertInv'
  BY <1>1 DEF Begin, NotFound, Refuse, CheckActive, InsertRun, ActiveRunsVerdict
<1>2. ASSUME NEW r \in Requests,
             Apply(r) \/ ApplyDelete(r) \/ Commit(r) \/ Abort(r) \/ TaskStep(r)
      PROVE  InsertInv'
  BY <1>2 DEF Apply, ApplyDelete, Commit, Abort, TaskStep, TaskStart,
     TaskComplete, TaskFail
<1>3. CASE UpdateStrategy \/ Crash \/ UNCHANGED vars
  BY <1>3 DEF UpdateStrategy, Crash, vars
<1>. QED
  BY <1>1, <1>2, <1>3 DEF Next, Progress

\* Locks, share locks and rows keep agreeing: whatever is uncommitted hangs
\* from a project that exists, and a DELETE is alone.
LEMMA StepLocks ==
  IInv /\ [Next]_vars => LockInv' /\ DeleteInv' /\ RowInv'
<1> SUFFICES ASSUME IInv, [Next]_vars PROVE LockInv' /\ DeleteInv' /\ RowInv'
  OBVIOUS
<1> USE Places, RequestsAssumption
    DEF IInv, TypeOK, InsertInv, LockInv, DeleteInv, RowInv, RunsComeFromAcceptedRequests,
        NoOrphanRows, rows, Goto, SharesRow, Collects, DeleteHoldsRow,
        TaskHoldsRun
<1>1. ASSUME NEW r \in Requests, Begin(r)
      PROVE  LockInv' /\ DeleteInv' /\ RowInv'
  <2>1. /\ pc[r] = "idle" /\ lock # r
        /\ UNCHANGED <<status, runs, lock, task>>
        /\ \A x \in Requests \ {r} : pc'[x] = pc[x] /\ req'[x] = req[x]
        /\ pc'[r] \in {"404", "read"}
    BY <1>1 DEF Begin
  <2>2. LockInv'
    BY <2>1
  <2>3. DeleteInv'
    BY <2>1
  <2>4. RowInv'
    <3>1. status' = Deleted => ~\E x \in Requests : SharesRow(x)'
      <4>1. ~SharesRow(r)'
        BY <2>1
      <4>2. ASSUME NEW x \in Requests \ {r} PROVE SharesRow(x)' => SharesRow(x)
        BY <2>1
      <4>. HIDE DEF SharesRow
      <4>. QED
        BY <2>1, <4>1, <4>2
    <3>2. \A x \in Requests : /\ task'[x] = "collecting" => runs'[x] = "pending"
                              /\ task'[x] = "waiting" => runs'[x] # "completed"
      BY <2>1
    <3>. QED
      BY ONLY <3>1, <3>2 DEF RowInv, SharesRow, Collects
  <2>. QED
    BY <2>2, <2>3, <2>4
<1>2. ASSUME NEW r \in Requests, NotFound(r) \/ Refuse(r)
      PROVE  LockInv' /\ DeleteInv' /\ RowInv'
  BY <1>2 DEF NotFound, Refuse
<1>4. ASSUME NEW r \in Requests, CheckActive(r)
      PROVE  LockInv' /\ DeleteInv' /\ RowInv'
  BY <1>4 DEF CheckActive, ActiveRunsVerdict
<1>5. ASSUME NEW r \in Requests, InsertRun(r)
      PROVE  LockInv' /\ DeleteInv' /\ RowInv'
  BY <1>5 DEF InsertRun
<1>6. ASSUME NEW r \in Requests, Apply(r)
      PROVE  LockInv' /\ DeleteInv' /\ RowInv'
  BY <1>6 DEF Apply, Dispatch
<1>7. ASSUME NEW r \in Requests, ApplyDelete(r)
      PROVE  LockInv' /\ DeleteInv' /\ RowInv'
  BY <1>7 DEF ApplyDelete
<1>8. ASSUME NEW r \in Requests, Commit(r)
      PROVE  LockInv' /\ DeleteInv' /\ RowInv'
  BY <1>8 DEF Commit, CommitChange, CommitDelete, Unlock
<1>9. ASSUME NEW r \in Requests, Abort(r)
      PROVE  LockInv' /\ DeleteInv' /\ RowInv'
  BY <1>9 DEF Abort, Unlock, Working
<1>10. ASSUME NEW r \in Requests, TaskStep(r)
       PROVE  LockInv' /\ DeleteInv' /\ RowInv'
  <2>1. CASE TaskStart(r)
    BY <2>1 DEF TaskStart, RunStatuses
  <2>2. CASE TaskComplete(r) \/ TaskFail(r)
    BY <2>2 DEF TaskComplete, TaskFail, TaskStates
  <2>. QED
    BY <1>10, <2>1, <2>2 DEF TaskStep
<1>11. CASE UpdateStrategy
  BY <1>11 DEF UpdateStrategy
<1>12. CASE Crash
  BY <1>12 DEF Crash, InProgress, Working
<1>13. CASE UNCHANGED vars
  BY <1>13 DEF vars
<1>. QED
  BY <1>1, <1>2, <1>4, <1>5, <1>6, <1>7, <1>8, <1>9, <1>10, <1>11, <1>12,
     <1>13 DEF Next, Progress

-----------------------------------------------------------------------------
(* The rows                                                                *)

\* Run rows come and go with the commits of collections and of the deletion.
LEMMA StepRows ==
  IInv /\ [Next]_vars => RunsComeFromAcceptedRequests' /\ NoOrphanRows'
<1> SUFFICES ASSUME IInv, [Next]_vars
             PROVE  RunsComeFromAcceptedRequests' /\ NoOrphanRows'
  OBVIOUS
<1> USE Places DEF IInv, TypeOK, InsertInv, LockInv, RowInv,
                   RunsComeFromAcceptedRequests, NoOrphanRows, rows, Goto,
                   SharesRow, Collects
<1>1. ASSUME NEW r \in Requests,
             Begin(r) \/ NotFound(r) \/ Refuse(r) \/ CheckActive(r) \/ InsertRun(r)
      PROVE  RunsComeFromAcceptedRequests' /\ NoOrphanRows'
  BY <1>1 DEF Begin, NotFound, Refuse, CheckActive, InsertRun
<1>2. ASSUME NEW r \in Requests, Apply(r) \/ ApplyDelete(r) \/ Abort(r)
      PROVE  RunsComeFromAcceptedRequests' /\ NoOrphanRows'
  BY <1>2 DEF Apply, ApplyDelete, Abort, Working
<1>3. ASSUME NEW r \in Requests, Commit(r)
      PROVE  RunsComeFromAcceptedRequests' /\ NoOrphanRows'
  <2>1. CASE CommitDelete(r)
    BY <1>3, <2>1 DEF Commit, CommitDelete
  <2>2. CASE CommitChange(r)
    <3>1. RunsComeFromAcceptedRequests'
      BY <1>3, <2>2 DEF Commit, CommitChange
    <3>2. status' # Deleted \/ (status = Deleted /\ ~Collects(r))
      BY <1>3, <2>2, RequestsAssumption DEF Commit, CommitChange
    <3>. QED
      BY <1>3, <2>2, <3>1, <3>2 DEF Commit, CommitChange
  <2>. QED
    BY <1>3, <2>1, <2>2 DEF Commit
<1>4. ASSUME NEW r \in Requests, TaskStep(r)
      PROVE  RunsComeFromAcceptedRequests' /\ NoOrphanRows'
  BY <1>4 DEF TaskStep, TaskStart, TaskComplete, TaskFail
<1>5. CASE UpdateStrategy
  BY <1>5 DEF UpdateStrategy
<1>6. CASE Crash
  BY <1>6 DEF Crash, InProgress, Working
<1>7. CASE UNCHANGED vars
  BY <1>7 DEF vars
<1>. QED
  BY <1>1, <1>2, <1>3, <1>4, <1>5, <1>6, <1>7 DEF Next, Progress

-----------------------------------------------------------------------------
(* Overlap                                                                 *)

\* Every step but the check for active runs adds nobody to those who passed
\* it; the check does so only when no run is active.
LEMMA GroupSteps ==
  ASSUME IInv, [Next]_vars
  PROVE  /\ \/ ActiveRuns' \cup Admitted' \subseteq ActiveRuns \cup Admitted
            \/ ActiveRuns' = {} /\ ActiveRuns = {} /\ Admitted' \subseteq InProgress'
         /\ ActiveRuns' \subseteq ActiveRuns \cup Admitted
<1> USE Places DEF IInv, TypeOK, InsertInv, LockInv, RowInv,
                   RunsComeFromAcceptedRequests, ActiveRuns, ActiveStatuses,
                   Admitted, rows, Goto, Collects
<1> DEFINE Goal == /\ \/ ActiveRuns' \cup Admitted' \subseteq ActiveRuns \cup Admitted
                      \/ /\ ActiveRuns' = {} /\ ActiveRuns = {}
                         /\ Admitted' \subseteq InProgress'
                   /\ ActiveRuns' \subseteq ActiveRuns \cup Admitted
<1>1. ASSUME NEW r \in Requests, Begin(r) \/ NotFound(r) \/ Refuse(r)
      PROVE  Goal
  BY <1>1 DEF Begin, NotFound, Refuse
<1>2. ASSUME NEW r \in Requests, CheckActive(r)
      PROVE  Goal
  BY <1>2 DEF CheckActive, ActiveRunsVerdict, InProgress, Working
<1>3. ASSUME NEW r \in Requests, InsertRun(r)
      PROVE  Goal
  BY <1>3 DEF InsertRun
<1>4. ASSUME NEW r \in Requests, Apply(r)
      PROVE  Goal
  BY <1>4 DEF Apply
<1>5. ASSUME NEW r \in Requests, ApplyDelete(r) \/ Abort(r)
      PROVE  Goal
  BY <1>5 DEF ApplyDelete, Abort
<1>6. ASSUME NEW r \in Requests, Commit(r)
      PROVE  Goal
  BY <1>6 DEF Commit, CommitChange, CommitDelete
<1>7. ASSUME NEW r \in Requests, TaskStep(r)
      PROVE  Goal
  BY <1>7 DEF TaskStep, TaskStart, TaskComplete, TaskFail
<1>8. CASE UpdateStrategy \/ Crash
  BY <1>8 DEF UpdateStrategy, Crash
<1>9. CASE UNCHANGED vars
  BY <1>9 DEF vars
<1>. QED
  BY <1>1, <1>2, <1>3, <1>4, <1>5, <1>6, <1>7, <1>8, <1>9 DEF Next, Progress

\* Nobody enters a full pool.
LEMMA StepPool == IInv /\ [Next]_vars => PoolInv'
<1> SUFFICES ASSUME IInv, [Next]_vars PROVE PoolInv'
  OBVIOUS
<1> USE Places DEF IInv, TypeOK, PoolInv, Goto, rows
<1>1. IsFiniteSet(InProgress) /\ Cardinality(InProgress) \in Nat
  BY RequestSets DEF InProgress
<1>2. ASSUME NEW r \in Requests, Begin(r)
      PROVE  PoolInv'
  <2>1. InProgress' \subseteq InProgress \cup {r} /\ r \notin InProgress
    BY <1>2 DEF Begin, InProgress
  <2>2. /\ IsFiniteSet(InProgress \cup {r})
        /\ Cardinality(InProgress \cup {r}) = Cardinality(InProgress) + 1
    BY <1>1, <2>1, FS_AddElement
  <2>3. Cardinality(InProgress') \in Nat
        /\ Cardinality(InProgress') <= Cardinality(InProgress \cup {r})
    BY <2>1, <2>2, FS_Subset, FS_CardinalityType
  <2>. QED
    BY <1>1, <1>2, <2>2, <2>3, PoolSizeAssumption DEF Begin
<1>3. ASSUME InProgress' \subseteq InProgress
      PROVE  PoolInv'
  BY <1>1, <1>3, FS_Subset, FS_CardinalityType, PoolSizeAssumption
<1>4. ASSUME NEW r \in Requests, NotFound(r) \/ Refuse(r) \/ CheckActive(r)
      PROVE  InProgress' \subseteq InProgress
  BY <1>4 DEF NotFound, Refuse, CheckActive, InProgress, Working
<1>5. ASSUME NEW r \in Requests, InsertRun(r) \/ Apply(r) \/ ApplyDelete(r)
      PROVE  InProgress' \subseteq InProgress
  BY <1>5 DEF InsertRun, Apply, ApplyDelete, InProgress, Working
<1>6. ASSUME NEW r \in Requests, Commit(r) \/ Abort(r) \/ TaskStep(r)
      PROVE  InProgress' \subseteq InProgress
  BY <1>6 DEF Commit, Abort, TaskStep, TaskStart, TaskComplete, TaskFail,
     InProgress, Working
<1>7. CASE UpdateStrategy \/ Crash \/ UNCHANGED vars
  <2>1. InProgress' \subseteq InProgress
    BY <1>7 DEF UpdateStrategy, Crash, vars, InProgress, Answers, Working
  <2>. QED
    BY <1>3, <2>1
<1>. QED
  BY <1>2, <1>3, <1>4, <1>5, <1>6, <1>7 DEF Next, Progress

\* A request joins the group that passed the check only while no run is active,
\* and then everybody in the group is in progress.
LEMMA StepGroup == IInv /\ [Next]_vars => GroupInv'
<1> SUFFICES ASSUME IInv, [Next]_vars PROVE GroupInv'
  OBVIOUS
<1> DEFINE Group == ActiveRuns \cup Admitted
<1>1. Group \subseteq Requests /\ Group' \subseteq Requests
      /\ InProgress' \subseteq Requests
  BY DEF ActiveRuns, Admitted, InProgress
<1>2. Cardinality(Group) \in Nat /\ Cardinality(Group') \in Nat
      /\ Cardinality(InProgress') \in Nat
  BY <1>1, RequestSets
<1>3. CASE Group' \subseteq Group
  <2>1. Cardinality(Group') <= Cardinality(Group)
    BY <1>1, <1>3, RequestSets
  <2>. QED
    BY <1>2, <2>1, PoolSizeAssumption DEF IInv, GroupInv
<1>4. CASE ActiveRuns' = {} /\ Admitted' \subseteq InProgress'
  <2>1. Group' \subseteq InProgress'
    BY <1>4
  <2>2. Cardinality(Group') <= Cardinality(InProgress')
    BY <1>1, <2>1, RequestSets
  <2>. QED
    BY <1>2, <2>2, StepPool, PoolSizeAssumption DEF GroupInv, PoolInv
<1>. QED
  BY <1>3, <1>4, GroupSteps

\* A run committed after a check is not among those the check saw.
LEMMA StepBefore == IInv /\ [Next]_vars => BeforeInv'
<1> SUFFICES ASSUME IInv, [Next]_vars PROVE BeforeInv'
  OBVIOUS
<1>1. \A a \in Requests : pc[a] = "200" => pc'[a] = "200"
  <2> USE DEF IInv, TypeOK, Goto
  <2>1. ASSUME NEW r \in Requests,
               Begin(r) \/ NotFound(r) \/ Refuse(r) \/ CheckActive(r) \/ InsertRun(r)
        PROVE  \A a \in Requests : pc[a] = "200" => pc'[a] = "200"
    BY <2>1 DEF Begin, NotFound, Refuse, CheckActive, InsertRun
  <2>2. ASSUME NEW r \in Requests,
               Apply(r) \/ ApplyDelete(r) \/ Commit(r) \/ Abort(r) \/ TaskStep(r)
        PROVE  \A a \in Requests : pc[a] = "200" => pc'[a] = "200"
    BY <2>2 DEF Apply, ApplyDelete, Commit, Abort, TaskStep, TaskStart,
       TaskComplete, TaskFail, Working
  <2>3. CASE UpdateStrategy \/ Crash \/ UNCHANGED vars
    BY <2>3 DEF UpdateStrategy, Crash, vars, InProgress, Working
  <2>. QED
    BY <2>1, <2>2, <2>3 DEF Next, Progress
<1>2. \/ before' = before
      \/ \E r \in Requests :
           /\ before' = [before EXCEPT ![r] = {x \in Requests : runs[x] # "none"}]
           /\ runs' = runs /\ (ActiveRuns' # {} => r \notin ActiveRuns' \cup Admitted')
  <2> USE DEF IInv, TypeOK, rows, Goto
  <2>1. ASSUME NEW r \in Requests, CheckActive(r)
        PROVE  /\ before' = [before EXCEPT ![r] = {x \in Requests : runs[x] # "none"}]
               /\ runs' = runs /\ (ActiveRuns' # {} => r \notin ActiveRuns' \cup Admitted')
    BY <2>1 DEF CheckActive, ActiveRunsVerdict, ActiveRuns, Admitted,
       ActiveStatuses, RunsComeFromAcceptedRequests
  <2>2. CASE Crash \/ UpdateStrategy \/ UNCHANGED vars
    BY <2>2 DEF Crash, UpdateStrategy, vars
  <2>3. ASSUME NEW r \in Requests,
               Begin(r) \/ NotFound(r) \/ Refuse(r) \/ InsertRun(r) \/ Apply(r)
                 \/ ApplyDelete(r) \/ Commit(r) \/ Abort(r) \/ TaskStep(r)
        PROVE  before' = before
    BY <2>3 DEF Begin, NotFound, Refuse, InsertRun, Apply, ApplyDelete, Commit,
       Abort, TaskStep, TaskStart, TaskComplete, TaskFail
  <2>. QED
    BY <2>1, <2>2, <2>3 DEF Next, Progress
<1>3. \A b \in Requests : \A a \in before'[b] : pc'[a] = "200"
  BY <1>1, <1>2 DEF IInv, TypeOK, BeforeInv, RunsComeFromAcceptedRequests
<1>4. ASSUME NEW b \in ActiveRuns' \cup Admitted', NEW a \in ActiveRuns'
      PROVE  a \notin before'[b]
  <2>1. a \in Requests /\ b \in Requests /\ a \in ActiveRuns \cup Admitted
    BY GroupSteps DEF ActiveRuns, Admitted
  <2>2. b \in ActiveRuns \cup Admitted
    BY GroupSteps
  <2>3. before'[b] = before[b]
    BY <1>2, <2>1 DEF IInv, TypeOK
  <2>4. CASE a \in ActiveRuns
    BY <2>2, <2>3, <2>4 DEF IInv, BeforeInv
  <2>5. CASE a \in Admitted
    BY <2>1, <2>3, <2>5 DEF IInv, BeforeInv, Admitted
  <2>. QED
    BY <2>1, <2>4, <2>5
<1>. QED
  BY <1>3, <1>4 DEF BeforeInv

\* Active runs are part of the group that passed the check.
LEMMA GroupBoundsActive ==
  /\ Cardinality(ActiveRuns) \in Nat
  /\ Cardinality(ActiveRuns \cup Admitted) \in Nat
  /\ Cardinality(ActiveRuns) <= Cardinality(ActiveRuns \cup Admitted)
<1>1. ActiveRuns \cup Admitted \in SUBSET Requests
      /\ ActiveRuns \in SUBSET (ActiveRuns \cup Admitted)
  BY DEF ActiveRuns, Admitted
<1>. QED
  BY <1>1, RequestSets

-----------------------------------------------------------------------------
(* Theorems                                                                *)

\* Before the first request there is nothing to relate.
LEMMA InitIInv == Init => IInv
<1> SUFFICES ASSUME Init PROVE IInv
  OBVIOUS
<1>1. InProgress = {} /\ ActiveRuns \cup Admitted = {}
  BY DEF Init, InProgress, Working, ActiveRuns, ActiveStatuses, Admitted
<1>2. PoolInv /\ GroupInv
  BY <1>1, FS_EmptySet, PoolSizeAssumption DEF PoolInv, GroupInv
<1>3. status # Deleted /\ lock = Nobody
  BY DEF Init, Deleted
<1>. QED
  BY <1>1, <1>2, <1>3, InitTypeOK
     DEF Init, IInv, InsertInv, LockInv, DeleteInv, RowInv, BeforeInv,
         RunsComeFromAcceptedRequests, NoOrphanRows, DeleteHoldsRow, SharesRow

\* Every step keeps every part of the inductive invariant.
LEMMA StepIInv == IInv /\ [Next]_vars => IInv'
<1> SUFFICES ASSUME IInv, [Next]_vars PROVE IInv'
  OBVIOUS
<1>1. TypeOK'
  BY StepTypeOK DEF IInv
<1>. QED
  BY <1>1, StepPool, StepInsert, StepLocks, StepRows, StepBefore, StepGroup
     DEF IInv

\* The inductive invariant holds in every reachable state.
THEOREM Invariance == Spec => []IInv
<1>1. Init /\ [][Next]_vars => []IInv
  BY InitIInv, StepIInv, PTL
<1>. QED
  BY <1>1, PTL DEF Spec, Safety

\* However many clients ask for a collection at once, a project never has more
\* active runs than the connection pool has connections; with one connection
\* it has at most one.
THEOREM RunsBounded == Spec => []ActiveRunsBounded
<1>1. IInv => ActiveRunsBounded
  BY GroupBoundsActive, PoolSizeAssumption DEF IInv, GroupInv, ActiveRunsBounded
<1>. QED
  BY <1>1, Invariance, PTL

\* With one request at a time the 409 does what it is for: a project never has
\* two active runs, whatever tasks and crashes do.
THEOREM SerialRuns == PoolSize = 1 => (Spec => []AtMostOneActiveRun)
<1> SUFFICES ASSUME PoolSize = 1 PROVE Spec => []AtMostOneActiveRun
  OBVIOUS
<1>1. ActiveRunsBounded => AtMostOneActiveRun
  BY DEF ActiveRunsBounded, AtMostOneActiveRun
<1>. QED
  BY <1>1, RunsBounded, PTL

\* With a pool of one connection two requests in progress are one.
LEMMA Alone ==
  ASSUME PoolSize = 1, PoolInv, NEW r \in InProgress, NEW x \in InProgress
  PROVE  x = r
<1>1. InProgress \in SUBSET Requests
  BY DEF InProgress
<1>2. IsFiniteSet(InProgress) /\ Cardinality(InProgress) \in Nat
  BY <1>1, RequestSets
<1>3. ASSUME x # r PROVE FALSE
  <2>1. Cardinality({x, r}) = 2
    <3>1. IsFiniteSet({r}) /\ Cardinality({r}) = 1
      BY FS_Singleton
    <3>2. Cardinality({r} \cup {x}) = Cardinality({r}) + 1
      BY <1>3, <3>1, FS_AddElement
    <3>3. {r} \cup {x} = {x, r}
      OBVIOUS
    <3>. QED
      BY <3>1, <3>2, <3>3
  <2>2. Cardinality({x, r}) <= Cardinality(InProgress)
    BY <1>2, FS_Subset
  <2>. QED
    BY <1>2, <2>1, <2>2 DEF PoolInv
<1>. QED
  BY <1>3

\* With one connection nobody changes what a request has read.
LEMMA StepSerial ==
  ASSUME PoolSize = 1, "patch" \notin Kinds
  PROVE  IInv /\ SerialInv /\ [Next]_vars => SerialInv'
<1> SUFFICES ASSUME IInv, SerialInv, [Next]_vars PROVE SerialInv'
  OBVIOUS
<1>0. PoolInv'
  BY StepPool
<1> USE Places DEF IInv, TypeOK, SerialInv, rows, Goto
<1>1. ASSUME NEW r \in Requests, Begin(r) PROVE SerialInv'
  <2>1. IsFiniteSet(InProgress) /\ Cardinality(InProgress) \in Nat
    BY RequestSets DEF InProgress
  <2>2. InProgress = {}
    BY <1>1, <2>1, FS_EmptySet DEF Begin
  <2>3. CASE status = Deleted
    <3>1. InProgress' = {}
      BY <1>1, <2>2, <2>3 DEF Begin, InProgress, Working
    <3>. QED
      BY <3>1
  <2>4. CASE status # Deleted
    <3>1. InProgress' = {r} /\ pc'[r] = "read"
      BY <1>1, <2>2, <2>4 DEF Begin, InProgress, Working
    <3>2. PICK a \in Asks :
            req' = [req EXCEPT ![r] = [kind |-> a.kind, to |-> a.to,
                                       from |-> status, sources |-> sources]]
      BY <1>1, <2>4 DEF Begin
    <3>3. req'[r].kind = a.kind /\ req'[r].from = status /\ status' = status
      BY <1>1, <3>2 DEF Begin
    <3>4. a.kind \in Kinds
      BY DEF Kinds
    <3>. QED
      BY <3>1, <3>3, <3>4
  <2>. QED
    BY <2>3, <2>4
<1>2. ASSUME NEW r \in Requests, NotFound(r) \/ Refuse(r) \/ CheckActive(r)
      PROVE  SerialInv'
  BY <1>2 DEF NotFound, Refuse, CheckActive, TransitionAllowed, Collects,
     InProgress, Working
<1>3. ASSUME NEW r \in Requests, InsertRun(r) \/ ApplyDelete(r) \/ Abort(r)
      PROVE  SerialInv'
  BY <1>3 DEF InsertRun, ApplyDelete, Abort, InProgress, Working
<1>4. ASSUME NEW r \in Requests, Apply(r) PROVE SerialInv'
  BY <1>4 DEF Apply, TransitionAllowed, InProgress, Working
<1>5. ASSUME NEW r \in Requests, Commit(r) PROVE SerialInv'
  <2>1. r \in InProgress
    BY <1>5 DEF Commit, InProgress, Working
  <2>2. InProgress = {r}
    BY <2>1, Alone
  <2>3. InProgress' = {}
    BY <1>5, <2>2 DEF Commit, InProgress, Working
  <2>. QED
    BY <2>3
<1>6. ASSUME NEW r \in Requests, TaskStep(r) PROVE SerialInv'
  BY <1>6 DEF TaskStep, TaskStart, TaskComplete, TaskFail, InProgress
<1>7. CASE UpdateStrategy \/ UNCHANGED vars
  BY <1>7 DEF UpdateStrategy, vars, InProgress
<1>8. CASE Crash
  <2>1. InProgress' = {}
    BY <1>8 DEF Crash, InProgress, Working
  <2>. QED
    BY <2>1
<1>. QED
  BY <1>1, <1>2, <1>3, <1>4, <1>5, <1>6, <1>7, <1>8 DEF Next, Progress

\* Without PATCH, and one request at a time, committed statuses follow the
\* transition table: both conditions are needed, and no others.
THEOREM SerialMachine ==
  PoolSize = 1 /\ "patch" \notin Kinds => (Spec => StatusFollowsMachine)
<1> SUFFICES ASSUME PoolSize = 1, "patch" \notin Kinds
             PROVE  Spec => StatusFollowsMachine
  OBVIOUS
<1>1. Init => SerialInv
  BY DEF Init, SerialInv, InProgress, Working
<1>2. IInv /\ SerialInv /\ [Next]_vars => SerialInv'
  BY StepSerial
<1>3. IInv /\ SerialInv /\ [Next]_vars =>
        [status' \notin {status, Deleted} => CanTransition(status, status')]_vars
  <2> SUFFICES ASSUME IInv, SerialInv, [Next]_vars, status' \notin {status, Deleted}
               PROVE  CanTransition(status, status')
    OBVIOUS
  <2>1. ASSUME NEW r \in Requests, Commit(r)
        PROVE  CanTransition(status, status')
    BY <2>1 DEF Commit, CommitChange, CommitDelete, SerialInv, InProgress,
       Working, IInv, TypeOK
  <2>2. ASSUME NEW r \in Requests,
               Begin(r) \/ NotFound(r) \/ Refuse(r) \/ CheckActive(r)
                 \/ InsertRun(r) \/ Apply(r) \/ ApplyDelete(r) \/ Abort(r)
                 \/ TaskStep(r)
        PROVE  status' = status
    BY <2>2 DEF Begin, NotFound, Refuse, CheckActive, InsertRun, Apply, rows,
       ApplyDelete, Abort, TaskStep, TaskStart, TaskComplete, TaskFail
  <2>3. CASE UpdateStrategy \/ Crash \/ UNCHANGED vars
    BY <2>3 DEF UpdateStrategy, Crash, vars, rows
  <2>. QED
    BY <2>1, <2>2, <2>3 DEF Next, Progress
<1>4. Init /\ [][Next]_vars => []SerialInv
  <2>1. Init /\ [][Next]_vars => []IInv
    BY InitIInv, StepIInv, PTL
  <2>. QED
    BY <1>1, <1>2, <2>1, PTL
<1>. QED
  BY <1>3, <1>4, Invariance, PTL DEF Spec, Safety, StatusFollowsMachine

\* A transition is checked against the table before it inserts or flushes, and
\* afterwards neither what it read nor what it asked for changes.
LEMMA StepMachine == IInv /\ MachineInv /\ [Next]_vars => MachineInv'
<1> SUFFICES ASSUME IInv, MachineInv, [Next]_vars PROVE MachineInv'
  OBVIOUS
<1> USE DEF IInv, TypeOK, MachineInv, Goto
<1>1. ASSUME NEW r \in Requests, Begin(r) PROVE MachineInv'
  <2>1. /\ \A x \in Requests \ {r} : pc'[x] = pc[x] /\ req'[x] = req[x]
        /\ pc'[r] \in {"404", "read"}
    BY <1>1 DEF Begin
  <2>. QED
    BY <2>1
<1>2. ASSUME NEW r \in Requests, NotFound(r) \/ Refuse(r) \/ InsertRun(r)
      PROVE  MachineInv'
  BY <1>2 DEF NotFound, Refuse, InsertRun
<1>3. ASSUME NEW r \in Requests, CheckActive(r) PROVE MachineInv'
  BY <1>3 DEF CheckActive, TransitionAllowed
<1>4. ASSUME NEW r \in Requests, Apply(r) PROVE MachineInv'
  BY <1>4 DEF Apply, TransitionAllowed
<1>5. ASSUME NEW r \in Requests,
             ApplyDelete(r) \/ Commit(r) \/ Abort(r) \/ TaskStep(r)
      PROVE  MachineInv'
  BY <1>5 DEF ApplyDelete, Commit, Abort, TaskStep, TaskStart, TaskComplete,
     TaskFail
<1>6. CASE UpdateStrategy \/ Crash \/ UNCHANGED vars
  BY <1>6 DEF UpdateStrategy, Crash, vars
<1>. QED
  BY <1>1, <1>2, <1>3, <1>4, <1>5, <1>6 DEF Next, Progress

\* However many requests overlap, a transition does not skip a stage by itself:
\* the status it checked was the committed one when it read it, so a step the
\* table does not have was a PATCH, or had another commit before it.
THEOREM SkipsOverlap == Spec => StatusSkipsOnlyFromOverlap
<1>1. Init => MachineInv
  BY DEF Init, MachineInv
<1>2. IInv /\ MachineInv /\ [Next]_vars =>
        [status' \notin {status, Deleted} /\ ~CanTransition(status, status') =>
           req[lock].kind = "patch" \/ req[lock].from # status]_vars
  <2> SUFFICES ASSUME IInv, MachineInv, [Next]_vars,
                      status' \notin {status, Deleted},
                      req[lock].kind # "patch", req[lock].from = status
               PROVE  CanTransition(status, status')
    OBVIOUS
  <2>1. ASSUME NEW r \in Requests, Commit(r)
        PROVE  CanTransition(status, status')
    <3>1. /\ pc[r] = "flushed" /\ req[r].kind # "delete"
          /\ lock = r /\ status' = req[r].to
      BY <2>1 DEF Commit, CommitChange, CommitDelete
    <3>2. req[r].kind = "transition" /\ req[r].from = status
      BY <3>1 DEF IInv, TypeOK
    <3>. QED
      BY <3>1, <3>2 DEF MachineInv
  <2>2. ASSUME NEW r \in Requests,
               Begin(r) \/ NotFound(r) \/ Refuse(r) \/ CheckActive(r)
                 \/ InsertRun(r) \/ Apply(r) \/ ApplyDelete(r) \/ Abort(r)
                 \/ TaskStep(r)
        PROVE  status' = status
    BY <2>2 DEF Begin, NotFound, Refuse, CheckActive, InsertRun, Apply, rows,
       ApplyDelete, Abort, TaskStep, TaskStart, TaskComplete, TaskFail
  <2>3. CASE UpdateStrategy \/ Crash \/ UNCHANGED vars
    BY <2>3 DEF UpdateStrategy, Crash, vars, rows
  <2>. QED
    BY <2>1, <2>2, <2>3 DEF Next, Progress
<1>3. Init /\ [][Next]_vars => []MachineInv
  <2>1. Init /\ [][Next]_vars => []IInv
    BY InitIInv, StepIInv, PTL
  <2>. QED
    BY <1>1, StepMachine, <2>1, PTL
<1>. QED
  BY <1>2, <1>3, Invariance, PTL DEF Spec, Safety, StatusSkipsOnlyFromOverlap

\* A request in progress asked for something that clients do ask for.
KindInv == \A r \in Requests : pc[r] \in Working => req[r].kind \in Kinds

\* The kind of a request is set where it begins.
LEMMA StepKind == IInv /\ KindInv /\ [Next]_vars => KindInv'
<1> SUFFICES ASSUME IInv, KindInv, [Next]_vars PROVE KindInv'
  OBVIOUS
<1> USE Places DEF IInv, TypeOK, KindInv, Goto
<1>0. ASSUME NEW r \in Requests, Begin(r) PROVE KindInv'
  <2>1. CASE status = Deleted
    BY <1>0, <2>1 DEF Begin, Working
  <2>2. CASE status # Deleted
    <3>1. PICK a \in Asks :
            req' = [req EXCEPT ![r] = [kind |-> a.kind, to |-> a.to,
                                       from |-> status, sources |-> sources]]
      BY <1>0, <2>2 DEF Begin
    <3>2. a.kind \in Kinds
      BY DEF Kinds
    <3>3. \A x \in Requests \ {r} : pc'[x] = pc[x]
      BY <1>0 DEF Begin
    <3>. QED
      BY <3>1, <3>2, <3>3
  <2>. QED
    BY <2>1, <2>2
<1>1. ASSUME NEW r \in Requests,
             NotFound(r) \/ Refuse(r) \/ CheckActive(r) \/ InsertRun(r)
      PROVE  KindInv'
  BY <1>1 DEF NotFound, Refuse, CheckActive, InsertRun, Working
<1>2. ASSUME NEW r \in Requests,
             Apply(r) \/ ApplyDelete(r) \/ Commit(r) \/ Abort(r) \/ TaskStep(r)
      PROVE  KindInv'
  BY <1>2 DEF Apply, ApplyDelete, Commit, Abort, TaskStep, TaskStart,
     TaskComplete, TaskFail, Working
<1>3. CASE UpdateStrategy \/ Crash \/ UNCHANGED vars
  BY <1>3 DEF UpdateStrategy, Crash, vars, Working
<1>. QED
  BY <1>0, <1>1, <1>2, <1>3 DEF Next, Progress

\* Without PATCH a project becomes collecting together with its run, and
\* nothing but its deletion takes the run away.
LEMMA StepCollecting ==
  ASSUME "patch" \notin Kinds
  PROVE  IInv /\ KindInv /\ CollectingHasRun /\ [Next]_vars => CollectingHasRun'
<1> SUFFICES ASSUME IInv, KindInv, CollectingHasRun, [Next]_vars
             PROVE  CollectingHasRun'
  OBVIOUS
<1> USE DEF IInv, TypeOK, CollectingHasRun, rows
<1>1. ASSUME NEW r \in Requests, Commit(r) PROVE CollectingHasRun'
  <2>1. req[r].kind \in Kinds
    BY <1>1 DEF Commit, KindInv, Working
  <2>2. CASE CommitChange(r)
    <3>1. CASE lock = r /\ req[r].to = "collecting"
      <4>1. Collects(r)
        BY <2>1, <2>2, <3>1 DEF CommitChange, Collects
      <4>2. runs'[r] = "pending"
        BY <2>2, <4>1 DEF CommitChange
      <4>. QED
        BY <4>2
    <3>2. CASE ~(lock = r /\ req[r].to = "collecting")
      <4>1. status' = "collecting" => status = "collecting"
        BY <2>2, <3>2 DEF CommitChange
      <4>2. \A x \in Requests : runs[x] # "none" => runs'[x] # "none"
        BY <2>2 DEF CommitChange
      <4>. QED
        BY <4>1, <4>2
    <3>. QED
      BY <3>1, <3>2
  <2>3. CASE CommitDelete(r)
    BY <2>3, Places DEF CommitDelete, AllStatuses, Statuses
  <2>. QED
    BY <1>1, <2>2, <2>3 DEF Commit
<1>2. ASSUME NEW r \in Requests, TaskStep(r) PROVE CollectingHasRun'
  BY <1>2 DEF TaskStep, TaskStart, TaskComplete, TaskFail
<1>3. ASSUME NEW r \in Requests,
             Begin(r) \/ NotFound(r) \/ Refuse(r) \/ CheckActive(r)
               \/ InsertRun(r) \/ Apply(r) \/ ApplyDelete(r) \/ Abort(r)
      PROVE  CollectingHasRun'
  BY <1>3 DEF Begin, NotFound, Refuse, CheckActive, InsertRun, Apply,
     ApplyDelete, Abort
<1>4. CASE UpdateStrategy \/ Crash \/ UNCHANGED vars
  BY <1>4 DEF UpdateStrategy, Crash, vars
<1>. QED
  BY <1>1, <1>2, <1>3, <1>4 DEF Next, Progress

\* However many requests overlap, a project that is collecting has a run: only
\* PATCH can say that it is collecting without one.
THEOREM CollectingRuns == "patch" \notin Kinds => (Spec => []CollectingHasRun)
<1> SUFFICES ASSUME "patch" \notin Kinds PROVE Spec => []CollectingHasRun
  OBVIOUS
<1>1. Init => KindInv /\ CollectingHasRun
  BY Places DEF Init, KindInv, CollectingHasRun
<1>2. IInv /\ KindInv /\ CollectingHasRun /\ [Next]_vars
        => KindInv' /\ CollectingHasRun'
  BY StepKind, StepCollecting
<1>3. Init /\ [][Next]_vars => []IInv
  BY InitIInv, StepIInv, PTL
<1>4. Init /\ [][Next]_vars => []CollectingHasRun
  BY <1>1, <1>2, <1>3, PTL
<1>. QED
  BY <1>4, PTL DEF Spec, Safety

\* No write that was under way brings a deleted project back.
THEOREM DeletionIsFinal == Spec => DeletedIsFinal
<1>1. IInv /\ [Next]_vars => [status = Deleted => status' = Deleted]_vars
  <2> SUFFICES ASSUME IInv, [Next]_vars, status = Deleted
               PROVE  status' = Deleted
    OBVIOUS
  <2> USE DEF IInv, LockInv, rows
  <2>1. ASSUME NEW r \in Requests, Commit(r) PROVE status' = Deleted
    BY <2>1, RequestsAssumption DEF Commit, CommitChange, CommitDelete
  <2>2. ASSUME NEW r \in Requests,
               Begin(r) \/ NotFound(r) \/ Refuse(r) \/ CheckActive(r)
                 \/ InsertRun(r) \/ Apply(r) \/ ApplyDelete(r) \/ Abort(r)
                 \/ TaskStep(r)
        PROVE  status' = Deleted
    BY <2>2 DEF Begin, NotFound, Refuse, CheckActive, InsertRun, Apply,
       ApplyDelete, Abort, TaskStep, TaskStart, TaskComplete, TaskFail
  <2>3. CASE UpdateStrategy \/ Crash \/ UNCHANGED vars
    BY <2>3 DEF UpdateStrategy, Crash, vars
  <2>. QED
    BY <2>1, <2>2, <2>3 DEF Next, Progress
<1>. QED
  BY <1>1, Invariance, PTL DEF Spec, Safety, DeletedIsFinal

\* The 409 is exact up to overlap: of two active runs neither was committed
\* when the other's request looked.
THEOREM DuplicatesOverlap == Spec => []DuplicateRunsOnlyFromOverlap
<1>1. IInv => DuplicateRunsOnlyFromOverlap
  BY DEF IInv, BeforeInv, DuplicateRunsOnlyFromOverlap
<1>. QED
  BY <1>1, Invariance, PTL

\* A run row is there only for a request that was answered 200.
THEOREM RunsAccepted == Spec => []RunsComeFromAcceptedRequests
<1>1. IInv => RunsComeFromAcceptedRequests
  BY DEF IInv
<1>. QED
  BY <1>1, Invariance, PTL

\* Deleting a project leaves neither strategy nor runs, whoever was inserting.
THEOREM NoOrphans == Spec => []NoOrphanRows
<1>1. IInv => NoOrphanRows
  BY DEF IInv
<1>. QED
  BY <1>1, Invariance, PTL

=============================================================================
