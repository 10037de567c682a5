-------------------------- MODULE ProjectLifecycle --------------------------
(***************************************************************************)
(* One surveillance project, the HTTP requests that change its status, and *)
(* the collection runs they dispatch.                                      *)
(*                                                                         *)
(* Every request owns one AsyncSession (api/app/api/deps.py, get_db): what *)
(* it writes is its own until get_db commits, and get_db commits only when *)
(* the handler returns.  Postgres runs at READ COMMITTED, so a request     *)
(* reads whatever is committed when its SELECT runs and an UPDATE          *)
(* overwrites whatever was committed meanwhile, once it has the row lock.  *)
(* An action is what a handler does between two such round trips.          *)
(*                                                                         *)
(* A request starts at most one run, so the run row a request inserts is   *)
(* named by the request.                                                   *)
(***************************************************************************)
EXTENDS Integers, FiniteSets, ProjectStatusMachine

CONSTANTS
  Requests,   \* the requests clients send; each is sent once
  Nobody,     \* the holder of a free row lock
  PoolSize,   \* connections the engine may hold: requests in progress at once
  Asks        \* what clients ask for: an endpoint, and the status they name

ASSUME RequestsAssumption == IsFiniteSet(Requests) /\ Nobody \notin Requests
ASSUME PoolSizeAssumption == PoolSize \in Nat \ {0}
ASSUME AsksAssumption ==
  Asks \subseteq [kind: {"transition", "patch", "delete"}, to: AllStatuses]

VARIABLES
  (* committed rows *)
  status,     \* surveillance_projects.status, or Deleted
  sources,    \* search_strategies: "none" (no row), "other" or "openalex"
  runs,       \* collection_runs.status of each request's run, "none" if no row
  (* the database's and the process's own state *)
  lock,       \* the request holding the project row lock, or Nobody
  pc,         \* where each request is; a number is the HTTP answer it got,
              \* "lost" that something outside the handler ended it
  req,        \* what each request asked for and read
  task,       \* the background task each request created
  (* history *)
  before      \* run rows a request could see when it looked for active runs

rows == <<status, sources, runs>>
vars == <<rows, lock, pc, req, task, before>>

-----------------------------------------------------------------------------

Kinds       == {a.kind : a \in Asks}
Sources     == {"none", "other", "openalex"}
Working     == {"read", "insert", "inserted", "flushed"}
Answers     == {"200", "404", "409", "422", "500", "lost"}
TaskStates  == {"none", "waiting", "collecting", "over"}
RunStatuses == {"none", "pending", "completed"}

\* The status filter of the active-run query.
ActiveStatuses == {"pending", "running"}

InProgress == {r \in Requests : pc[r] \in Working}
ActiveRuns == {r \in Requests : runs[r] \in ActiveStatuses}

Collects(r) == req[r].kind = "transition" /\ req[r].to = "collecting"

\* A request whose INSERT of a run is not committed yet: the foreign key
\* keeps a share lock on the project row, which only a DELETE waits for.
SharesRow(r) == pc[r] \in {"inserted", "flushed"} /\ Collects(r)

DeleteHoldsRow == lock # Nobody /\ req[lock].kind = "delete"

\* A task that has flushed its run as running holds the lock of that run's row.
TaskHoldsRun == \E r \in Requests : task[r] = "collecting"

TypeOK ==
  /\ status \in AllStatuses \cup {Deleted}
  /\ sources \in Sources
  /\ runs \in [Requests -> RunStatuses]
  /\ lock \in Requests \cup {Nobody}
  /\ pc \in [Requests -> {"idle"} \cup Working \cup Answers]
  /\ req \in [Requests -> [kind: {"transition", "patch", "delete"},
                           to: AllStatuses, from: AllStatuses,
                           sources: Sources]]
  /\ task \in [Requests -> TaskStates]
  /\ before \in [Requests -> SUBSET Requests]

Init ==
  /\ status = "draft"
  /\ sources = "none"
  /\ runs = [r \in Requests |-> "none"]
  /\ lock = Nobody
  /\ pc = [r \in Requests |-> "idle"]
  /\ req = [r \in Requests |-> [kind |-> "transition", to |-> "draft",
                                from |-> "draft", sources |-> "none"]]
  /\ task = [r \in Requests |-> "none"]
  /\ before = [r \in Requests |-> {}]

-----------------------------------------------------------------------------
(* Requests                                                                *)

Goto(r, l) == pc' = [pc EXCEPT ![r] = l]

\* A connection is taken from the pool and verify_project_org loads the project
\* with its search strategy (selectin).  The service's own SELECT returns the
\* object that is in the session, or loads the row anew if it was collected; a
\* request that does the latter is one that began a little later.
Begin(r) ==
  /\ pc[r] = "idle"
  /\ Cardinality(InProgress) < PoolSize
  /\ IF status = Deleted
     THEN Goto(r, "404") /\ UNCHANGED req
     ELSE /\ Goto(r, "read")
          /\ \E a \in Asks :
               req' = [req EXCEPT ![r] = [kind |-> a.kind, to |-> a.to,
                                          from |-> status,
                                          sources |-> sources]]
  /\ UNCHANGED <<rows, lock, task, before>>

\* The service's own SELECT no longer finds the row.
NotFound(r) ==
  /\ pc[r] = "read"
  /\ status = Deleted
  /\ Goto(r, "404")
  /\ UNCHANGED <<rows, lock, req, task, before>>

\* Mutant: the table is not asked.
StrategyAllows(r) ==
  req[r].to = "collecting" => req[r].sources = "openalex"

\* The machine's row for the status that was read, and, for a collection, a
\* strategy that selects openalex.
TransitionAllowed(r) ==
  /\ CanTransition(req[r].from, req[r].to)
  /\ req[r].to = "collecting" => req[r].sources = "openalex"

Refuse(r) ==
  /\ pc[r] = "read"
  /\ req[r].kind = "transition"
  /\ status # Deleted
  /\ ~TransitionAllowed(r)
  /\ Goto(r, "422")
  /\ UNCHANGED <<rows, lock, req, task, before>>

\* Mutant: only a run that already runs is active.
RunningRunsVerdict ==
  IF \E r \in Requests : runs[r] = "running" THEN "409" ELSE "insert"

\* What scalar_one_or_none makes of the active runs: none, one, or an
\* exception.
ActiveRunsVerdict ==
  IF ActiveRuns = {} THEN "insert"
  ELSE IF Cardinality(ActiveRuns) = 1 THEN "409" ELSE "500"

CheckActive(r) ==
  /\ pc[r] = "read"
  /\ status # Deleted
  /\ Collects(r)
  /\ TransitionAllowed(r)
  /\ Goto(r, ActiveRunsVerdict)
  /\ before' = [before EXCEPT ![r] = {x \in Requests : runs[x] # "none"}]
  /\ UNCHANGED <<rows, lock, req, task>>

\* The flush of the pending run.  The foreign key makes it wait for a DELETE
\* in progress, and fail when the project is gone.
InsertRun(r) ==
  /\ pc[r] = "insert"
  /\ ~DeleteHoldsRow
  /\ Goto(r, IF status = Deleted THEN "500" ELSE "inserted")
  /\ UNCHANGED <<rows, lock, req, task, before>>

\* create_task only schedules run_collection; it runs when the request next
\* waits.  If that is the flush below, the session refuses the task's own
\* flush ("Session is already flushing"), twice, and the task is over without
\* a trace; if the driver answers without waiting, it is once the request is
\* done.
Dispatch(r) ==
  IF Collects(r)
  THEN \E t \in {"over", "waiting"} : task' = [task EXCEPT ![r] = t]
  ELSE UNCHANGED task

\* Mutant: the row is written whether or not it still exists.
ApplyBlindly(r) ==
  /\ \/ pc[r] = "read" /\ req[r].kind = "patch"
     \/ pc[r] = "read" /\ req[r].kind = "transition" /\ ~Collects(r)
                       /\ TransitionAllowed(r)
     \/ pc[r] = "inserted"
  /\ lock = Nobody
  /\ lock' = r
  /\ Goto(r, "flushed")
  /\ Dispatch(r)
  /\ UNCHANGED <<rows, req, before>>

\* project.status = to_status; flush.  PATCH assigns whatever it was given.
\* An assignment that changes nothing sends no UPDATE; the others wait for the
\* row lock, and an UPDATE that matches no row is an exception.
Apply(r) ==
  /\ \/ pc[r] = "read" /\ req[r].kind = "patch" /\ status # Deleted
     \/ /\ pc[r] = "read" /\ req[r].kind = "transition" /\ ~Collects(r)
        /\ status # Deleted /\ TransitionAllowed(r)
     \/ pc[r] = "inserted"
  /\ IF req[r].to = req[r].from
     THEN Goto(r, "flushed") /\ UNCHANGED lock
     ELSE /\ lock = Nobody
          /\ IF status = Deleted
             THEN Goto(r, "500") /\ UNCHANGED lock
             ELSE Goto(r, "flushed") /\ lock' = r
  /\ Dispatch(r)
  /\ UNCHANGED <<rows, req, before>>

\* The relationship to the strategy has no delete cascade, so the flush first
\* clears the foreign key of a strategy that was loaded, which the column
\* refuses.  Without one, the DELETE of the project and of the rows that hang
\* from it waits for everybody else who has touched one of them.
ApplyDelete(r) ==
  /\ pc[r] = "read"
  /\ req[r].kind = "delete"
  /\ status # Deleted
  /\ \/ req[r].sources # "none" /\ Goto(r, "500") /\ UNCHANGED lock
     \/ /\ req[r].sources = "none"
        /\ lock = Nobody
        /\ ~\E x \in Requests : SharesRow(x)
        /\ ~TaskHoldsRun
        /\ lock' = r
        /\ Goto(r, "flushed")
  /\ UNCHANGED <<rows, req, task, before>>

Unlock(r) == IF lock = r THEN Nobody ELSE lock

\* Mutant: the side effects happen for draft -> collecting only.
CommitRunFromDraft(r) ==
  /\ req[r].kind # "delete"
  /\ status' = IF lock = r THEN req[r].to ELSE status
  /\ runs' = IF Collects(r) /\ req[r].from = "draft"
             THEN [runs EXCEPT ![r] = "pending"] ELSE runs
  /\ UNCHANGED sources

\* What get_db's commit publishes of a PATCH or a transition.
CommitChange(r) ==
  /\ req[r].kind # "delete"
  /\ status' = IF lock = r THEN req[r].to ELSE status
  /\ runs' = IF Collects(r) THEN [runs EXCEPT ![r] = "pending"] ELSE runs
  /\ UNCHANGED sources

\* Mutant: collection_runs has no foreign key that cascades.
CommitDeleteAlone(r) ==
  /\ req[r].kind = "delete"
  /\ status' = Deleted
  /\ sources' = "none"
  /\ UNCHANGED runs

\* What it publishes of a DELETE: the foreign keys cascade, also to a strategy
\* or a run the request had not loaded.
CommitDelete(r) ==
  /\ req[r].kind = "delete"
  /\ status' = Deleted
  /\ runs' = [x \in Requests |-> "none"]
  /\ sources' = "none"

\* Mutant: the connection goes back to the pool with its locks.
CommitKeepingLock(r) ==
  /\ pc[r] = "flushed"
  /\ CommitChange(r) \/ CommitDelete(r)
  /\ Goto(r, "200")
  /\ UNCHANGED <<lock, req, task, before>>

Commit(r) ==
  /\ pc[r] = "flushed"
  /\ CommitChange(r) \/ CommitDelete(r)
  /\ lock' = Unlock(r)
  /\ Goto(r, "200")
  /\ UNCHANGED <<req, task, before>>

\* Mutant: an exception after the insert is committed all the same.
AbortKeepingRun(r) ==
  /\ pc[r] \in Working
  /\ lock' = Unlock(r)
  /\ runs' = IF SharesRow(r) THEN [runs EXCEPT ![r] = "pending"] ELSE runs
  /\ Goto(r, "lost")
  /\ UNCHANGED <<status, sources, req, task, before>>

\* An exception from outside (the connection to the database, a deadlock it
\* broke, a refused refresh): get_db rolls back and closes.
Abort(r) ==
  /\ pc[r] \in Working
  /\ lock' = Unlock(r)
  /\ Goto(r, "lost")
  /\ UNCHANGED <<rows, req, task, before>>

-----------------------------------------------------------------------------
(* The rest of the system                                                  *)

\* PUT /search-strategy or its generation, in a transaction of its own.
UpdateStrategy ==
  /\ status # Deleted
  /\ ~DeleteHoldsRow
  /\ \E s \in {"other", "openalex"} : sources # s /\ sources' = s
  /\ UNCHANGED <<status, runs, lock, pc, req, task, before>>

\* run_collection on the session its request has closed: no row, no work;
\* the strategy is read again, and a source no longer selected is a failure.
TaskStart(r) ==
  /\ task[r] = "waiting"
  /\ pc[r] \in Answers
  /\ ~DeleteHoldsRow
  /\ task' = [task EXCEPT ![r] =
                IF runs[r] = "none" \/ sources # "openalex"
                THEN "over" ELSE "collecting"]
  /\ UNCHANGED <<rows, lock, pc, req, before>>

\* The one commit of run_collection.
TaskComplete(r) ==
  /\ task[r] = "collecting"
  /\ runs' = [runs EXCEPT ![r] = "completed"]
  /\ task' = [task EXCEPT ![r] = "over"]
  /\ UNCHANGED <<status, sources, lock, pc, req, before>>

\* Mutant: the handler commits the failed status.
TaskFailCommitted(r) ==
  /\ task[r] = "collecting"
  /\ runs' = [runs EXCEPT ![r] = "failed"]
  /\ task' = [task EXCEPT ![r] = "over"]
  /\ UNCHANGED <<status, sources, lock, pc, req, before>>

\* run_collection's exception handler flushes the failed status and commits
\* nothing, so the run row stays as it was.
TaskFail(r) ==
  /\ task[r] = "collecting"
  /\ task' = [task EXCEPT ![r] = "over"]
  /\ UNCHANGED <<rows, lock, pc, req, before>>

\* The API process dies: transactions roll back, tasks are gone.
Crash ==
  /\ InProgress # {} \/ \E r \in Requests : task[r] \in {"waiting", "collecting"}
  /\ lock' = Nobody
  /\ pc' = [r \in Requests |-> IF r \in InProgress THEN "lost" ELSE pc[r]]
  /\ task' = [r \in Requests |-> IF task[r] = "none" THEN "none" ELSE "over"]
  /\ UNCHANGED <<rows, req, before>>

Progress(r) ==
  \/ NotFound(r) \/ Refuse(r) \/ CheckActive(r) \/ InsertRun(r)
  \/ Apply(r) \/ ApplyDelete(r) \/ Commit(r)

TaskStep(r) == TaskStart(r) \/ TaskComplete(r) \/ TaskFail(r)

Next ==
  \/ \E r \in Requests : Begin(r) \/ Progress(r) \/ Abort(r) \/ TaskStep(r)
  \/ UpdateStrategy
  \/ Crash

Safety == Init /\ [][Next]_vars

\* The event loop resumes every coroutine whose round trip has been answered,
\* and Postgres grants a free lock to whoever waits for it.  Nothing is asked
\* of clients, and nothing of failures.
Fairness ==
  \A r \in Requests : WF_vars(Progress(r)) /\ WF_vars(TaskStep(r))

Spec == Safety /\ Fairness

-----------------------------------------------------------------------------
(* Properties                                                              *)

\* Active runs of a project never outnumber the requests that can be in
\* progress at once: the check of transition_status admits a run only while
\* no other is active, so active runs all passed it together.
ActiveRunsBounded == Cardinality(ActiveRuns) <= PoolSize

\* Two active runs exist only when each request looked before the other
\* committed: a run committed before the check is never doubled.
DuplicateRunsOnlyFromOverlap ==
  \A a, b \in ActiveRuns : a \notin before[b]

\* A run row exists only for a collection request that was answered 200: an
\* exception or a crash between the insert and the commit leaves no run.
RunsComeFromAcceptedRequests ==
  \A r \in Requests : runs[r] # "none" => pc[r] = "200" /\ Collects(r)

\* Nothing hangs from a deleted project, whatever was being inserted while
\* the DELETE ran.
NoOrphanRows ==
  status = Deleted => sources = "none" /\ \A r \in Requests : runs[r] = "none"

\* A deleted project never comes back through a write that was under way.
DeletedIsFinal == [][status = Deleted => status' = Deleted]_vars

\* Every request gets an answer: waiting for the row lock, for a share lock
\* or for a collection ends.
EveryRequestAnswered ==
  \A r \in Requests : pc[r] \in Working ~> pc[r] \in Answers

\* The documented machine: a committed status is replaced only by one the
\* table allows after it.  This includes that archived is final.
StatusFollowsMachine ==
  [][status' \notin {status, Deleted} => CanTransition(status, status')]_vars

\* A status that the table does not allow after the one it replaces was set by
\* a PATCH, or by a transition that had read another status, so that somebody
\* else has committed one since (project_service.py:179-191).
StatusSkipsOnlyFromOverlap ==
  [][status' \notin {status, Deleted} /\ ~CanTransition(status, status') =>
       req[lock].kind = "patch" \/ req[lock].from # status]_vars

\* At most one run is active: what the 409 "Ya hay una recoleccion en curso"
\* of transition_status is for.
AtMostOneActiveRun == Cardinality(ActiveRuns) <= 1

\* A project that is collecting has a run that is active or has finished: a
\* transition to collecting commits both or neither.
CollectingHasRun ==
  status = "collecting" => \E r \in Requests : runs[r] # "none"

\* "Hard-delete a project": the database does not refuse what an administrator
\* may do.
DeleteNotRefused ==
  \A r \in Requests : req[r].kind = "delete" => pc[r] # "500"

\* A run that was triggered does not stay pending for ever.
PendingRunSettles ==
  \A r \in Requests : runs[r] = "pending" ~> runs[r] # "pending"

-----------------------------------------------------------------------------
(* The inductive invariant behind the safety properties                    *)

\* Requests that have passed the check for active runs and may still commit.
Admitted ==
  {r \in Requests : pc[r] \in {"insert", "inserted", "flushed"} /\ Collects(r)}

PoolInv == Cardinality(InProgress) <= PoolSize

\* Only a collection goes through the insertion of a run.
InsertInv ==
  \A r \in Requests : pc[r] \in {"insert", "inserted"} => Collects(r)

\* The row lock belongs to a request about to commit, on a row that exists; a
\* DELETE about to commit has it.
LockInv ==
  /\ lock # Nobody => pc[lock] = "flushed" /\ status # Deleted
  /\ \A r \in Requests :
       pc[r] = "flushed" /\ req[r].kind = "delete" => lock = r

\* While a DELETE waits for its commit nobody else has written to the project
\* or to what hangs from it.
DeleteInv == DeleteHoldsRow =>
  /\ ~\E r \in Requests : SharesRow(r)
  /\ ~TaskHoldsRun

\* Uncommitted run rows hang from a project that exists, and a task at work
\* has its row, which nobody else completes.
RowInv ==
  /\ status = Deleted => ~\E r \in Requests : SharesRow(r)
  /\ \A r \in Requests : /\ task[r] = "collecting" => runs[r] = "pending"
                         /\ task[r] = "waiting" => runs[r] # "completed"

\* What a request saw when it looked for active runs was committed, and none
\* of it is active as long as the request's own run matters.
BeforeInv ==
  /\ \A b \in Requests : \A a \in before[b] : pc[a] = "200"
  /\ \A b \in ActiveRuns \cup Admitted : \A a \in ActiveRuns : a \notin before[b]

\* Everybody who has passed the check and whose run is not over passed it in
\* one overlapping group, and a group fits into the pool.
GroupInv == Cardinality(ActiveRuns \cup Admitted) <= PoolSize

IInv ==
  /\ TypeOK /\ PoolInv /\ InsertInv /\ LockInv /\ DeleteInv /\ RowInv
  /\ BeforeInv /\ GroupInv
  /\ RunsComeFromAcceptedRequests /\ NoOrphanRows

\* A transition that has passed its checks is one the table allows after the
\* status it read.
MachineInv ==
  \A r \in Requests :
    pc[r] \in {"insert", "inserted", "flushed"} /\ req[r].kind = "transition" =>
      CanTransition(req[r].from, req[r].to)

\* One request at a time: what it read is still what is committed, and what it
\* is about to write was checked against it.
SerialInv ==
  \A r \in InProgress :
    /\ req[r].kind \in Kinds
    /\ req[r].from = status
    /\ pc[r] # "read" /\ req[r].kind = "transition" =>
         CanTransition(req[r].from, req[r].to)

=============================================================================
