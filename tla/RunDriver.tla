----------------------------- MODULE RunDriver -----------------------------
(***************************************************************************)
(* One run of a plan: the sequential scheduler and its driver, amendments, *)
(* a crash at any moment, and the resume that replays the event log.       *)
(*                                                                         *)
(* The driver works on a RunState in memory; what survives it is the plan  *)
(* file and events.jsonl.  The log is represented by what replay folds it  *)
(* into (applyEvent): `logged' for the tasks, `loggedReplans' and          *)
(* `loggedCalls' for the counters.  Appending an event is one action,      *)
(* since the process may die between any two appends.                      *)
(***************************************************************************)
EXTENDS PlanRules

CONSTANTS
    Tasks,            \* every task id that may ever be in the plan
    FirstPlans,       \* plan files an apply may be started with, invalid ones too
    Dirts,            \* the sets of uncommitted paths it may find
    AllowedDirt,      \* patterns of execution.allowDirtyPaths
    Amendments,       \* the amendments a replanner may propose
    Tiered,           \* whether amendmentApproval is "tiered"
    MaxTaskRetries, MaxReplans, MaxModelCalls,    \* config.execution
    MaxCalls,         \* bound: provider calls of one attempt, replanning or sweep
    MaxCrashes        \* bound: crashes of the coordinator

\* A task as the schema of plans admits it.
PlanTasks == [id: Tasks, kind: {"inspect", "modify", "test", "verify", "cleanup"},
              deps: SUBSET Tasks, satisfies: SUBSET Properties, verifies: SUBSET Properties,
              writes: SUBSET Seq(STRING), risk: {"low", "medium", "high"}]

\* The operations of an amendment, as its schema admits them.
Operations ==
    [op: {"addTask", "replaceTask"}, task: Tasks, by: PlanTasks]
    \cup [op: {"removeTask"}, task: Tasks]
    \cup [op: {"addDependency"}, task: Tasks, on: Tasks]
    \cup [op: {"changeTarget"}, task: Tasks, writes: SUBSET Seq(STRING)]

ASSUME DriverAssumption ==
    /\ FirstPlans \subseteq Seq(PlanTasks) /\ Tiered \in BOOLEAN
    /\ Amendments \subseteq Seq(Operations)
    /\ MaxTaskRetries \in Nat /\ MaxReplans \in Nat /\ MaxModelCalls \in Nat
    /\ MaxCalls \in Nat \ {0} /\ MaxCrashes \in Nat

Statuses == {"none", "pending", "ready", "running", "completed", "failed", "blocked",
             "needs_replan", "skipped"}

\* A TaskState: `failed' tells whether it carries the failure of an attempt.
TaskStates == [status: Statuses, attempt: Nat, failed: BOOLEAN]
TaskState(s, a, f) == [status |-> s, attempt |-> a, failed |-> f]
None == TaskState("none", 0, FALSE)
Pending == TaskState("pending", 0, FALSE)

Outcomes == {"done", "deadlocked", "replan_failed", "runnable_work_remains"}
RunStatuses == {"succeeded", "failed", "blocked", "partially_satisfied"}
Steps == {"preflight", "refused", "scanning", "choosing", "starting", "executing", "calling", "answered",
          "replanning", "amending", "redispatching", "finishing", "over"}

VARIABLES
    alive, pc,
    plan,           \* currentPlan
    tasks,          \* ctx.state.tasks; "none" where there is no entry
    replans, calls, \* ctx.state.replans, ctx.modelCalls
    at,             \* how far the scan for blocked tasks has come
    task,           \* the task being executed or replanned
    cancelled,      \* cancellationObserved
    anyFailed,      \* failedTasks is not empty
    outcome,        \* the scheduler's outcome
    planFile, logged, loggedReplans, loggedCalls,
    blocking,       \* a blocking follow-up of this run is open
    ended,          \* the status of RUN_COMPLETED
    crashes, spent, amended   \* history: crashes, budget reservations and plan
                              \* files written

memory == <<plan, tasks, replans, calls, cancelled, anyFailed>>
disk == <<planFile, logged, loggedReplans, loggedCalls, blocking, ended>>
history == <<crashes, spent, amended>>
vars == <<alive, pc, at, task, outcome, memory, disk, history>>

TypeOK ==
    /\ alive \in BOOLEAN /\ pc \in Steps
    /\ plan \in Seq(PlanTasks) /\ planFile \in Seq(PlanTasks)
    /\ tasks \in [Tasks -> TaskStates] /\ logged \in [Tasks -> TaskStates]
    /\ replans \in Nat /\ calls \in Nat /\ loggedReplans \in Nat /\ loggedCalls \in Nat
    /\ at \in Nat /\ task \in Tasks \cup {"none"}
    /\ cancelled \in BOOLEAN /\ anyFailed \in BOOLEAN /\ blocking \in BOOLEAN
    /\ outcome \in Outcomes
    /\ ended \in RunStatuses \cup {"none"}
    /\ crashes \in Nat /\ spent \in Nat /\ amended \in Nat

Fresh(p) == [t \in Tasks |-> IF t \in Ids(p) THEN Pending ELSE None]

Init ==
    /\ alive = TRUE /\ pc = "preflight" /\ at = 1 /\ task = "none" /\ outcome = "done"
    /\ planFile \in FirstPlans /\ plan = <<>>
    /\ tasks = [t \in Tasks |-> None]
    /\ replans = 0 /\ calls = 0 /\ cancelled = FALSE /\ anyFailed = FALSE
    /\ logged = [t \in Tasks |-> None]
    /\ loggedReplans = 0 /\ loggedCalls = 0 /\ blocking = FALSE /\ ended = "none"
    /\ crashes = 0 /\ spent = 0 /\ amended = 0

-----------------------------------------------------------------------------
(* applyPlan: what must hold before a run comes into being. *)

MatchesAny(patterns, path) == \E w \in patterns : GlobMatch(w, path)
WriteTargets(p) == UNION {p[i].writes : i \in DOMAIN p}

\* Uncommitted work is refused, unless the list or the blanket flag admits it;
\* what the list admits must not lie where the plan writes.
DirtAdmitted(p, dirt, blanket) ==
    \A d \in dirt : IF MatchesAny(AllowedDirt, d) THEN ~MatchesAny(WriteTargets(p), d)
                     ELSE blanket

\* checkPreflight: the plan validates, the checkout is fit for it, and no earlier
\* run of the spec owes the answer to a blocking follow-up.
PreflightPasses(p, dirt, blanket, owed, force) ==
    /\ PlanErrors(p) = {}
    /\ DirtAdmitted(p, dirt, blanket)
    /\ owed => force

Start ==
    /\ pc = "preflight"
    /\ \E dirt \in Dirts, blanket, owed, force \in BOOLEAN :
          PreflightPasses(planFile, dirt, blanket, owed, force)
    /\ plan' = planFile /\ tasks' = Fresh(planFile)
    /\ pc' = "scanning"
    /\ UNCHANGED <<alive, at, task, outcome, replans, calls, cancelled, anyFailed, disk,
                   history>>

\* What else may stop it: a plan without approval, a run of the plan that is still
\* marked running, a spec that does not compile.  There is no run to resume then.
Refuse ==
    /\ pc = "preflight"
    /\ alive' = FALSE /\ pc' = "refused"
    /\ UNCHANGED <<at, task, outcome, memory, disk, history>>

-----------------------------------------------------------------------------
(* The scheduler's loop. *)

Planned(status) == {t \in Ids(plan) : tasks[t].status = status}
DeadEnds == {"failed", "blocked", "cancelled", "needs_replan"}

\* A transition of the driver: the state in memory and the event it appends.
Record(t, status, fails) ==
    /\ tasks' = [tasks EXCEPT ![t].status = status, ![t].failed = @ \/ fails]
    /\ logged' = [logged EXCEPT ![t] = TaskState(status, tasks[t].attempt, fails)]

\* One position of the forward pass: a pending task behind a dead end is
\* blocked.
Scan ==
    LET t == plan[at].id IN
    /\ pc = "scanning" /\ at \in DOMAIN plan
    /\ at' = at + 1
    /\ \/ /\ tasks[t].status = "pending"
          /\ \E d \in DepsOf(plan, t) : tasks[d].status \in DeadEnds
          /\ tasks' = [tasks EXCEPT ![t].status = "blocked"]
          /\ logged' = [logged EXCEPT ![t] = TaskState("blocked", tasks[t].attempt, TRUE)]
       \/ /\ ~(tasks[t].status = "pending"
               /\ \E d \in DepsOf(plan, t) : tasks[d].status \in DeadEnds)
          /\ UNCHANGED <<tasks, logged>>
    /\ UNCHANGED <<alive, pc, task, outcome, plan, replans, calls, cancelled, anyFailed,
                   planFile, loggedReplans, loggedCalls, blocking, ended, history>>

ScanDone ==
    /\ pc = "scanning" /\ at \notin DOMAIN plan
    /\ pc' = "choosing"
    /\ UNCHANGED <<alive, at, task, outcome, memory, disk, history>>

Met(d) == tasks[d].status \in {"completed", "skipped"}
Ready == {t \in Planned("pending") : \A d \in DepsOf(plan, t) : Met(d)}

\* Nothing is left to launch, or nothing may be.
Conclude ==
    /\ pc = "choosing"
    /\ Ready = {} \/ cancelled
    /\ outcome' = IF Planned("pending") = {}
                  THEN IF Planned("needs_replan") = {} THEN "done" ELSE "runnable_work_remains"
                  ELSE IF Ready = {} THEN "deadlocked" ELSE "done"
    /\ pc' = "finishing"
    /\ UNCHANGED <<alive, at, task, memory, disk, history>>

\* Broken: a pending task is launched whatever it depends on.
DispatchUnordered ==
    /\ pc = "choosing" /\ ~cancelled
    /\ \E i \in DOMAIN plan :
          LET t == plan[i].id IN
          /\ t \in Planned("pending") /\ \A j \in 1..(i - 1) : plan[j].id \notin Planned("pending")
          /\ task' = t
          /\ tasks' = [tasks EXCEPT ![t].status = "running", ![t].attempt = @ + 1]
          /\ logged' = [logged EXCEPT ![t].status = "ready", ![t].attempt = tasks[t].attempt + 1]
    /\ pc' = "starting"
    /\ UNCHANGED <<alive, at, outcome, plan, replans, calls, cancelled, anyFailed,
                   planFile, loggedReplans, loggedCalls, blocking, ended, history>>

\* Broken: another launch is not another attempt.
DispatchSameAttempt ==
    /\ pc = "choosing" /\ ~cancelled
    /\ \E i \in DOMAIN plan :
          LET t == plan[i].id IN
          /\ t \in Ready /\ \A j \in 1..(i - 1) : plan[j].id \notin Ready
          /\ task' = t
          /\ tasks' = [tasks EXCEPT ![t].status = "running"]
          /\ logged' = [logged EXCEPT ![t].status = "ready"]
    /\ pc' = "starting"
    /\ UNCHANGED <<alive, at, outcome, plan, replans, calls, cancelled, anyFailed,
                   planFile, loggedReplans, loggedCalls, blocking, ended, history>>

\* The first ready task in plan order is launched: TASK_READY...
Dispatch ==
    /\ pc = "choosing" /\ ~cancelled
    /\ \E i \in DOMAIN plan :
          LET t == plan[i].id IN
          /\ t \in Ready /\ \A j \in 1..(i - 1) : plan[j].id \notin Ready
          /\ task' = t
          /\ tasks' = [tasks EXCEPT ![t].status = "running", ![t].attempt = @ + 1]
          /\ logged' = [logged EXCEPT ![t].status = "ready", ![t].attempt = tasks[t].attempt + 1]
    /\ pc' = "starting"
    /\ UNCHANGED <<alive, at, outcome, plan, replans, calls, cancelled, anyFailed,
                   planFile, loggedReplans, loggedCalls, blocking, ended, history>>

\* ...and TASK_STARTED.
MarkStarted ==
    /\ pc = "starting"
    /\ logged' = [logged EXCEPT ![task].status = "running"]
    /\ pc' = "executing"
    /\ UNCHANGED <<alive, at, task, outcome, memory, planFile, loggedReplans, loggedCalls,
                   blocking, ended, history>>

-----------------------------------------------------------------------------
(* executeTaskInRun. *)

VerifyTasks == {plan[i].id : i \in {j \in DOMAIN plan : plan[j].kind = "verify"}}

\* Broken: the call is not counted when it is made.
ReserveNothing ==
    /\ pc = "executing" /\ calls < MaxModelCalls /\ task \notin VerifyTasks
    /\ spent' = spent + 1
    /\ pc' = "calling"
    /\ UNCHANGED <<alive, at, task, outcome, memory, disk, crashes, amended>>

\* The budget is reserved before any await.
Reserve ==
    /\ pc = "executing" /\ calls < MaxModelCalls /\ task \notin VerifyTasks
    /\ calls' = calls + 1
    /\ spent' = spent + 1
    /\ pc' = "calling"
    /\ UNCHANGED <<alive, at, task, outcome, plan, tasks, replans, cancelled, anyFailed,
                   disk, crashes, amended>>

\* The follow-ups an answer drafts are created; one of them may block.
Drafts == blocking' \in {blocking, TRUE}

\* A verify task verifies its properties: no reservation, though an agent
\* criterion calls the provider; its status is completed or failed.
Verify ==
    /\ pc = "executing" /\ calls < MaxModelCalls /\ task \in VerifyTasks
    /\ loggedCalls' \in loggedCalls..(loggedCalls + MaxCalls)
    /\ Drafts
    /\ pc' = "answered"
    /\ UNCHANGED <<alive, at, task, outcome, memory, planFile, logged, loggedReplans,
                   ended, history>>

\* The provider is called, once or for several staging rounds; each call is
\* recorded, and the answer may draft blocking follow-ups.
CallProvider ==
    /\ pc = "calling"
    /\ \E k \in 1..MaxCalls : loggedCalls' = loggedCalls + k
    /\ Drafts
    /\ pc' = "answered"
    /\ UNCHANGED <<alive, at, task, outcome, memory, planFile, logged, loggedReplans,
                   ended, history>>

NextPass == pc' = "scanning" /\ at' = 1

\* A task that completes leaves a TASK_COMPLETED; a failure of an earlier
\* attempt stays with it in memory only.
Complete ==
    /\ pc = "answered"
    /\ Record(task, "completed", FALSE)
    /\ NextPass
    /\ UNCHANGED <<alive, task, outcome, plan, replans, calls, cancelled, anyFailed,
                   planFile, loggedReplans, loggedCalls, blocking, ended, crashes, spent,
                   amended>>

Exhausted == pc = "executing" /\ calls >= MaxModelCalls

\* An attempt fails (a refusal, a violation, an error, an exhausted budget)
\* and the task may be retried: no event says so.
Retry ==
    /\ pc = "answered" \/ Exhausted
    /\ tasks[task].attempt <= MaxTaskRetries
    /\ tasks' = [tasks EXCEPT ![task].status = "pending", ![task].failed = TRUE]
    /\ NextPass
    /\ UNCHANGED <<alive, task, outcome, plan, replans, calls, cancelled, anyFailed, disk,
                   crashes, spent, amended>>

\* The last attempt fails.
Fail ==
    /\ pc = "answered" \/ Exhausted
    /\ tasks[task].attempt > MaxTaskRetries
    /\ Record(task, "failed", TRUE)
    /\ anyFailed' = TRUE
    /\ NextPass
    /\ UNCHANGED <<alive, task, outcome, plan, replans, calls, cancelled, planFile,
                   loggedReplans, loggedCalls, blocking, ended, crashes, spent, amended>>

\* A block may come of REQUEST_RETIRED, after which nothing more is launched.
ObserveCancellation == cancelled' \in {cancelled, TRUE}

\* The task reports itself blocked, or its request was retired.
Block ==
    /\ pc = "answered" /\ task \notin VerifyTasks
    /\ Record(task, "blocked", TRUE)
    /\ ObserveCancellation
    /\ NextPass
    /\ UNCHANGED <<alive, task, outcome, plan, replans, calls, anyFailed, planFile,
                   loggedReplans, loggedCalls, blocking, ended, history>>

NeedReplan ==
    /\ pc = "answered" /\ task \notin VerifyTasks
    /\ Record(task, "needs_replan", FALSE)
    /\ pc' = "replanning"
    /\ UNCHANGED <<alive, at, task, outcome, plan, replans, calls, cancelled, anyFailed,
                   planFile, loggedReplans, loggedCalls, blocking, ended, history>>

-----------------------------------------------------------------------------
(* onNeedsReplan. *)

RequestReplan ==
    /\ pc = "replanning"
    /\ loggedReplans' = loggedReplans + 1
    /\ pc' = "amending"
    /\ UNCHANGED <<alive, at, task, outcome, memory, planFile, logged, loggedCalls,
                   blocking, ended, history>>

\* The budget is spent, no amendment validates, or a person must approve it:
\* a blocking follow-up, and the run ends.
FailReplan ==
    /\ pc = "amending"
    /\ loggedCalls' \in loggedCalls..(loggedCalls + MaxCalls)
    /\ blocking' = TRUE
    /\ outcome' = "replan_failed"
    /\ pc' = "finishing"
    /\ UNCHANGED <<alive, at, task, memory, planFile, logged, loggedReplans, ended, history>>

\* The tasks an amendment may not touch.
Executed == {t \in Tasks : tasks[t].status \in {"completed", "running"}}

\* generateAmendment: an amendment that applies and validates...
AmendedPlan(ops) == ApplyAmendment(plan, ops, Executed)
Valid(ops) == AmendedPlan(ops) # <<>> /\ PlanErrors(AmendedPlan(ops)) = {}

\* ...and maybeGateAmendment: it is put to a person when it is too risky.
Gated(ops) == Tiered /\ HighRiskAmendment(ops)

\* The amended plan replaces the plan file before any event tells of it; the
\* tasks it adds are pending.
WritePlan ==
    /\ pc = "amending" /\ replans < MaxReplans
    /\ \E k \in 1..MaxCalls : loggedCalls' = loggedCalls + k
    /\ \E ops \in Amendments :
       LET q == AmendedPlan(ops) IN
          /\ Valid(ops) /\ ~Gated(ops)
          /\ planFile' = q
          /\ tasks' = [t \in Tasks |-> IF t \in Ids(q) \ Ids(plan) THEN Pending ELSE tasks[t]]
    /\ amended' = amended + 1
    /\ pc' = "redispatching"
    /\ UNCHANGED <<alive, at, task, outcome, plan, replans, calls, cancelled, anyFailed,
                   logged, loggedReplans, blocking, ended, crashes, spent>>

Parked(p) == {t \in Ids(p) : tasks[t].status = "needs_replan"}

\* A parked task that survives the amendment is pending again; its event is
\* a TASK_READY.
Redispatch ==
    /\ pc = "redispatching"
    /\ \E i \in DOMAIN planFile :
          LET t == planFile[i].id IN
          /\ t \in Parked(planFile)
          /\ \A j \in 1..(i - 1) : planFile[j].id \notin Parked(planFile)
          /\ tasks' = [tasks EXCEPT ![t].status = "pending"]
          /\ logged' = [logged EXCEPT ![t].status = "ready"]
    /\ UNCHANGED <<alive, pc, at, task, outcome, plan, replans, calls, cancelled, anyFailed,
                   planFile, loggedReplans, loggedCalls, blocking, ended, history>>

\* Broken: every task of the amended plan starts afresh.
AmendedAfresh(t) ==
    CASE t \in Ids(planFile) -> Pending
      [] t \in Ids(plan) \ Ids(planFile) /\ logged[t].status # "completed" ->
            [logged[t] EXCEPT !.status = "skipped"]
      [] OTHER -> logged[t]

\* PLAN_AMENDED: on replay the removed tasks are skipped, the added pending.
Amended(t) ==
    CASE t \in Ids(planFile) \ Ids(plan) -> Pending
      [] t \in Ids(plan) \ Ids(planFile) /\ logged[t].status # "completed" ->
            [logged[t] EXCEPT !.status = "skipped"]
      [] OTHER -> logged[t]

CommitAmendment ==
    /\ pc = "redispatching" /\ Parked(planFile) = {}
    /\ plan' = planFile
    /\ logged' = [t \in Tasks |-> Amended(t)]
    /\ replans' = replans + 1
    /\ NextPass
    /\ UNCHANGED <<alive, task, outcome, tasks, calls, cancelled, anyFailed, planFile,
                   loggedReplans, loggedCalls, blocking, ended, history>>

-----------------------------------------------------------------------------
(* finishRun, crashes and resumes. *)

\* The final sweep decides whether the must-properties are satisfied and may
\* itself open blocking follow-ups.
Finish ==
    /\ pc = "finishing"
    /\ \E b \in {blocking, TRUE}, satisfied \in BOOLEAN :
          /\ ended' = IF b THEN "blocked"
                      ELSE IF satisfied THEN "succeeded"
                      ELSE IF anyFailed \/ outcome \in {"replan_failed", "runnable_work_remains"}
                      THEN "failed" ELSE "partially_satisfied"
          /\ blocking' = (b \/ (~satisfied /\ outcome = "runnable_work_remains"))
    /\ pc' = "over"
    /\ UNCHANGED <<alive, at, task, outcome, memory, planFile, logged, loggedReplans,
                   loggedCalls, history>>

Crash ==
    /\ alive /\ pc # "preflight" /\ ended = "none" /\ crashes < MaxCrashes
    /\ alive' = FALSE
    /\ crashes' = crashes + 1
    /\ UNCHANGED <<pc, at, task, outcome, memory, disk, spent, amended>>

\* REPLAN_REQUESTED counts, whatever came of the request.
ReplayReplans == loggedReplans

\* Broken: the resumed run starts from its plan.
ReplayPlanOnly(t) == IF t \in Ids(planFile) THEN Pending ELSE None

\* projectState: the initial state of the plan file, and every event.
Replay(t) ==
    IF logged[t].status # "none" THEN logged[t]
    ELSE IF t \in Ids(planFile) THEN Pending ELSE None

\* The scheduler starts by making a running task pending again.
Interrupted(s) == IF s.status = "running" THEN [s EXCEPT !.status = "pending"] ELSE s

\* A resume validates the plan again, but looks at nothing else of the preflight.
Resume ==
    /\ ~alive /\ pc # "refused" /\ ended = "none" /\ PlanErrors(planFile) = {}
    /\ alive' = TRUE
    /\ plan' = planFile
    /\ tasks' = [t \in Tasks |-> IF t \in Ids(planFile) THEN Interrupted(Replay(t))
                                 ELSE Replay(t)]
    /\ replans' = ReplayReplans
    /\ calls' = loggedCalls
    /\ cancelled' = FALSE /\ anyFailed' = FALSE
    /\ task' = "none" /\ outcome' = "done"
    /\ NextPass
    /\ UNCHANGED <<disk, history>>

Drive ==
    /\ alive
    /\ \/ Start \/ Refuse \/ Scan \/ ScanDone \/ Conclude \/ Dispatch \/ MarkStarted \/ Reserve \/ Verify
       \/ CallProvider \/ Complete \/ Retry \/ Fail \/ Block \/ NeedReplan
       \/ RequestReplan \/ FailReplan \/ WritePlan \/ Redispatch \/ CommitAmendment
       \/ Finish

Next == Drive \/ Crash \/ Resume

\* The driver is one async function: while its process lives it goes on, as
\* a provider answers or gives up within its window.
Spec == Init /\ [][Next]_vars /\ WF_vars(Drive)
-----------------------------------------------------------------------------
(* What the driver promises through crashes. *)

\* What a crash leaves in the log is what the driver acted on: every attempt,
\* completion and failure of a planned task, so that a resume neither repeats
\* nor forgets one.
LogRemembers ==
    alive => \A t \in Ids(plan) :
        /\ tasks[t].attempt = logged[t].attempt
        /\ tasks[t].status = "completed" <=> logged[t].status = "completed"
        /\ tasks[t].status = "failed" <=> logged[t].status = "failed"
        /\ tasks[t].status = "blocked" <=> logged[t].status = "blocked"

\* A task is only executed when the log shows that everything the plan on
\* disk makes it depend on was completed, in this life or an earlier one.
DependenciesFirst ==
    alive /\ pc \in {"executing", "calling", "answered"} =>
        \A d \in DepsOf(planFile, task) : logged[d].status \in {"completed", "skipped"}

\* No task is attempted more often than its retries, the replans of the run
\* and the crashes account for.
AttemptsBounded ==
    \A t \in Tasks : logged[t].attempt <= MaxTaskRetries + 1 + loggedReplans + crashes

\* Interruptions cost at most the one call each that was under way: the
\* budget of executor calls holds over all lives of the run together.
BudgetBounded == spent <= MaxModelCalls + crashes

\* config.execution's limits hold over all lives of a run together, however it is
\* interrupted and resumed: attempts, calls, and plan amendments.
Bounded == AttemptsBounded /\ BudgetBounded /\ amended <= MaxReplans

\* A driver that lives brings its run to an end: it does not wait, retry or
\* replan for ever.
RunEnds == alive ~> (ended # "none" \/ ~alive)

\* However the run is amended, crashes and is resumed, the plan it is driven by
\* and the plan on disk are acyclic, keep every must-property addressed and order
\* the tasks whose targets may overlap.
PlanSound ==
    pc \notin {"preflight", "refused"} => \A p \in {plan, planFile} :
        /\ Acyclic(p)
        /\ Must \subseteq UNION {p[i].satisfies \cup p[i].verifies : i \in DOMAIN p}
        /\ \A s, t \in Ids(p) :
              s # t /\ WritesOverlap(WritesOf(p, s), WritesOf(p, t))
              => Precedes(p, s, t) \/ Precedes(p, t, s)

\* No step takes a completed task out of the plan or changes what it was allowed to
\* write, whatever operations an amendment chains (apply.ts of the core: "execution
\* history is immutable").
HistoryKept ==
    [][\A t \in Ids(plan) : tasks[t].status = "completed" /\ plan' # plan =>
          /\ t \in Ids(plan')
          /\ WritesOf(plan', t) = WritesOf(plan, t)]_vars

\* What the log says of the work, as WorkLedger tells it.
Entry(t) ==
    CASE logged[t].status = "completed" -> "done"
      [] logged[t].status = "running" -> "running"
      [] logged[t].status \in {"failed", "blocked", "needs_replan", "skipped"} -> "closed"
      [] OTHER -> "open"
Ledger == INSTANCE WorkLedger WITH ledger <- [t \in Tasks |-> Entry(t)]
LedgerSpec == Ledger!Spec

=============================================================================
