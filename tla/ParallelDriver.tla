--------------------------- MODULE ParallelDriver ---------------------------
(***************************************************************************)
(* A run with execution.parallelism > 1: the planner's bounded repair loop *)
(* yields a plan, driveRunParallel executes its tasks at the same time,    *)
(* each in a worktree cut from the integration branch, and the patch of    *)
(* every completed task is cherry-picked onto that branch.                 *)
(*                                                                         *)
(* The driver is one thread: `turn' names the piece of code that runs, and *)
(* only at an await may another one go on.  A crash may come at any step.  *)
(***************************************************************************)
EXTENDS PlanRules

CONSTANTS
    Tasks,
    Candidates,      \* the plans the planner may answer with
    Paths,           \* the files of the repository
    MaxParallel, MaxTaskRetries,    \* config.execution
    MaxLives         \* bound: processes that drive the run, one after another

\* A task as the schema of plans admits it.
PlanTasks == [id: Tasks, kind: {"inspect", "modify", "test", "verify", "cleanup"},
              deps: SUBSET Tasks, satisfies: SUBSET Properties, verifies: SUBSET Properties,
              writes: SUBSET Seq(STRING), risk: {"low", "medium", "high"}]

ASSUME ParallelAssumption ==
    /\ Candidates \subseteq Seq(PlanTasks)
    /\ MaxParallel \in Nat \ {0} /\ MaxTaskRetries \in Nat /\ MaxLives \in Nat \ {0}

VARIABLES
    driver,     \* where the driver is: see Drivers
    turn,       \* "loop", "launch", "await", or the task whose code runs
    plan, proposals,
    tasks,      \* ctx.state.tasks
    todo,       \* positions of ready tasks the launch loop has not come to
    stage,      \* how far runOne has come; "idle" is not in flight
    outcome,    \* what a task in flight has come to
    woken,      \* a promise the loop races on has settled
    cancelled,  \* cancellationObserved
    logged,     \* what the events of the run replay to
    worktrees,  \* the task worktrees that exist
    cut,        \* the length of the branch a worktree was cut from
    branch,     \* the commits of the integration branch
    changes,    \* history: the paths the last attempt of a task changed
    conflicts,  \* history: tasks whose patch ever failed to merge
    life        \* history: which process drives the run

memory == <<turn, tasks, todo, stage, outcome, woken, cancelled>>
disk == <<logged, worktrees, branch>>
planned == <<plan, proposals>>
vars == <<driver, planned, memory, disk, cut, changes, conflicts, life>>

Drivers == {"planning", "unplanned", "driving", "threw", "finishing", "ended", "dead"}
Stages == {"idle", "ready", "started", "rejected", "executing", "merging", "discarding",
           "settling", "draining"}
Outcomes == {"none", "completed", "failed", "blocked", "retired", "needs_replan"}
Statuses == {"pending", "ready", "running"} \cup (Outcomes \ {"none", "retired"}) \cup {"skipped"}
TaskStates == [status: Statuses, attempt: Nat]
TaskState(s, n) == [status |-> s, attempt |-> n]

TypeOK ==
    /\ driver \in Drivers /\ turn \in {"loop", "launch", "await"} \cup Tasks
    /\ plan \in Seq(PlanTasks) /\ proposals \in 0..3
    /\ tasks \in [Tasks -> TaskStates] /\ logged \in [Tasks -> TaskStates]
    /\ todo \subseteq DOMAIN plan
    /\ stage \in [Tasks -> Stages] /\ outcome \in [Tasks -> Outcomes]
    /\ woken \in BOOLEAN /\ cancelled \in BOOLEAN
    /\ worktrees \subseteq Tasks /\ cut \in [Tasks -> Nat]
    /\ branch \in Seq([by: Tasks, paths: SUBSET Paths, life: Nat])
    /\ changes \in [Tasks -> SUBSET Paths] /\ conflicts \subseteq Tasks /\ life \in Nat

Init ==
    /\ driver = "planning" /\ turn = "loop" /\ plan = <<>> /\ proposals = 0
    /\ tasks = [t \in Tasks |-> TaskState("pending", 0)]
    /\ logged = [t \in Tasks |-> TaskState("pending", 0)]
    /\ todo = {} /\ stage = [t \in Tasks |-> "idle"] /\ outcome = [t \in Tasks |-> "none"]
    /\ woken = FALSE /\ cancelled = FALSE
    /\ worktrees = {} /\ cut = [t \in Tasks |-> 0] /\ branch = <<>>
    /\ changes = [t \in Tasks |-> {}] /\ conflicts = {} /\ life = 1

-----------------------------------------------------------------------------
(* generatePlan. *)

MaxProposals == 3    \* one plan and MAX_PLAN_REPAIR_ATTEMPTS repairs

\* A plan with errors is sent back with them, until the attempts are used up.
Propose ==
    /\ driver = "planning"
    /\ \E p \in Candidates :
          \/ PlanErrors(p) = {} /\ plan' = p /\ driver' = "driving" /\ proposals' = 0
          \/ /\ PlanErrors(p) # {} /\ proposals' = proposals + 1 /\ UNCHANGED plan
             /\ driver' = IF proposals' = MaxProposals THEN "unplanned" ELSE driver
    /\ UNCHANGED <<memory, disk, cut, changes, conflicts, life>>

-----------------------------------------------------------------------------
(* The loop of driveRunParallel. *)

InFlight == {t \in Tasks : stage[t] # "idle"}
DeadEnds == {"failed", "blocked", "needs_replan"}

Met(s, d) == s[d].status \in {"completed", "skipped"}

\* What the states are once the running tasks, those in flight included, are
\* pending again and, in plan order, those behind a dead end are blocked.
Reset(s) == [t \in Tasks |-> IF t \in Ids(plan) /\ s[t].status = "running"
                             THEN [s[t] EXCEPT !.status = "pending"] ELSE s[t]]
BlockPass(s) ==
    LET stuck[i \in DOMAIN plan] ==
          /\ s[plan[i].id].status = "pending"
          /\ \E d \in plan[i].deps : \/ s[d].status \in DeadEnds
                                    \/ \E j \in 1..(i - 1) : plan[j].id = d /\ stuck[j]
    IN  [t \in Tasks |-> IF s[t].status = "pending" /\ \E i \in DOMAIN plan : plan[i].id = t /\ stuck[i]
                         THEN [s[t] EXCEPT !.status = "blocked"] ELSE s[t]]

\* Positions in the plan, and so in its order.
PendingIn(s) == {i \in DOMAIN plan : s[plan[i].id].status = "pending" /\ plan[i].id \notin InFlight}
ReadyIn(s) == {i \in PendingIn(s) : \A d \in plan[i].deps : Met(s, d)}

\* One turn of the loop, up to its launches.
Pass ==
    LET s == BlockPass(Reset(tasks)) IN
    /\ driver = "driving" /\ turn = "loop"
    /\ tasks' = s
    /\ logged' = [t \in Tasks |-> IF s[t].status = "blocked" /\ tasks[t].status # "blocked"
                                  THEN s[t] ELSE logged[t]]
    /\ woken' = FALSE
    /\ \/ /\ InFlight = {} /\ (cancelled \/ PendingIn(s) = {})
          /\ driver' = "finishing" /\ UNCHANGED <<turn, todo>>
       \/ /\ cancelled /\ InFlight # {}
          /\ turn' = "await" /\ UNCHANGED <<driver, todo>>
       \/ /\ ~cancelled /\ (InFlight # {} \/ PendingIn(s) # {})
          /\ todo' = ReadyIn(s) /\ turn' = "launch" /\ UNCHANGED driver
    /\ UNCHANGED <<planned, stage, outcome, cancelled, worktrees, cut, branch, changes,
                   conflicts, life>>

\* Beside a task in flight, unless both name targets that overlap.
Fits(x) == \A t \in InFlight \ {u \in Tasks : stage[u] = "rejected"} :
              ~WritesOverlap(x.writes, WritesOf(plan, t))

\* The next of the ready tasks that fits, while there is room: those before it
\* wait for a later pass.
NextFit == {i \in todo : /\ Cardinality(InFlight) < MaxParallel /\ Fits(plan[i])
                         /\ \A j \in todo : j < i => ~Fits(plan[j])}

\* Broken: another launch is not another attempt.
LaunchSameAttempt ==
    /\ driver = "driving" /\ turn = "launch"
    /\ \E i \in NextFit :
          LET t == plan[i].id IN
          /\ tasks' = [tasks EXCEPT ![t].status = "running"]
          /\ logged' = [logged EXCEPT ![t].status = "ready"]
          /\ stage' = [stage EXCEPT ![t] = "ready"]
          /\ todo' = {j \in todo : j > i}
          /\ turn' = t
    /\ UNCHANGED <<driver, planned, outcome, woken, cancelled, worktrees, cut, branch, changes,
                   conflicts, life>>

\* runOne: TASK_READY...
Launch ==
    /\ driver = "driving" /\ turn = "launch"
    /\ \E i \in NextFit :
          LET t == plan[i].id IN
          /\ tasks' = [tasks EXCEPT ![t] = TaskState("running", @.attempt + 1)]
          /\ logged' = [logged EXCEPT ![t] = TaskState("ready", tasks[t].attempt + 1)]
          /\ stage' = [stage EXCEPT ![t] = "ready"]
          /\ todo' = {j \in todo : j > i}
          /\ turn' = t
    /\ UNCHANGED <<driver, planned, outcome, woken, cancelled, worktrees, cut, branch, changes,
                   conflicts, life>>

\* ...TASK_STARTED...
MarkStarted(t) ==
    /\ turn = t /\ stage[t] = "ready"
    /\ logged' = [logged EXCEPT ![t].status = "running"]
    /\ stage' = [stage EXCEPT ![t] = "started"]
    /\ UNCHANGED <<driver, planned, turn, tasks, todo, outcome, woken, cancelled,
                   worktrees, cut, branch, changes, conflicts, life>>

\* Broken: the worktree is cut from the base of the run.
CutFromBase(t) ==
    /\ turn = t /\ stage[t] = "started"
    /\ stage' = [stage EXCEPT ![t] = IF t \in worktrees THEN "rejected" ELSE "executing"]
    /\ worktrees' = worktrees \cup {t}
    /\ cut' = [cut EXCEPT ![t] = 0]
    /\ turn' = "launch"
    /\ UNCHANGED <<driver, planned, tasks, todo, outcome, woken, cancelled, logged,
                   branch, changes, conflicts, life>>

\* ...and a worktree cut from HEAD.  If a crash left one at its path, runOne
\* rejects; the launch loop goes on and enters the rejected promise.
CutWorktree(t) ==
    /\ turn = t /\ stage[t] = "started"
    /\ stage' = [stage EXCEPT ![t] = IF t \in worktrees THEN "rejected" ELSE "executing"]
    /\ worktrees' = worktrees \cup {t}
    /\ cut' = [cut EXCEPT ![t] = Len(branch)]
    /\ turn' = "launch"
    /\ UNCHANGED <<driver, planned, tasks, todo, outcome, woken, cancelled, logged,
                   branch, changes, conflicts, life>>

\* Nothing runs and nothing fits: the run is deadlocked.  Otherwise the loop awaits
\* the promises, and a rejected one ends the driver while its siblings go on.
LaunchDone ==
    /\ driver = "driving" /\ turn = "launch"
    /\ NextFit = {}
    /\ todo' = {}
    /\ \/ InFlight = {} /\ driver' = "finishing" /\ UNCHANGED turn
       \/ /\ InFlight # {} /\ turn' = "await"
          /\ driver' = IF \E t \in Tasks : stage[t] = "rejected" THEN "threw" ELSE driver
    /\ UNCHANGED <<planned, tasks, stage, outcome, woken, cancelled, disk, cut, changes,
                   conflicts, life>>

WakeUp ==
    /\ driver = "driving" /\ turn = "await" /\ woken
    /\ turn' = "loop"
    /\ UNCHANGED <<driver, planned, tasks, todo, stage, outcome, woken, cancelled, disk, cut,
                   changes, conflicts, life>>

-----------------------------------------------------------------------------
(* The rest of runOne. *)

Writable(t) == {q \in Paths : \E w \in WritesOf(plan, t) : GlobMatch(w, q)}

\* Broken: the worktree is committed whatever the outcome.
AnswerCommitted(t) ==
    /\ turn = "await" /\ stage[t] = "executing"
    /\ \E o \in Outcomes \ {"none"}, ws \in SUBSET Writable(t) :
          /\ outcome' = [outcome EXCEPT ![t] = o]
          /\ changes' = [changes EXCEPT ![t] = ws]
          /\ stage' = [stage EXCEPT ![t] = IF ws # {} THEN "merging" ELSE "discarding"]
    /\ turn' = t
    /\ UNCHANGED <<driver, planned, tasks, todo, woken, cancelled, disk, cut, conflicts, life>>

\* executeTaskInRun returns; the changes of a completed task are committed, those of
\* another are lost with its worktree.
Answer(t) ==
    /\ turn = "await" /\ stage[t] = "executing"
    /\ \E o \in Outcomes \ {"none"}, ws \in SUBSET Writable(t) :
          /\ outcome' = [outcome EXCEPT ![t] = o]
          /\ o # "completed" => ws = {}
          /\ changes' = [changes EXCEPT ![t] = ws]
          /\ stage' = [stage EXCEPT ![t] = IF ws # {} THEN "merging" ELSE "discarding"]
    /\ turn' = t
    /\ UNCHANGED <<driver, planned, tasks, todo, woken, cancelled, disk, cut, conflicts, life>>

\* Something merged since the worktree was cut touches the same file.
Overtaken(t) == \E i \in (cut[t] + 1)..Len(branch) : branch[i].paths \cap changes[t] # {}

\* Broken: a conflict is resolved by leaving the patch out.
MergeOrDrop(t) ==
    /\ turn = t /\ stage[t] = "merging"
    /\ \/ /\ branch' = Append(branch, [by |-> t, paths |-> changes[t], life |-> life])
          /\ UNCHANGED <<outcome, conflicts>>
       \/ /\ Overtaken(t)
          /\ conflicts' = conflicts \cup {t}
          /\ UNCHANGED <<branch, outcome>>
    /\ stage' = [stage EXCEPT ![t] = "discarding"]
    /\ UNCHANGED <<driver, planned, turn, tasks, todo, woken, cancelled, logged, worktrees, cut,
                   changes, life>>

\* mergeTaskPatch: overtaken, the cherry-pick may conflict and is aborted.
Merge(t) ==
    /\ turn = t /\ stage[t] = "merging"
    /\ \/ /\ branch' = Append(branch, [by |-> t, paths |-> changes[t], life |-> life])
          /\ UNCHANGED <<outcome, conflicts>>
       \/ /\ Overtaken(t)
          /\ outcome' = [outcome EXCEPT ![t] = "failed"]
          /\ conflicts' = conflicts \cup {t}
          /\ UNCHANGED branch
    /\ stage' = [stage EXCEPT ![t] = "discarding"]
    /\ UNCHANGED <<driver, planned, turn, tasks, todo, woken, cancelled, logged, worktrees, cut,
                   changes, life>>

\* removeWorktree; a retired request stops further launches.
Discard(t) ==
    /\ turn = t /\ stage[t] = "discarding"
    /\ worktrees' = worktrees \ {t}
    /\ cut' = [cut EXCEPT ![t] = 0]
    /\ cancelled' = (cancelled \/ outcome[t] = "retired")
    /\ stage' = [stage EXCEPT ![t] = "settling"]
    /\ UNCHANGED <<driver, planned, turn, tasks, todo, outcome, woken, logged, branch, changes,
                   conflicts, life>>

Retried(t) == outcome[t] = "failed" /\ tasks[t].attempt <= MaxTaskRetries

\* A retry leaves no event, the other outcomes do.  The promise settles.
Settle(t) ==
    LET s == [tasks EXCEPT ![t].status =
                 CASE Retried(t) -> "pending"
                   [] outcome[t] = "retired" -> "blocked"
                   [] OTHER -> outcome[t]]
    IN  /\ turn = t /\ stage[t] = "settling" /\ outcome[t] # "needs_replan"
        /\ tasks' = s
        /\ logged' = IF Retried(t) THEN logged ELSE [logged EXCEPT ![t] = s[t]]
        /\ stage' = [stage EXCEPT ![t] = "idle"]
        /\ outcome' = [outcome EXCEPT ![t] = "none"]
        /\ woken' = TRUE /\ turn' = "await"
        /\ UNCHANGED <<driver, planned, todo, cancelled, worktrees, cut, branch, changes,
                       conflicts, life>>

\* replanFor awaits until nothing is in flight, but its own task is: what comes
\* after this wait is never reached.
DrainForReplan(t) ==
    /\ turn = t /\ stage[t] = "settling" /\ outcome[t] = "needs_replan"
    /\ tasks' = [tasks EXCEPT ![t].status = "needs_replan"]
    /\ logged' = [logged EXCEPT ![t] = TaskState("needs_replan", tasks[t].attempt)]
    /\ stage' = [stage EXCEPT ![t] = "draining"]
    /\ turn' = "await"
    /\ UNCHANGED <<driver, planned, todo, outcome, woken, cancelled, worktrees, cut, branch,
                   changes, conflicts, life>>

-----------------------------------------------------------------------------
(* The end of a run, of a process, and the next one. *)

\* finishRun, of which RunDriver tells the rest.
Finish ==
    /\ driver = "finishing"
    /\ driver' = "ended"
    /\ UNCHANGED <<planned, memory, disk, cut, changes, conflicts, life>>

\* No promise is left that will ever settle: the process is out of work and exits.
Exit ==
    /\ turn = "await"
    /\ \A t \in InFlight : stage[t] \in {"draining", "rejected"}
    /\ driver = "threw" \/ (driver = "driving" /\ ~woken)
    /\ driver' = "dead"
    /\ UNCHANGED <<planned, memory, disk, cut, changes, conflicts, life>>

Crash ==
    /\ driver \in {"driving", "threw", "finishing"}
    /\ driver' = "dead"
    /\ UNCHANGED <<planned, memory, disk, cut, changes, conflicts, life>>

\* A person clears away a worktree the dead process left.
CleanUp ==
    /\ driver = "dead"
    /\ \E t \in worktrees : worktrees' = worktrees \ {t}
    /\ UNCHANGED <<driver, planned, memory, logged, cut, branch, changes, conflicts, life>>

\* resumeRun: the states are what the events say.
Resume ==
    /\ driver = "dead" /\ life < MaxLives
    /\ driver' = "driving" /\ turn' = "loop"
    /\ tasks' = logged
    /\ todo' = {} /\ stage' = [t \in Tasks |-> "idle"]
    /\ outcome' = [t \in Tasks |-> "none"] /\ woken' = FALSE /\ cancelled' = FALSE
    /\ cut' = [t \in Tasks |-> 0]
    /\ life' = life + 1
    /\ UNCHANGED <<planned, disk, changes, conflicts>>

Running == driver \in {"driving", "threw"}

Loop == Propose \/ Pass \/ Launch \/ LaunchDone \/ WakeUp \/ Finish \/ Exit
RunOne(t) ==
    /\ Running
    /\ \/ MarkStarted(t) \/ CutWorktree(t) \/ Answer(t) \/ Merge(t) \/ Discard(t)
       \/ Settle(t) \/ DrainForReplan(t)

Live == Loop \/ \E t \in Tasks : RunOne(t)
Next == Live \/ Crash \/ CleanUp \/ Resume

\* The one thread goes on while it can, and a provider answers each task or gives
\* up within its window, whatever the others do.
Fairness == WF_vars(Loop) /\ \A t \in Tasks : WF_vars(RunOne(t))
Spec == Init /\ [][Next]_vars /\ Fairness

\* The same without a crash.
SpecNoCrash == Init /\ [][Live]_vars /\ Fairness
-----------------------------------------------------------------------------
(* What a parallel run promises. *)

\* "Merge ONLY completed-task patches": what this process put on the branch is the
\* work of tasks it completed or is about to, however their siblings fared.
OnlyCompletedWork ==
    \A i \in DOMAIN branch :
        LET t == branch[i].by IN
        branch[i].life = life =>
            \/ logged[t].status = "completed"
            \/ stage[t] \in {"discarding", "settling"} /\ outcome[t] = "completed"

\* A task the log calls completed has its changes on the branch: no conflict, no
\* crash and no later resume loses them.
Delivered ==
    \A t \in Tasks : logged[t].status = "completed" /\ changes[t] # {} =>
        \E i \in DOMAIN branch : branch[i].by = t /\ branch[i].paths = changes[t]

\* "conflicts are structurally prevented" (mergeTaskPatch): so they are where the
\* overlap test sees every two targets of the plan that share a file.
Seen ==
    \A i, j \in DOMAIN plan :
        MayCollide(Paths, plan[i].writes, plan[j].writes) => WritesOverlap(plan[i].writes, plan[j].writes)
ConflictFree == Seen => conflicts = {}

\* A run that is driven ends, unless its process dies or a task asks for a
\* replan.
RunEnds ==
    driver = "driving" ~> \/ driver \in {"ended", "threw", "dead"}
                          \/ \E t \in Tasks : stage[t] = "draining"

\* "needs_replan drains in-flight tasks before amending" (ADR-0012): a process that
\* does not crash comes to the end of a run in which a task asked for a replan.
ReplanComesToAnEnd ==
    (\E t \in Tasks : stage[t] = "draining") ~> driver = "ended"
=============================================================================
