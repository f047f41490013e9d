------------------------ MODULE ParallelDriverProofs ------------------------
(***************************************************************************)
(* Proofs about ParallelDriver, for any number of tasks, candidate plans,  *)
(* processes and any bound on parallelism: only completed work is merged   *)
(* and none of it is lost (Work), and tasks that run side by side do not   *)
(* meet in a file (Clear).                                                 *)
(***************************************************************************)
EXTENDS ParallelDriver, TLAPS

-----------------------------------------------------------------------------
(* What the driver relies on. *)

\* No two tasks of the plan share an id.
Distinct == \A i, j \in DOMAIN plan : plan[i].id = plan[j].id => i = j

\* Until there is a plan nothing has begun.
Untouched ==
    driver = "planning" =>
        /\ branch = <<>> /\ conflicts = {}
        /\ \A t \in Tasks : stage[t] = "idle" /\ logged[t].status # "completed"

\* A task whose completion is in the log is complete in memory, and at rest.
Remembered ==
    \A t \in Tasks : logged[t].status = "completed" =>
        tasks[t].status = "completed" /\ stage[t] = "idle"

\* The launch loop comes to tasks that are at rest and have not completed.
TodoOpen ==
    \A i \in todo :
        i \in DOMAIN plan /\ stage[plan[i].id] = "idle" /\ logged[plan[i].id].status # "completed"

\* Only completed work is merged, and it is on the branch before the worktree goes.
OnBranch(t) == \E i \in DOMAIN branch : branch[i].by = t /\ branch[i].paths = changes[t]
MergedFirst ==
    \A t \in Tasks :
        /\ stage[t] = "merging" => outcome[t] = "completed"
        /\ stage[t] \in {"discarding", "settling"} /\ outcome[t] = "completed" =>
              changes[t] = {} \/ OnBranch(t)

\* What is on the branch was put there by this process or an earlier one.
Dated == \A i \in DOMAIN branch : branch[i].life <= life

\* While a plan is sought a repair is left and nothing is to launch; what has been
\* answered has an outcome.
Answered ==
    /\ driver = "planning" => proposals < MaxProposals /\ todo = {}
    /\ \A t \in Tasks : stage[t] \in {"merging", "discarding", "settling", "draining"} =>
                            outcome[t] # "none"

Work == Distinct /\ Untouched /\ Remembered /\ TodoOpen /\ MergedFirst /\ Dated
        /\ OnlyCompletedWork /\ Delivered

LEMMA InitTypes == Init => TypeOK
<1> SUFFICES ASSUME Init PROVE TypeOK
  OBVIOUS
<1>1. [t \in Tasks |-> TaskState("pending", 0)] \in [Tasks -> TaskStates]
  BY DEF TaskState, TaskStates, Statuses
<1>2. [t \in Tasks |-> "idle"] \in [Tasks -> Stages]
  BY DEF Stages
<1>3. [t \in Tasks |-> "none"] \in [Tasks -> Outcomes]
  BY DEF Outcomes
<1>4. [t \in Tasks |-> 0] \in [Tasks -> Nat] /\ [t \in Tasks |-> {}] \in [Tasks -> SUBSET Paths]
  OBVIOUS
<1>5. driver \in Drivers /\ turn \in {"loop", "launch", "await"} \cup Tasks
  BY DEF Init, Drivers
<1>8. woken \in BOOLEAN /\ cancelled \in BOOLEAN
  BY Zenon DEF Init
<1>9. proposals \in 0..3 /\ life \in Nat
  BY DEF Init
<1>6. plan \in Seq(PlanTasks) /\ branch \in Seq([by: Tasks, paths: SUBSET Paths, life: Nat])
  BY DEF Init
<1>7. todo \subseteq DOMAIN plan /\ worktrees \subseteq Tasks /\ conflicts \subseteq Tasks
  BY DEF Init
<1> QED
  BY <1>1, <1>2, <1>3, <1>4, <1>5, <1>6, <1>7, <1>8, <1>9 DEF Init, TypeOK

LEMMA InitAnswered == Init => Answered
BY DEF Init, Answered, MaxProposals

LEMMA InitWork == Init => Work
BY DEF Init, Work, Distinct, Untouched, Remembered, TodoOpen, MergedFirst, Dated,
   OnlyCompletedWork, Delivered, TaskState

\* A validated plan names every task once.
LEMMA Validated ==
    ASSUME NEW p, PlanErrors(p) = {}
    PROVE  \A i, j \in DOMAIN p : p[i].id = p[j].id => i = j
BY DEF PlanErrors

-----------------------------------------------------------------------------
(* One turn of the loop. *)

\* Before it launches, the loop puts what runs back and blocks what waits for a dead end.
LEMMA ResetKeeps ==
    ASSUME TypeOK
    PROVE  /\ Reset(tasks) \in [Tasks -> TaskStates]
           /\ \A t \in Tasks : tasks[t].status # "running" => Reset(tasks)[t] = tasks[t]
<1>1. ASSUME NEW x \in TaskStates PROVE [x EXCEPT !.status = "pending"] \in TaskStates
  BY DEF TaskStates, Statuses
<1>2. \A t \in Tasks : tasks[t] \in TaskStates
  BY DEF TypeOK
<1> QED
  BY <1>1, <1>2 DEF Reset

LEMMA BlockKeeps ==
    ASSUME NEW s \in [Tasks -> TaskStates]
    PROVE  /\ BlockPass(s) \in [Tasks -> TaskStates]
           /\ \A t \in Tasks : BlockPass(s)[t] # s[t] =>
                 s[t].status = "pending" /\ BlockPass(s)[t].status = "blocked"
<1> DEFINE stuck == CHOOSE f : f = [i \in DOMAIN plan |->
                          /\ s[plan[i].id].status = "pending"
                          /\ \E d \in plan[i].deps : \/ s[d].status \in DeadEnds
                                 \/ \E j \in 1..(i - 1) : plan[j].id = d /\ f[j]]
           Behind == {t \in Tasks : /\ s[t].status = "pending"
                                    /\ \E i \in DOMAIN plan : plan[i].id = t /\ stuck[i]}
           after == [t \in Tasks |-> IF t \in Behind THEN [s[t] EXCEPT !.status = "blocked"]
                                     ELSE s[t]]
<1>1. BlockPass(s) = [t \in Tasks |->
                         IF /\ s[t].status = "pending"
                            /\ \E i \in DOMAIN plan : plan[i].id = t /\ stuck[i]
                         THEN [s[t] EXCEPT !.status = "blocked"] ELSE s[t]]
  BY Zenon DEF BlockPass
<1>2. BlockPass(s) = after
  <2> HIDE DEF stuck
  <2> QED
    BY <1>1
<1>3. \A t \in Behind : s[t].status = "pending"
  OBVIOUS
<1> HIDE DEF Behind
<1>4. \A t \in Tasks : /\ [s[t] EXCEPT !.status = "blocked"] \in TaskStates
                       /\ [s[t] EXCEPT !.status = "blocked"].status = "blocked"
  <2> SUFFICES ASSUME NEW x \in TaskStates
               PROVE  /\ [x EXCEPT !.status = "blocked"] \in TaskStates
                      /\ [x EXCEPT !.status = "blocked"].status = "blocked"
    OBVIOUS
  <2> QED
    BY DEF TaskStates, Statuses, Outcomes
<1>5. /\ after \in [Tasks -> TaskStates]
      /\ \A t \in Tasks : after[t] # s[t] => s[t].status = "pending" /\ after[t].status = "blocked"
  <2>1. \A t \in Tasks : /\ after[t] \in TaskStates
                         /\ after[t] # s[t] =>
                               s[t].status = "pending" /\ after[t].status = "blocked"
    BY <1>3, <1>4
  <2>2. after = [t \in Tasks |-> after[t]]
    OBVIOUS
  <2> HIDE DEF after
  <2>3. after \in [Tasks -> TaskStates]
    BY <2>1, <2>2
  <2> QED
    BY <2>1, <2>3
<1> HIDE DEF after
<1> QED
  BY <1>2, <1>5

\* The ids of a plan are tasks.
LEMMA PlanIds == TypeOK => \A i \in DOMAIN plan : plan[i].id \in Tasks
<1> SUFFICES ASSUME TypeOK, NEW i \in DOMAIN plan PROVE plan[i].id \in Tasks
  OBVIOUS
<1>1. plan[i] \in PlanTasks
  BY DEF TypeOK
<1> QED
  BY <1>1 DEF PlanTasks

LEMMA PassKeeps ==
    ASSUME TypeOK, Pass
    PROVE  /\ tasks' \in [Tasks -> TaskStates] /\ logged' \in [Tasks -> TaskStates]
           /\ \A t \in Tasks : tasks[t].status = "completed" => tasks'[t] = tasks[t]
           /\ \A t \in Tasks : logged'[t] # logged[t] =>
                 tasks[t].status # "completed" /\ logged'[t].status = "blocked"
           /\ \A i \in todo' \ todo : /\ i \in DOMAIN plan /\ stage[plan[i].id] = "idle"
                                      /\ tasks[plan[i].id].status # "completed"
<1> DEFINE s == BlockPass(Reset(tasks))
<1>1. /\ s \in [Tasks -> TaskStates]
      /\ (\A t \in Tasks : tasks[t].status = "completed" => s[t] = tasks[t])
  BY ResetKeeps, BlockKeeps
<1>2. /\ tasks' = s
      /\ logged' = [t \in Tasks |-> IF s[t].status = "blocked" /\ tasks[t].status # "blocked"
                                    THEN s[t] ELSE logged[t]]
      /\ todo' = todo \/ todo' = ReadyIn(s)
  BY DEF Pass
<1> HIDE DEF s
<1>3. \A i \in ReadyIn(s) : /\ i \in DOMAIN plan /\ stage[plan[i].id] = "idle"
                            /\ s[plan[i].id].status = "pending"
  <2> SUFFICES ASSUME NEW i \in ReadyIn(s)
               PROVE  /\ i \in DOMAIN plan /\ stage[plan[i].id] = "idle"
                      /\ s[plan[i].id].status = "pending"
    OBVIOUS
  <2>1. i \in DOMAIN plan /\ plan[i].id \notin InFlight /\ s[plan[i].id].status = "pending"
    BY DEF ReadyIn, PendingIn
  <2>2. plan[i].id \in Tasks
    BY <2>1, PlanIds
  <2> QED
    BY <2>1, <2>2 DEF InFlight
<1>4. \A t \in Tasks :
          tasks[t].status = "completed" => s[t].status # "pending" /\ s[t].status # "blocked"
  BY <1>1
<1>5. \A i \in DOMAIN plan : plan[i].id \in Tasks
  BY PlanIds
<1>6. logged' \in [Tasks -> TaskStates]
  BY <1>1, <1>2 DEF TypeOK
<1> QED
  BY <1>1, <1>2, <1>3, <1>4, <1>5, <1>6

\* A commit names the task it is of.
LEMMA Commits ==
    TypeOK => \A i \in DOMAIN branch : /\ branch[i].by \in Tasks /\ branch[i].paths \subseteq Paths
                                       /\ branch[i].life \in Nat
<1> SUFFICES ASSUME TypeOK, NEW i \in DOMAIN branch
             PROVE  /\ branch[i].by \in Tasks /\ branch[i].paths \subseteq Paths
                    /\ branch[i].life \in Nat
  OBVIOUS
<1>1. \A S : \A q \in Seq(S) : \A k \in DOMAIN q : q[k] \in S
  OBVIOUS
<1>2. branch[i] \in [by: Tasks, paths: SUBSET Paths, life: Nat]
  BY <1>1, Zenon DEF TypeOK
<1> QED
  BY <1>2

-----------------------------------------------------------------------------
(* Types. *)

LEMMA LaunchTypes == TypeOK /\ Launch => TypeOK'
<1> SUFFICES ASSUME TypeOK, Launch PROVE TypeOK'
  OBVIOUS
<1>1. PICK i \in NextFit :
        /\ tasks' = [tasks EXCEPT ![plan[i].id] = TaskState("running", @.attempt + 1)]
        /\ logged' = [logged EXCEPT
                         ![plan[i].id] = TaskState("ready", tasks[plan[i].id].attempt + 1)]
        /\ stage' = [stage EXCEPT ![plan[i].id] = "ready"]
        /\ todo' = {j \in todo : j > i} /\ turn' = plan[i].id
  BY DEF Launch
<1>2. i \in todo
  BY DEF NextFit
<1>3. plan[i].id \in Tasks
  BY <1>2, PlanIds DEF TypeOK
<1>4. tasks[plan[i].id].attempt \in Nat
  BY <1>3 DEF TypeOK, TaskStates
<1>5. /\ TaskState("running", tasks[plan[i].id].attempt + 1) \in TaskStates
      /\ TaskState("ready", tasks[plan[i].id].attempt + 1) \in TaskStates
  BY <1>4 DEF TaskState, TaskStates, Statuses
<1>6. tasks' \in [Tasks -> TaskStates] /\ logged' \in [Tasks -> TaskStates]
  BY <1>1, <1>5 DEF TypeOK
<1>7. stage' \in [Tasks -> Stages] /\ todo' \subseteq DOMAIN plan
  BY <1>1 DEF TypeOK, Stages
<1>8. turn' \in {"loop", "launch", "await"} \cup Tasks
  BY <1>1, <1>3
<1>9. UNCHANGED <<driver, plan, proposals, outcome, woken, cancelled, worktrees, cut, branch,
                  changes, conflicts, life>>
  BY DEF Launch, planned
<1> QED
  BY <1>6, <1>7, <1>8, <1>9 DEF TypeOK

LEMMA SettleTypes ==
    ASSUME TypeOK, Answered, NEW t \in Tasks, Settle(t)
    PROVE  TypeOK'
<1> DEFINE end == CASE Retried(t) -> "pending"
                    [] outcome[t] = "retired" -> "blocked"
                    [] OTHER -> outcome[t]
           s == [tasks EXCEPT ![t].status = end]
<1>1. outcome[t] \in Outcomes \ {"none"}
  BY DEF TypeOK, Answered, Settle
<1>2. end \in Statuses
  BY <1>1 DEF Statuses, Outcomes
<1>3. /\ tasks' = s /\ logged' = IF Retried(t) THEN logged ELSE [logged EXCEPT ![t] = s[t]]
  BY DEF Settle
<1> HIDE DEF end
<1>4. s \in [Tasks -> TaskStates]
  BY <1>2 DEF TypeOK, TaskStates
<1>5. tasks' \in [Tasks -> TaskStates] /\ logged' \in [Tasks -> TaskStates]
  BY <1>3, <1>4 DEF TypeOK
<1>6. /\ stage' \in [Tasks -> Stages] /\ outcome' \in [Tasks -> Outcomes]
      /\ woken' \in BOOLEAN /\ turn' \in {"loop", "launch", "await"} \cup Tasks
  BY DEF TypeOK, Stages, Outcomes, Settle
<1>7. UNCHANGED <<driver, plan, proposals, todo, cancelled, worktrees, cut, branch, changes,
                  conflicts, life>>
  BY DEF Settle, planned
<1> QED
  BY <1>5, <1>6, <1>7 DEF TypeOK

LEMMA AnsweredStep == TypeOK /\ Answered /\ [Next]_vars => Answered'
<1> SUFFICES ASSUME TypeOK, Answered, [Next]_vars PROVE Answered'
  OBVIOUS
<1>1. CASE Propose
  BY <1>1 DEF Propose, Answered, TypeOK, memory, MaxProposals
<1>2. CASE Pass
  BY <1>2 DEF Pass, Answered, planned
<1>3. CASE Launch
  BY <1>3 DEF Launch, Answered, TypeOK, planned
<1>4. CASE LaunchDone \/ WakeUp
  BY <1>4 DEF LaunchDone, WakeUp, Answered, planned
<1>5. CASE Finish \/ Exit \/ Crash \/ CleanUp \/ UNCHANGED vars
  BY <1>5 DEF Finish, Exit, Crash, CleanUp, vars, Answered, planned, memory
<1>6. CASE Resume
  BY <1>6 DEF Resume, Answered, planned
<1>7. ASSUME NEW t \in Tasks, RunOne(t) PROVE Answered'
  <2>1. CASE MarkStarted(t) \/ CutWorktree(t)
    BY <2>1 DEF MarkStarted, CutWorktree, Answered, TypeOK, planned
  <2>2. CASE Answer(t)
    BY <2>2 DEF Answer, Answered, TypeOK, planned
  <2>3. CASE Merge(t) \/ Discard(t)
    BY <2>3 DEF Merge, Discard, Answered, TypeOK, planned
  <2>4. CASE Settle(t) \/ DrainForReplan(t)
    BY <2>4 DEF Settle, DrainForReplan, Answered, TypeOK, planned
  <2> QED
    BY <1>7, <2>1, <2>2, <2>3, <2>4 DEF RunOne
<1> QED
  BY <1>1, <1>2, <1>3, <1>4, <1>5, <1>6, <1>7 DEF Next, Live, Loop

LEMMA TypeStep == TypeOK /\ Answered /\ [Next]_vars => TypeOK'
<1> SUFFICES ASSUME TypeOK, Answered, [Next]_vars PROVE TypeOK'
  OBVIOUS
<1> USE DEF Drivers, Stages
<1>1. CASE Propose
  <2>1. PICK p \in Candidates :
          \/ PlanErrors(p) = {} /\ plan' = p /\ driver' = "driving" /\ proposals' = 0
          \/ /\ PlanErrors(p) # {} /\ proposals' = proposals + 1 /\ UNCHANGED plan
             /\ driver' = IF proposals' = MaxProposals THEN "unplanned" ELSE driver
    BY <1>1 DEF Propose
  <2>2. plan' \in Seq(PlanTasks)
    BY <2>1, ParallelAssumption DEF TypeOK
  <2>3. proposals' \in 0..3 /\ driver' \in Drivers /\ todo = {}
    BY <1>1, <2>1 DEF Propose, TypeOK, Answered, MaxProposals
  <2>4. UNCHANGED <<turn, tasks, todo, stage, outcome, woken, cancelled, logged, worktrees, branch,
                    cut, changes, conflicts, life>>
    BY <1>1 DEF Propose, memory, disk
  <2> QED
    BY <2>2, <2>3, <2>4 DEF TypeOK
<1>2. CASE Pass
  <2>1. todo' \subseteq DOMAIN plan
    BY <1>2 DEF Pass, ReadyIn, PendingIn, TypeOK
  <2>2. turn' \in {"loop", "launch", "await"} \cup Tasks /\ driver' \in Drivers
    BY <1>2 DEF Pass, TypeOK
  <2>3. /\ woken' = FALSE
        /\ UNCHANGED <<plan, proposals, stage, outcome, cancelled, worktrees, cut, branch, changes,
                       conflicts, life>>
    BY <1>2 DEF Pass, planned
  <2> QED
    BY <1>2, <2>1, <2>2, <2>3, PassKeeps DEF TypeOK
<1>3. CASE Launch
  BY <1>3, LaunchTypes
<1>4. CASE LaunchDone
  BY <1>4 DEF LaunchDone, TypeOK, planned, disk
<1>5. CASE WakeUp
  BY <1>5 DEF WakeUp, TypeOK, planned, disk
<1>6. CASE Finish \/ Exit \/ Crash
  BY <1>6 DEF Finish, Exit, Crash, TypeOK, planned, memory, disk
<1>7. CASE CleanUp
  BY <1>7 DEF CleanUp, TypeOK, planned, memory
<1>8. CASE Resume
  <2>1. /\ stage' \in [Tasks -> Stages] /\ outcome' \in [Tasks -> Outcomes]
        /\ cut' \in [Tasks -> Nat]
        /\ todo' \subseteq DOMAIN plan /\ life' \in Nat
    BY <1>8 DEF Resume, TypeOK, Outcomes
  <2>2. /\ driver' \in Drivers /\ turn' \in {"loop", "launch", "await"} \cup Tasks
        /\ woken' = FALSE /\ cancelled' = FALSE /\ tasks' = logged
    BY <1>8 DEF Resume
  <2>3. UNCHANGED <<plan, proposals, logged, worktrees, branch, changes, conflicts>>
    BY <1>8 DEF Resume, planned, disk
  <2> QED
    BY <2>1, <2>2, <2>3 DEF TypeOK
<1>9. CASE UNCHANGED vars
  BY <1>9 DEF vars, TypeOK, planned, memory, disk
<1>10. ASSUME NEW t \in Tasks, RunOne(t) PROVE TypeOK'
  <2>1. CASE MarkStarted(t)
    <3>1. [logged EXCEPT ![t].status = "running"] \in [Tasks -> TaskStates]
      BY DEF TypeOK, TaskStates, Statuses
    <3> QED
      BY <2>1, <3>1 DEF MarkStarted, TypeOK, planned
  <2>2. CASE CutWorktree(t)
    BY <2>2 DEF CutWorktree, TypeOK, planned
  <2>3. CASE Answer(t)
    BY <2>3 DEF Answer, TypeOK, planned, disk, Writable
  <2>4. CASE Merge(t)
    <3>1. Append(branch, [by |-> t, paths |-> changes[t], life |-> life])
            \in Seq([by: Tasks, paths: SUBSET Paths, life: Nat])
      BY DEF TypeOK
    <3> QED
      BY <2>4, <3>1 DEF Merge, TypeOK, planned, Outcomes
  <2>5. CASE Discard(t)
    BY <2>5 DEF Discard, TypeOK, planned
  <2>6. CASE Settle(t)
    BY <2>6, SettleTypes
  <2>7. CASE DrainForReplan(t)
    <3>1. tasks[t].attempt \in Nat
      BY DEF TypeOK, TaskStates
    <3>2. /\ TaskState("needs_replan", tasks[t].attempt) \in TaskStates
          /\ [tasks EXCEPT ![t].status = "needs_replan"] \in [Tasks -> TaskStates]
      BY <3>1 DEF TypeOK, TaskState, TaskStates, Statuses, Outcomes
    <3> QED
      BY <2>7, <3>2 DEF DrainForReplan, TypeOK, planned
  <2> QED
    BY <1>10, <2>1, <2>2, <2>3, <2>4, <2>5, <2>6, <2>7 DEF RunOne
<1> QED
  BY <1>1, <1>2, <1>3, <1>4, <1>5, <1>6, <1>7, <1>8, <1>9, <1>10 DEF Next, Live, Loop

-----------------------------------------------------------------------------
(* Completed work. *)

Inv == TypeOK /\ Answered /\ Work

\* What a step leaves of the invariant when it touches neither the log, the branch,
\* nor a task beyond its own.
LEMMA WorkKeeps ==
    ASSUME Inv,
           UNCHANGED <<plan, tasks, todo, stage, outcome, logged, branch, changes, conflicts,
                       life>>,
           driver' = "planning" => driver = "planning"
    PROVE  Work'
BY DEF Inv, Work, Distinct, Untouched, Remembered, TodoOpen, MergedFirst, OnBranch, Dated,
   OnlyCompletedWork, Delivered

LEMMA WorkPropose == Inv /\ Propose => Work'
<1> SUFFICES ASSUME Inv, Propose PROVE Work'
  OBVIOUS
<1>1. PICK p \in Candidates : plan' = plan \/ (PlanErrors(p) = {} /\ plan' = p)
  BY DEF Propose
<1>2. Distinct'
  BY <1>1, Validated DEF Inv, Work, Distinct
<1>3. driver = "planning" /\ todo = {}
  BY DEF Propose, Inv, Answered
<1>4. UNCHANGED <<tasks, todo, stage, outcome, logged, branch, changes, conflicts, life>>
  BY DEF Propose, memory, disk
<1>5. TodoOpen'
  BY <1>3, <1>4 DEF TodoOpen
<1>6. Untouched' /\ Remembered' /\ MergedFirst' /\ Dated' /\ OnlyCompletedWork' /\ Delivered'
  BY <1>3, <1>4 DEF Inv, Work, Untouched, Remembered, MergedFirst, OnBranch, Dated,
     OnlyCompletedWork, Delivered
<1> QED
  BY <1>2, <1>5, <1>6 DEF Work

LEMMA WorkPass == Inv /\ Pass => Work'
<1> SUFFICES ASSUME Inv, Pass PROVE Work'
  OBVIOUS
<1>1. /\ \A t \in Tasks : tasks[t].status = "completed" => tasks'[t] = tasks[t]
      /\ \A t \in Tasks : logged'[t] # logged[t] =>
            tasks[t].status # "completed" /\ logged'[t].status = "blocked"
      /\ \A i \in todo' \ todo : /\ i \in DOMAIN plan /\ stage[plan[i].id] = "idle"
                                 /\ tasks[plan[i].id].status # "completed"
  BY PassKeeps DEF Inv
<1>2. UNCHANGED <<plan, stage, outcome, branch, changes, conflicts, life>>
  BY DEF Pass, planned
<1>3. \A t \in Tasks : logged[t].status = "completed" <=> logged'[t].status = "completed"
  BY <1>1 DEF Inv, Work, Remembered
<1>4. driver' # "planning"
  BY DEF Pass
<1>5. Remembered' /\ OnlyCompletedWork' /\ Delivered'
  <2>1. Remembered' /\ Delivered'
    BY <1>1, <1>2, <1>3 DEF Inv, Work, Remembered, Delivered
  <2>2. OnlyCompletedWork'
    BY <1>2, <1>3, Commits DEF Inv, Work, OnlyCompletedWork
  <2> QED
    BY <2>1, <2>2
<1>6. TodoOpen'
  BY <1>1, <1>2, <1>3, PlanIds DEF Inv, Work, Remembered, TodoOpen
<1>7. Distinct' /\ MergedFirst' /\ Dated' /\ Untouched'
  BY <1>2, <1>4 DEF Inv, Work, Distinct, MergedFirst, OnBranch, Dated, Untouched
<1> QED
  BY <1>5, <1>6, <1>7 DEF Work

LEMMA WorkLaunch == Inv /\ Launch => Work'
<1> SUFFICES ASSUME Inv, Launch PROVE Work'
  OBVIOUS
<1>1. PICK i \in NextFit :
        /\ tasks' = [tasks EXCEPT ![plan[i].id] = TaskState("running", @.attempt + 1)]
        /\ logged' = [logged EXCEPT
                         ![plan[i].id] = TaskState("ready", tasks[plan[i].id].attempt + 1)]
        /\ stage' = [stage EXCEPT ![plan[i].id] = "ready"]
        /\ todo' = {j \in todo : j > i} /\ turn' = plan[i].id
  BY DEF Launch
<1> DEFINE t == plan[i].id
<1>2. i \in todo /\ i \in DOMAIN plan
  BY DEF NextFit, Inv, TypeOK
<1>3. t \in Tasks
  BY <1>2, PlanIds DEF Inv
<1>4. logged[t].status # "completed" /\ stage[t] = "idle"
  BY <1>2 DEF Inv, Work, TodoOpen
<1>5. UNCHANGED <<driver, plan, outcome, branch, changes, conflicts, life>>
  BY DEF Launch, planned
<1>6. driver # "planning"
  BY DEF Launch
<1>7. \A j \in todo' : j \in todo /\ plan[j].id # t
  BY <1>1, <1>2 DEF Inv, Work, Distinct, TypeOK
<1>8. /\ \A u \in Tasks : u # t => UNCHANGED <<logged[u], stage[u], tasks[u]>>
      /\ logged'[t].status = "ready" /\ stage'[t] = "ready"
  BY <1>1, <1>3 DEF Inv, TypeOK, TaskState
<1> HIDE DEF t
<1>9. Remembered' /\ Delivered' /\ MergedFirst'
  BY <1>5, <1>8 DEF Inv, Work, Remembered, Delivered, MergedFirst, OnBranch
<1>10. OnlyCompletedWork'
  BY <1>4, <1>5, <1>8, Commits DEF Inv, Work, OnlyCompletedWork
<1>11. TodoOpen'
  BY <1>5, <1>7, <1>8, PlanIds DEF Inv, Work, TodoOpen
<1>12. Distinct' /\ Dated' /\ Untouched'
  BY <1>5, <1>6 DEF Inv, Work, Distinct, Dated, Untouched
<1> QED
  BY <1>9, <1>10, <1>11, <1>12 DEF Work

LEMMA WorkResume == Inv /\ Resume => Work'
<1> SUFFICES ASSUME Inv, Resume PROVE Work'
  OBVIOUS
<1>1. /\ tasks' = logged /\ todo' = {} /\ life' = life + 1 /\ driver' = "driving"
      /\ stage' = [t \in Tasks |-> "idle"]
      /\ UNCHANGED <<plan, logged, branch, changes, conflicts>>
  BY DEF Resume, planned, disk
<1>2. \A i \in DOMAIN branch : branch[i].life \in Nat /\ branch[i].life <= life
  BY Commits DEF Inv, Work, Dated
<1>3. life \in Nat
  BY DEF Inv, TypeOK
<1>4. Dated' /\ OnlyCompletedWork'
  BY <1>1, <1>2, <1>3 DEF Dated, OnlyCompletedWork
<1>5. Distinct' /\ Untouched' /\ Remembered' /\ TodoOpen' /\ MergedFirst' /\ Delivered'
  BY <1>1 DEF Inv, Work, Distinct, Untouched, Remembered, TodoOpen, MergedFirst, Delivered
<1> QED
  BY <1>4, <1>5 DEF Work

LEMMA WorkRunOne ==
    ASSUME Inv, NEW t \in Tasks, RunOne(t)
    PROVE  Work'
<1>1. driver # "planning" /\ UNCHANGED <<driver, plan, life>>
  BY DEF RunOne, Running, MarkStarted, CutWorktree, Answer, Merge, Discard, Settle, DrainForReplan,
     planned
<1>2. Distinct' /\ Untouched'
  BY <1>1 DEF Inv, Work, Distinct, Untouched
<1>3. stage[t] # "idle" /\ logged[t].status # "completed"
  BY DEF RunOne, MarkStarted, CutWorktree, Answer, Merge, Discard, Settle, DrainForReplan,
     Inv, Work, Remembered
<1>4. todo' = todo /\ \A i \in todo : i \in DOMAIN plan /\ plan[i].id # t
  BY <1>3 DEF RunOne, MarkStarted, CutWorktree, Answer, Merge, Discard, Settle, DrainForReplan,
     Inv, Work, TodoOpen
<1>5. \A u \in Tasks \ {t} : UNCHANGED <<tasks[u], stage[u], outcome[u], logged[u], changes[u]>>
  <2>1. CASE MarkStarted(t) \/ CutWorktree(t) \/ Answer(t)
    BY <2>1 DEF MarkStarted, CutWorktree, Answer, disk, Inv, TypeOK
  <2>2. CASE Merge(t) \/ Discard(t)
    BY <2>2 DEF Merge, Discard, Inv, TypeOK
  <2>3. CASE Settle(t) \/ DrainForReplan(t)
    BY <2>3 DEF Settle, DrainForReplan, Inv, TypeOK
  <2> QED
    BY <2>1, <2>2, <2>3 DEF RunOne
<1>6. TodoOpen'
  BY <1>1, <1>4, <1>5, PlanIds DEF Inv, Work, TodoOpen
<1>7. CASE MarkStarted(t) \/ CutWorktree(t) \/ Answer(t) \/ Discard(t) \/ DrainForReplan(t)
  <2>1. UNCHANGED branch
    BY <1>7 DEF MarkStarted, CutWorktree, Answer, Discard, DrainForReplan, disk
  <2>2. logged'[t].status # "completed"
    BY <1>3, <1>7 DEF MarkStarted, CutWorktree, Answer, Discard, DrainForReplan, disk, TaskState,
       Inv, TypeOK, TaskStates
  <2>3. Remembered' /\ Delivered'
    BY <1>5, <2>1, <2>2 DEF Inv, Work, Remembered, Delivered
  <2>4. /\ stage'[t] \in {"merging", "discarding", "settling"} =>
              Answer(t) \/ (Discard(t) /\ stage[t] = "discarding" /\ stage'[t] = "settling")
        /\ Answer(t) => /\ outcome'[t] # "completed" => changes'[t] = {}
                        /\ stage'[t] = IF changes'[t] # {} THEN "merging" ELSE "discarding"
        /\ ~Answer(t) => UNCHANGED <<outcome[t], changes[t]>>
    BY <1>7 DEF MarkStarted, CutWorktree, Answer, Discard, DrainForReplan, Inv, TypeOK
  <2>5. MergedFirst'
    BY <1>5, <2>1, <2>4 DEF Inv, Work, MergedFirst, OnBranch
  <2>7. stage[t] \in {"discarding", "settling"} /\ outcome[t] = "completed" =>
            stage'[t] \in {"discarding", "settling"} /\ outcome'[t] = "completed"
    BY <1>7 DEF MarkStarted, CutWorktree, Answer, Discard, DrainForReplan, Inv, TypeOK
  <2>8. OnlyCompletedWork'
    BY <1>1, <1>3, <1>5, <2>1, <2>7, Commits DEF Inv, Work, OnlyCompletedWork
  <2>6. Dated'
    BY <1>1, <2>1 DEF Inv, Work, Dated
  <2> QED
    BY <1>2, <1>6, <2>3, <2>5, <2>6, <2>8 DEF Work
<1>8. CASE Merge(t)
  <2>1. UNCHANGED <<tasks, logged, changes>> /\ stage' = [stage EXCEPT ![t] = "discarding"]
        /\ stage[t] = "merging"
    BY <1>8 DEF Merge
  <2>2. outcome[t] = "completed"
    BY <2>1 DEF Inv, Work, MergedFirst
  <2> DEFINE commit == [by |-> t, paths |-> changes[t], life |-> life]
  <2>3. CASE branch' = Append(branch, commit) /\ UNCHANGED outcome
    <3>1. /\ DOMAIN branch' = DOMAIN branch \cup {Len(branch) + 1}
          /\ \A i \in DOMAIN branch : branch'[i] = branch[i]
          /\ branch'[Len(branch) + 1] = commit
      BY <2>3 DEF Inv, TypeOK
    <3>2. Dated' /\ OnBranch(t)'
      <4>1. life \in Nat
        BY DEF Inv, TypeOK
      <4>2. Dated'
        BY <1>1, <3>1, <4>1 DEF Inv, Work, Dated
      <4> QED
        BY <2>1, <3>1, <4>2 DEF OnBranch
    <3>3. \A u \in Tasks \ {t} : OnBranch(u) => OnBranch(u)'
      BY <1>5, <3>1 DEF OnBranch
    <3>4. MergedFirst'
      BY <1>5, <2>1, <3>2, <3>3 DEF Inv, TypeOK, Work, MergedFirst
    <3>5. OnlyCompletedWork'
      BY <1>1, <1>5, <2>1, <2>2, <2>3, <3>1 DEF Inv, TypeOK, Work, OnlyCompletedWork
    <3>6. Remembered' /\ Delivered'
      BY <1>3, <1>5, <2>1, <3>1 DEF Inv, Work, Remembered, Delivered
    <3> QED
      BY <1>2, <1>6, <3>2, <3>4, <3>5, <3>6 DEF Work
  <2>4. CASE UNCHANGED branch /\ outcome' = [outcome EXCEPT ![t] = "failed"]
    <3>1. MergedFirst'
      BY <1>5, <2>1, <2>4 DEF Inv, TypeOK, Work, MergedFirst, OnBranch
    <3>2. OnlyCompletedWork'
      BY <1>1, <1>3, <1>5, <2>1, <2>4 DEF Inv, TypeOK, Work, OnlyCompletedWork
    <3>3. Remembered' /\ Delivered' /\ Dated'
      BY <1>1, <1>3, <1>5, <2>1, <2>4 DEF Inv, Work, Remembered, Delivered, Dated
    <3> QED
      BY <1>2, <1>6, <3>1, <3>2, <3>3 DEF Work
  <2> QED
    BY <1>8, <2>3, <2>4 DEF Merge
<1>9. CASE Settle(t)
  <2>1. UNCHANGED <<branch, changes>> /\ stage'[t] = "idle" /\ stage[t] = "settling"
    BY <1>9 DEF Settle, Inv, TypeOK
  <2>2. outcome[t] \in Outcomes
    BY DEF Inv, TypeOK
  <2>3. logged'[t].status = "completed" =>
            outcome[t] = "completed" /\ tasks'[t].status = "completed"
    BY <1>3, <1>9, <2>2 DEF Settle, Inv, TypeOK, TaskStates, Outcomes
  <2>4. outcome[t] = "completed" => logged'[t].status = "completed"
    BY <1>9 DEF Settle, Retried, Inv, TypeOK, TaskStates
  <2>5. Remembered' /\ MergedFirst' /\ Dated'
    BY <1>1, <1>5, <2>1, <2>3 DEF Inv, Work, Remembered, MergedFirst, OnBranch, Dated
  <2>6. Delivered'
    BY <1>5, <2>1, <2>3 DEF Inv, Work, Delivered, MergedFirst, OnBranch
  <2>7. OnlyCompletedWork'
    BY <1>1, <1>3, <1>5, <2>1, <2>4, Commits DEF Inv, Work, OnlyCompletedWork
  <2> QED
    BY <1>2, <1>6, <2>5, <2>6, <2>7 DEF Work
<1> QED
  BY <1>7, <1>8, <1>9 DEF RunOne

LEMMA WorkStep == Inv /\ [Next]_vars => Work'
<1> SUFFICES ASSUME Inv, [Next]_vars PROVE Work'
  OBVIOUS
<1>1. CASE WakeUp \/ Finish \/ Exit \/ Crash \/ CleanUp \/ UNCHANGED vars
  BY <1>1, WorkKeeps DEF WakeUp, Finish, Exit, Crash, CleanUp, vars, planned, memory, disk
<1>2. CASE LaunchDone
  <2>1. todo' = {} /\ driver' # "planning"
        /\ UNCHANGED <<plan, tasks, stage, outcome, logged, branch, changes, conflicts, life>>
    BY <1>2 DEF LaunchDone, planned, disk
  <2>2. Distinct' /\ Untouched' /\ Remembered' /\ TodoOpen' /\ MergedFirst' /\ Dated'
        /\ OnlyCompletedWork' /\ Delivered'
    BY <2>1 DEF Inv, Work, Distinct, Untouched, Remembered, TodoOpen, MergedFirst, OnBranch, Dated,
       OnlyCompletedWork, Delivered
  <2> QED
    BY <2>2 DEF Work
<1> QED
  BY <1>1, <1>2, WorkPropose, WorkPass, WorkLaunch, WorkResume, WorkRunOne DEF Next, Live, Loop

-----------------------------------------------------------------------------
(* Conflicts. *)

\* Tasks that run side by side name targets that do not overlap.
Working(t) == stage[t] \notin {"idle", "rejected"}
Apart ==
    \A t, u \in Tasks : t # u /\ Working(t) /\ Working(u) =>
        ~WritesOverlap(WritesOf(plan, t), WritesOf(plan, u))

\* What has been merged since a worktree was cut is of tasks that ran beside its own.
Beside ==
    \A t \in Tasks : stage[t] \in {"executing", "merging"} =>
        \A i \in (cut[t] + 1)..Len(branch) :
            ~WritesOverlap(WritesOf(plan, branch[i].by), WritesOf(plan, t))

\* A task changes what it names, and no more.
InTargets ==
    /\ \A t \in Tasks : stage[t] = "merging" => changes[t] \subseteq Writable(t)
    /\ \A i \in DOMAIN branch : branch[i].paths \subseteq Writable(branch[i].by)

Clear == Apart /\ Beside /\ InTargets /\ ConflictFree

\* The overlap test does not mind the order.
LEMMA OverlapSymmetric ==
    \A ws, vs : WritesOverlap(ws, vs) <=> WritesOverlap(vs, ws)
BY DEF WritesOverlap, PatternsOverlap

\* The targets of a task of the plan are those of its one entry.
LEMMA OneEntry ==
    ASSUME Distinct, NEW i \in DOMAIN plan
    PROVE  WritesOf(plan, plan[i].id) = plan[i].writes
<1>1. {j \in DOMAIN plan : plan[j].id = plan[i].id} = {i}
  BY DEF Distinct
<1> QED
  BY <1>1 DEF WritesOf

\* Where the overlap test sees every shared file, targets that do not overlap share none.
LEMMA NoSharedPath ==
    ASSUME Distinct, Seen, NEW t, NEW u, ~WritesOverlap(WritesOf(plan, t), WritesOf(plan, u))
    PROVE  Writable(t) \cap Writable(u) = {}
<1> SUFFICES ASSUME NEW q \in Paths, NEW a \in WritesOf(plan, t), NEW b \in WritesOf(plan, u),
                    GlobMatch(a, q), GlobMatch(b, q)
             PROVE  FALSE
  BY DEF Writable
<1>1. PICK i \in DOMAIN plan : plan[i].id = t /\ a \in plan[i].writes
  BY DEF WritesOf
<1>2. PICK j \in DOMAIN plan : plan[j].id = u /\ b \in plan[j].writes
  BY DEF WritesOf
<1>3. MayCollide(Paths, plan[i].writes, plan[j].writes)
  BY <1>1, <1>2 DEF MayCollide
<1>4. WritesOverlap(plan[i].writes, plan[j].writes)
  BY <1>3 DEF Seen
<1> QED
  BY <1>1, <1>2, <1>4, OneEntry

LEMMA InitClear == Init => Clear
BY DEF Init, Clear, Apart, Working, Beside, InTargets, ConflictFree

LEMMA ClearKeeps ==
    ASSUME Clear, UNCHANGED <<plan, stage, cut, branch, changes, conflicts>>
    PROVE  Clear'
BY DEF Clear, Apart, Working, Beside, InTargets, Writable, ConflictFree, Seen

LEMMA ClearPropose == Inv /\ Clear /\ Propose => Clear'
<1> SUFFICES ASSUME Inv, Clear, Propose PROVE Clear'
  OBVIOUS
<1>1. branch = <<>> /\ conflicts = {} /\ \A t \in Tasks : stage[t] = "idle"
  BY DEF Propose, Inv, Work, Untouched
<1>2. UNCHANGED <<stage, branch, conflicts>>
  BY DEF Propose, memory, disk
<1> QED
  BY <1>1, <1>2 DEF Clear, Apart, Working, Beside, InTargets, ConflictFree

LEMMA ClearLaunch == Inv /\ Clear /\ Launch => Clear'
<1> SUFFICES ASSUME Inv, Clear, Launch PROVE Clear'
  OBVIOUS
<1>1. PICK i \in NextFit : stage' = [stage EXCEPT ![plan[i].id] = "ready"]
  BY DEF Launch
<1> DEFINE t == plan[i].id
<1>2. i \in DOMAIN plan /\ Fits(plan[i])
  BY DEF NextFit, Inv, TypeOK
<1>3. \A u \in Tasks : Working(u) => ~WritesOverlap(WritesOf(plan, t), WritesOf(plan, u))
  BY <1>2, OneEntry DEF Fits, InFlight, Working, Inv, Work
<1>4. \A u \in Tasks \ {t} : stage'[u] = stage[u]
  BY <1>1 DEF Inv, TypeOK
<1>5. UNCHANGED <<plan, cut, branch, changes, conflicts>>
  BY DEF Launch, planned
<1>6. stage'[t] = "ready"
  BY <1>1, <1>2, PlanIds DEF Inv, TypeOK
<1> HIDE DEF t
<1>7. Apart'
  BY <1>3, <1>4, <1>5, OverlapSymmetric DEF Clear, Apart, Working
<1>8. Beside' /\ InTargets' /\ ConflictFree'
  BY <1>4, <1>5, <1>6 DEF Clear, Beside, InTargets, Writable, ConflictFree, Seen
<1> QED
  BY <1>7, <1>8 DEF Clear

LEMMA ClearResume == Clear /\ Resume => Clear'
<1> SUFFICES ASSUME Clear, Resume PROVE Clear'
  OBVIOUS
<1>1. /\ stage' = [t \in Tasks |-> "idle"]
      /\ UNCHANGED <<plan, branch, changes, conflicts>>
  BY DEF Resume, planned, disk
<1> QED
  BY <1>1 DEF Clear, Apart, Working, Beside, InTargets, Writable, ConflictFree, Seen

LEMMA ClearMerge ==
    ASSUME Inv, Clear, NEW t \in Tasks, Merge(t)
    PROVE  Clear'
<1> DEFINE commit == [by |-> t, paths |-> changes[t], life |-> life]
<1>1. /\ stage[t] = "merging" /\ stage' = [stage EXCEPT ![t] = "discarding"]
      /\ UNCHANGED <<plan, cut, changes>>
  BY DEF Merge, planned
<1>2. Apart'
  BY <1>1 DEF Inv, TypeOK, Clear, Apart, Working
<1>3. CASE branch' = Append(branch, commit) /\ UNCHANGED conflicts
  <2>1. /\ Len(branch') = Len(branch) + 1 /\ Len(branch) \in Nat
        /\ DOMAIN branch = 1..Len(branch) /\ DOMAIN branch' = 1..(Len(branch) + 1)
        /\ \A i \in 1..Len(branch) : branch'[i] = branch[i]
        /\ branch'[Len(branch) + 1] = commit
    BY <1>3 DEF Inv, TypeOK
  <2>2. ASSUME NEW u \in Tasks, stage'[u] \in {"executing", "merging"}
        PROVE  /\ u # t /\ stage[u] \in {"executing", "merging"} /\ cut[u] \in Nat
               /\ ~WritesOverlap(WritesOf(plan, t), WritesOf(plan, u))
    BY <1>1, <2>2 DEF Inv, TypeOK, Clear, Apart, Working
  <2>3. Beside'
    <3> SUFFICES ASSUME NEW u \in Tasks, stage'[u] \in {"executing", "merging"},
                        NEW i \in (cut[u] + 1)..(Len(branch) + 1)
                 PROVE  ~WritesOverlap(WritesOf(plan, branch'[i].by), WritesOf(plan, u))
      BY <1>1, <2>1 DEF Beside
    <3>1. CASE i = Len(branch) + 1
      BY <2>1, <2>2, <3>1
    <3>2. CASE i # Len(branch) + 1
      <4>1. i \in (cut[u] + 1)..Len(branch) /\ i \in 1..Len(branch)
        BY <2>1, <2>2, <3>2
      <4> QED
        BY <2>1, <2>2, <4>1 DEF Clear, Beside
    <3> QED
      BY <3>1, <3>2
  <2>4. InTargets'
    <3>1. \A u : Writable(u)' = Writable(u)
      BY <1>1 DEF Writable
    <3>2. \A u \in Tasks : stage'[u] = "merging" => stage[u] = "merging"
      BY <1>1 DEF Inv, TypeOK
    <3>3. commit.by = t /\ commit.paths = changes[t] /\ changes[t] \subseteq Writable(t)
      BY <1>1 DEF Clear, InTargets
    <3>4. \A i \in 1..(Len(branch) + 1) : i \in 1..Len(branch) \/ i = Len(branch) + 1
      BY <2>1
    <3> HIDE DEF commit
    <3>5. \A i \in DOMAIN branch' : branch'[i].paths \subseteq Writable(branch'[i].by)
      BY <2>1, <3>3, <3>4 DEF Clear, InTargets
    <3> QED
      BY <1>1, <3>1, <3>2, <3>5 DEF Clear, InTargets
  <2>5. ConflictFree'
    BY <1>1, <1>3 DEF Clear, ConflictFree, Seen
  <2> QED
    BY <1>2, <2>3, <2>4, <2>5 DEF Clear
<1>4. CASE Overtaken(t) /\ UNCHANGED branch
  <2>1. ~Seen
    <3> SUFFICES ASSUME Seen PROVE FALSE
      OBVIOUS
    <3>1. PICK i \in (cut[t] + 1)..Len(branch) : branch[i].paths \cap changes[t] # {}
      BY <1>4 DEF Overtaken
    <3>2. i \in DOMAIN branch
      BY DEF Inv, TypeOK
    <3>3. ~WritesOverlap(WritesOf(plan, branch[i].by), WritesOf(plan, t))
      BY <1>1 DEF Clear, Beside
    <3>4. branch[i].paths \subseteq Writable(branch[i].by) /\ changes[t] \subseteq Writable(t)
      BY <1>1, <3>2 DEF Clear, InTargets
    <3> QED
      BY <3>1, <3>3, <3>4, NoSharedPath DEF Inv, Work
  <2>2. ConflictFree'
    BY <1>1, <2>1 DEF ConflictFree, Seen
  <2>3. Beside' /\ InTargets'
    BY <1>1, <1>4 DEF Inv, TypeOK, Clear, Beside, InTargets, Writable
  <2> QED
    BY <1>2, <2>2, <2>3 DEF Clear
<1> QED
  BY <1>3, <1>4 DEF Merge

LEMMA ClearRunOne ==
    ASSUME Inv, Clear, NEW t \in Tasks, RunOne(t)
    PROVE  Clear'
<1>1. CASE MarkStarted(t)
  BY <1>1 DEF MarkStarted, planned, Inv, TypeOK, Clear, Apart, Working, Beside, InTargets, Writable,
     ConflictFree, Seen
<1>2. CASE CutWorktree(t)
  <2>1. /\ UNCHANGED <<plan, branch, changes, conflicts>> /\ Len(branch) \in Nat
        /\ stage[t] = "started" /\ stage'[t] \in {"rejected", "executing"} /\ cut'[t] = Len(branch)
        /\ \A u \in Tasks \ {t} : UNCHANGED <<stage[u], cut[u]>>
    BY <1>2 DEF CutWorktree, planned, Inv, TypeOK
  <2>2. Apart'
    BY <2>1 DEF Clear, Apart, Working
  <2>3. (Len(branch) + 1)..Len(branch) = {}
    BY <2>1
  <2>4. Beside'
    BY <2>1, <2>3 DEF Clear, Beside
  <2> QED
    BY <2>1, <2>2, <2>4 DEF Clear, InTargets, Writable, ConflictFree, Seen
<1>3. CASE Answer(t)
  <2>1. /\ UNCHANGED <<plan, cut, branch, conflicts>>
        /\ stage[t] = "executing" /\ stage'[t] \in {"merging", "discarding"}
        /\ changes'[t] \subseteq Writable(t)
        /\ \A u \in Tasks \ {t} : UNCHANGED <<stage[u], changes[u]>>
    BY <1>3 DEF Answer, planned, disk, Inv, TypeOK
  <2> QED
    BY <2>1 DEF Clear, Apart, Working, Beside, InTargets, Writable, ConflictFree, Seen
<1>4. CASE Merge(t)
  BY <1>4, ClearMerge
<1>5. CASE Discard(t) \/ Settle(t) \/ DrainForReplan(t)
  <2>1. /\ UNCHANGED <<plan, branch, changes, conflicts>>
        /\ stage[t] \in {"discarding", "settling"} /\ stage'[t] \in {"settling", "idle", "draining"}
        /\ \A u \in Tasks \ {t} : UNCHANGED <<stage[u], cut[u]>>
    BY <1>5 DEF Discard, Settle, DrainForReplan, planned, Inv, TypeOK
  <2> QED
    BY <2>1 DEF Clear, Apart, Working, Beside, InTargets, Writable, ConflictFree, Seen
<1> QED
  BY <1>1, <1>2, <1>3, <1>4, <1>5 DEF RunOne

LEMMA ClearStep == Inv /\ Clear /\ [Next]_vars => Clear'
<1>1. Pass \/ LaunchDone \/ WakeUp \/ Finish \/ Exit \/ Crash \/ CleanUp \/ UNCHANGED vars =>
          UNCHANGED <<plan, stage, cut, branch, changes, conflicts>>
  BY DEF Pass, LaunchDone, WakeUp, Finish, Exit, Crash, CleanUp, vars, planned, memory, disk
<1> QED
  BY <1>1, ClearKeeps, ClearPropose, ClearLaunch, ClearResume, ClearRunOne DEF Next, Live, Loop

-----------------------------------------------------------------------------
(* The theorems. *)

LEMMA Invariance == Spec => [](Inv /\ Clear)
<1>1. Init => Inv /\ Clear
  BY InitTypes, InitAnswered, InitWork, InitClear DEF Inv
<1>2. Inv /\ Clear /\ [Next]_vars => (Inv /\ Clear)'
  BY TypeStep, AnsweredStep, WorkStep, ClearStep DEF Inv
<1> QED
  BY <1>1, <1>2, PTL DEF Spec

\* Every variable of the driver keeps to its type, through launches, crashes and resumes.
THEOREM TypeCorrect == Spec => []TypeOK
<1>1. Inv => TypeOK
  BY DEF Inv
<1> QED
  BY <1>1, Invariance, PTL

\* mergeTaskPatch: what a process puts on the integration branch is the work of tasks
\* that completed, whatever became of their siblings.
THEOREM MergesCompleted == Spec => []OnlyCompletedWork
<1>1. Inv => OnlyCompletedWork
  BY DEF Inv, Work
<1> QED
  BY <1>1, Invariance, PTL

\* driveRunParallel: a task the log calls completed has its changes on the branch, after
\* any conflict, crash and resume.
THEOREM Delivers == Spec => []Delivered
<1>1. Inv => Delivered
  BY DEF Inv, Work
<1> QED
  BY <1>1, Invariance, PTL

\* "Conflicts are structurally prevented": where the overlap test sees every shared file,
\* no cherry-pick ever conflicts, however many tasks run side by side.
THEOREM NeverConflicts == Spec => []ConflictFree
<1>1. Clear => ConflictFree
  BY DEF Clear
<1> QED
  BY <1>1, Invariance, PTL
=============================================================================
