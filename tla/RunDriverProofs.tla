-------------------------- MODULE RunDriverProofs --------------------------
(***************************************************************************)
(* What holds of the driver over all the lives of a run, for any tasks,    *)
(* plans and amendments and however often the run crashes: the limits of   *)
(* config.execution, that the log remembers what was done and in which     *)
(* order, that an amendment keeps what was executed, that no plan without  *)
(* an order gets past validation, and that the log is the ledger it        *)
(* promises to be.                                                         *)
(***************************************************************************)
EXTENDS RunDriver, FiniteSetTheorems, WellFoundedInduction, SequenceTheorems, TLAPS

Numbers == /\ replans \in Nat /\ calls \in Nat /\ loggedReplans \in Nat /\ loggedCalls \in Nat
           /\ crashes \in Nat /\ spent \in Nat /\ amended \in Nat

(***************************************************************************)
(* Calls: what was reserved is in the log, but for the call under way and  *)
(* one lost in each crash.                                                 *)
(***************************************************************************)
CallsLogged == spent <= loggedCalls + crashes + (IF alive /\ pc = "calling" THEN 1 ELSE 0)
CallsKnown == alive => spent <= calls + crashes
Calls == CallsLogged /\ CallsKnown /\ BudgetBounded

(***************************************************************************)
(* Replans: every plan file written has its REPLAN_REQUESTED before it.    *)
(***************************************************************************)
ReplansLogged == amended + (IF alive /\ pc = "amending" THEN 1 ELSE 0) <= loggedReplans
ReplansKnown == alive => amended <= replans + (IF pc = "redispatching" THEN 1 ELSE 0)
Replans == ReplansLogged /\ ReplansKnown /\ amended <= MaxReplans

(***************************************************************************)
(* Attempts: a pending task has one to spare.                              *)
(***************************************************************************)
Spare == MaxTaskRetries + loggedReplans + crashes
TaskShapes == tasks \in [Tasks -> TaskStates] /\ logged \in [Tasks -> TaskStates]
AttemptsKnown == alive =>
    \A t \in Tasks :
        /\ tasks[t].attempt <= Spare + 1
        /\ tasks[t].status = "pending" => tasks[t].attempt <= Spare
        /\ pc \in {"amending", "redispatching"} /\ tasks[t].status = "needs_replan" =>
              tasks[t].attempt <= Spare
AttemptsLogged ==
    \A t \in Tasks : logged[t].attempt <= Spare + (IF alive \/ pc = "refused" THEN 1 ELSE 0)
Attempts == TaskShapes /\ AttemptsKnown /\ AttemptsLogged

LEMMA StartNumbers == Init => Numbers /\ Calls /\ Replans
BY DriverAssumption DEF Init, Numbers, Calls, CallsLogged, CallsKnown, BudgetBounded,
                        Replans, ReplansLogged, ReplansKnown

LEMMA StartAttempts == Init => Attempts
BY DriverAssumption DEF Init, Attempts, TaskShapes, AttemptsKnown, AttemptsLogged, Spare,
                        None, TaskState, TaskStates, Statuses

\* The actions that touch no counter of calls, replans or crashes.
Uncounted ==
    \/ Start \/ Refuse \/ Scan \/ ScanDone \/ Conclude \/ Dispatch \/ MarkStarted
    \/ Complete \/ Retry \/ Fail \/ Block \/ NeedReplan \/ Redispatch \/ Finish

LEMMA UncountedSteps ==
    ASSUME Uncounted
    PROVE  /\ UNCHANGED <<replans, calls, loggedReplans, loggedCalls, history>>
           /\ (alive' => alive)
           /\ pc \notin {"calling", "amending"} /\ pc' \notin {"calling", "amending"}
           /\ pc = "redispatching" <=> pc' = "redispatching"
<1> USE DEF NextPass, memory, disk, history
<1>1. CASE Start  BY <1>1 DEF Start
<1>2. CASE Refuse  BY <1>2 DEF Refuse
<1>3. CASE Scan  BY <1>3 DEF Scan
<1>4. CASE ScanDone  BY <1>4 DEF ScanDone
<1>5. CASE Conclude  BY <1>5 DEF Conclude
<1>6. CASE Dispatch  BY <1>6 DEF Dispatch
<1>7. CASE MarkStarted  BY <1>7 DEF MarkStarted
<1>8. CASE Complete  BY <1>8 DEF Complete
<1>9. CASE Retry  BY <1>9 DEF Retry, Exhausted
<1>10. CASE Fail  BY <1>10 DEF Fail, Exhausted
<1>11. CASE Block  BY <1>11 DEF Block
<1>12. CASE NeedReplan  BY <1>12 DEF NeedReplan
<1>13. CASE Redispatch  BY <1>13 DEF Redispatch
<1>14. CASE Finish  BY <1>14 DEF Finish
<1> QED
  BY <1>1, <1>2, <1>3, <1>4, <1>5, <1>6, <1>7, <1>8, <1>9, <1>10, <1>11, <1>12, <1>13, <1>14
  DEF Uncounted

\* Recording calls of the provider that were made outside a reservation, or ending
\* the replanning, only ever makes room.
LEMMA Room ==
    ASSUME NEW s \in Nat, NEW l \in Nat, NEW m \in Nat, NEW c \in Nat, s <= l + c, l <= m
    PROVE  s <= m + c + 0
OBVIOUS

LEMMA CallsRecorded ==
    ASSUME Numbers, Calls, Replans, alive,
           UNCHANGED <<alive, replans, calls, loggedReplans, crashes, spent, amended>>,
           loggedCalls' \in Nat, loggedCalls <= loggedCalls',
           pc \in {"executing", "amending"}, pc' \in {"answered", "finishing"}
    PROVE  Numbers' /\ Calls' /\ Replans'
<1> USE DEF Numbers
<1>1. Numbers'  OBVIOUS
<1>2. /\ alive' /\ replans' = replans /\ calls' = calls /\ loggedReplans' = loggedReplans
      /\ crashes' = crashes /\ spent' = spent /\ amended' = amended
  OBVIOUS
<1>3. CallsLogged'
  <2>1. spent <= loggedCalls + crashes  BY DEF Calls, CallsLogged
  <2>2. spent' <= loggedCalls' + crashes' + 0  BY <1>2, <2>1, Room
  <2>3. pc' # "calling"  OBVIOUS
  <2>4. (IF alive' /\ pc' = "calling" THEN 1 ELSE 0) = 0  BY <2>3
  <2> QED  BY <2>2, <2>4 DEF CallsLogged
<1>4. CallsKnown' /\ BudgetBounded'  BY <1>2 DEF Calls, CallsKnown, BudgetBounded
<1>5. ReplansLogged'
  <2>1. amended <= loggedReplans  BY DEF Replans, ReplansLogged
  <2>2. pc' # "amending"  OBVIOUS
  <2> QED  BY <1>1, <1>2, <2>1, <2>2 DEF ReplansLogged
<1>6. ReplansKnown'
  <2>1. amended <= replans  BY DEF Replans, ReplansKnown
  <2> QED  BY <1>1, <1>2, <2>1 DEF ReplansKnown
<1>7. amended' <= MaxReplans  BY <1>2 DEF Replans
<1> QED  BY <1>1, <1>3, <1>4, <1>5, <1>6, <1>7 DEF Calls, Replans

LEMMA CountersKept ==
    ASSUME Numbers, Calls, Replans, [Next]_vars
    PROVE  Numbers' /\ Calls' /\ Replans'
<1> USE DriverAssumption DEF Numbers, Calls, CallsLogged, CallsKnown, BudgetBounded,
                             Replans, ReplansLogged, ReplansKnown
<1>1. CASE Uncounted
  BY <1>1, UncountedSteps DEF history
<1>2. CASE alive /\ Reserve  BY <1>2 DEF Reserve, disk
<1>3. CASE alive /\ Verify
  <2>1. loggedCalls' \in loggedCalls..(loggedCalls + MaxCalls)  BY <1>3 DEF Verify
  <2>2. loggedCalls' \in Nat /\ loggedCalls <= loggedCalls'  BY <2>1
  <2>3. /\ UNCHANGED <<alive, replans, calls, loggedReplans, crashes, spent, amended>>
        /\ pc = "executing" /\ pc' = "answered"
    BY <1>3 DEF Verify, memory, history
  <2> QED  BY <1>3, <2>2, <2>3, CallsRecorded
<1>4. CASE alive /\ CallProvider  BY <1>4 DEF CallProvider, memory, history
<1>5. CASE alive /\ RequestReplan  BY <1>5 DEF RequestReplan, memory, history
<1>6. CASE alive /\ FailReplan
  <2>1. loggedCalls' \in loggedCalls..(loggedCalls + MaxCalls)  BY <1>6 DEF FailReplan
  <2>2. loggedCalls' \in Nat /\ loggedCalls <= loggedCalls'  BY <2>1
  <2>3. /\ UNCHANGED <<alive, replans, calls, loggedReplans, crashes, spent, amended>>
        /\ pc = "amending" /\ pc' = "finishing"
    BY <1>6 DEF FailReplan, memory, history
  <2> QED  BY <1>6, <2>2, <2>3, CallsRecorded
<1>7. CASE alive /\ WritePlan  BY <1>7 DEF WritePlan
<1>8. CASE alive /\ CommitAmendment  BY <1>8 DEF CommitAmendment, NextPass, history
<1>9. CASE Crash  BY <1>9 DEF Crash, memory, disk
<1>10. CASE Resume
  BY <1>10 DEF Resume, NextPass, ReplayReplans, disk, history
<1>11. CASE UNCHANGED vars  BY <1>11 DEF vars, memory, disk, history
<1> QED
  BY <1>1, <1>2, <1>3, <1>4, <1>5, <1>6, <1>7, <1>8, <1>9, <1>10, <1>11 DEF Next, Drive, Uncounted

\* A task's state after a transition of the driver, and what the log has of it.
LEMMA RecordShapes ==
    ASSUME TaskShapes, NEW t, NEW s \in Statuses, NEW f \in BOOLEAN, Record(t, s, f)
    PROVE  /\ TaskShapes'
           /\ \A q \in Tasks :
                 /\ tasks'[q].attempt = tasks[q].attempt
                 /\ tasks'[q].status = IF q = t THEN s ELSE tasks[q].status
                 /\ logged'[q].attempt = IF q = t THEN tasks[q].attempt ELSE logged[q].attempt
<1>1. /\ tasks' \in [Tasks -> TaskStates]
      /\ \A q \in Tasks : /\ tasks'[q].attempt = tasks[q].attempt
                          /\ tasks'[q].status = IF q = t THEN s ELSE tasks[q].status
  <2>1. \A q \in Tasks : tasks[q] \in TaskStates  BY DEF TaskShapes
  <2>2. ASSUME NEW q \in Tasks
        PROVE  /\ tasks'[q] \in TaskStates /\ tasks'[q].attempt = tasks[q].attempt
               /\ tasks'[q].status = IF q = t THEN s ELSE tasks[q].status
    <3>1. CASE q = t
      <4>1. tasks'[q] = [tasks[q] EXCEPT !.status = s, !.failed = tasks[q].failed \/ f]
        BY <3>1 DEF TaskShapes, Record
      <4>2. tasks[q] \in TaskStates /\ (tasks[q].failed \/ f) \in BOOLEAN
        BY <2>1 DEF TaskStates
      <4> QED  BY <3>1, <4>1, <4>2 DEF TaskStates
    <3>2. CASE q # t
      <4>1. tasks'[q] = tasks[q]  BY <3>2 DEF TaskShapes, Record
      <4> QED  BY <2>1, <3>2, <4>1
    <3> QED  BY <3>1, <3>2
  <2>3. tasks' \in [Tasks -> TaskStates]  BY <2>2 DEF TaskShapes, Record
  <2> QED  BY <2>2, <2>3
<1>2. /\ logged' \in [Tasks -> TaskStates]
      /\ \A q \in Tasks :
            logged'[q].attempt = IF q = t THEN tasks[q].attempt ELSE logged[q].attempt
  <2>1. t \in Tasks => tasks[t].attempt \in Nat  BY DEF TaskShapes, TaskStates
  <2>2. t \in Tasks => TaskState(s, tasks[t].attempt, f) \in TaskStates
    BY <2>1 DEF TaskStates, TaskState
  <2>3. TaskState(s, tasks[t].attempt, f).attempt = tasks[t].attempt  BY DEF TaskState
  <2>4. logged' = [logged EXCEPT ![t] = TaskState(s, tasks[t].attempt, f)]  BY DEF Record
  <2> QED  BY <2>2, <2>3, <2>4 DEF TaskShapes
<1> QED  BY <1>1, <1>2 DEF TaskShapes

LEMMA TransitionAttempts ==
    ASSUME Numbers, Attempts, alive, UNCHANGED <<alive, loggedReplans, crashes>>,
           NEW t, NEW s \in Statuses \ {"pending"}, NEW f \in BOOLEAN, Record(t, s, f),
           pc' \notin {"amending", "redispatching"}
    PROVE  Attempts'
<1>1. TaskShapes  BY DEF Attempts
<1>2. Spare' = Spare /\ Spare \in Nat  BY DriverAssumption DEF Spare, Numbers
<1>3. /\ TaskShapes'
      /\ \A q \in Tasks :
            /\ tasks'[q].attempt = tasks[q].attempt
            /\ tasks'[q].status = "pending" => tasks[q].status = "pending"
            /\ \/ logged'[q].attempt = tasks[q].attempt
               \/ logged'[q].attempt = logged[q].attempt
  BY <1>1, RecordShapes
<1>4. \A q \in Tasks : tasks[q].attempt \in Nat /\ logged[q].attempt \in Nat
  BY <1>1 DEF TaskShapes, TaskStates
<1>5. AttemptsKnown'
  BY <1>2, <1>3, <1>4 DEF Attempts, AttemptsKnown
<1>6. AttemptsLogged'
  BY <1>2, <1>3, <1>4 DEF Attempts, AttemptsKnown, AttemptsLogged
<1> QED  BY <1>3, <1>5, <1>6 DEF Attempts

\* The same for the steps that are not such transitions, task by task.
LEMMA MovedAttempts ==
    ASSUME Numbers, Attempts, alive, alive' = alive, UNCHANGED <<loggedReplans, crashes>>,
           TaskShapes',
           \A q \in Tasks :
              /\ tasks'[q].attempt <= Spare + 1
              /\ tasks'[q].status = "pending" => tasks'[q].attempt <= Spare
              /\ pc' \in {"amending", "redispatching"} /\ tasks'[q].status = "needs_replan" =>
                    tasks'[q].attempt <= Spare
              /\ logged'[q].attempt <= Spare + 1
    PROVE  Attempts'
<1>1. Spare' = Spare  BY DEF Spare
<1>2. AttemptsKnown'  BY <1>1 DEF AttemptsKnown
<1>3. AttemptsLogged'  BY <1>1 DEF AttemptsLogged
<1> QED  BY <1>2, <1>3 DEF Attempts

\* A step that changes no task leaves the bounds alone; they only grow.
LEMMA QuietAttempts ==
    ASSUME Numbers, Attempts, alive, alive' = alive, UNCHANGED <<tasks, logged>>,
           Spare' \in Nat, Spare' >= Spare,
           pc' \in {"amending", "redispatching"} =>
              pc \in {"amending", "redispatching"} \/ Spare' >= Spare + 1
    PROVE  Attempts'
<1>1. Spare \in Nat  BY DriverAssumption DEF Spare, Numbers
<1> QED  BY <1>1 DEF Attempts, TaskShapes, TaskStates, AttemptsKnown, AttemptsLogged

LEMMA FreshTask == Pending \in TaskStates /\ None \in TaskStates /\ Pending.attempt = 0
                   /\ None.attempt = 0 /\ None.status # "pending"
BY DEF Pending, None, TaskState, TaskStates, Statuses

\* Which steps are transitions, and which change no task.
Transition == \/ Complete \/ Fail \/ Block \/ NeedReplan
Quiet == \/ ScanDone \/ Conclude \/ Reserve \/ Verify \/ CallProvider \/ RequestReplan
         \/ FailReplan \/ Finish

LEMMA TransitionSteps ==
    ASSUME Numbers, Attempts, alive, Transition
    PROVE  Attempts'
<1> USE DEF NextPass, Statuses
<1>1. CASE Complete  BY <1>1, TransitionAttempts DEF Complete
<1>2. CASE Fail  BY <1>2, TransitionAttempts DEF Fail
<1>3. CASE Block
  <2>1. /\ UNCHANGED <<alive, loggedReplans, crashes>>
        /\ Record(task, "blocked", TRUE) /\ pc' = "scanning"
    BY <1>3 DEF Block, history
  <2> QED  BY <2>1, TransitionAttempts
<1>4. CASE NeedReplan
  <2>1. /\ UNCHANGED <<alive, loggedReplans, crashes>>
        /\ Record(task, "needs_replan", FALSE) /\ pc' = "replanning"
    BY <1>4 DEF NeedReplan, history
  <2> QED  BY <2>1, TransitionAttempts
<1> QED  BY <1>1, <1>2, <1>3, <1>4 DEF Transition

LEMMA QuietSteps ==
    ASSUME Numbers, Attempts, alive, Quiet
    PROVE  Attempts'
<1>1. Spare \in Nat  BY DriverAssumption DEF Spare, Numbers
<1>2. CASE RequestReplan
  <2>1. /\ UNCHANGED <<alive, tasks, logged, crashes>> /\ loggedReplans' = loggedReplans + 1
    BY <1>2 DEF RequestReplan, memory, history
  <2>2. Spare' = Spare + 1  BY <2>1, DriverAssumption DEF Spare, Numbers
  <2> QED  BY <1>1, <2>1, <2>2, QuietAttempts
<1>3. CASE ~RequestReplan
  <2>1. /\ UNCHANGED <<alive, tasks, logged, loggedReplans, crashes>>
        /\ pc' \notin {"amending", "redispatching"}
    <3> USE DEF memory, disk, history
    <3>1. CASE ScanDone  BY <3>1 DEF ScanDone
    <3>2. CASE Conclude  BY <3>2 DEF Conclude
    <3>3. CASE Reserve  BY <3>3 DEF Reserve
    <3>4. CASE Verify  BY <3>4 DEF Verify
    <3>5. CASE CallProvider  BY <3>5 DEF CallProvider
    <3>6. CASE FailReplan  BY <3>6 DEF FailReplan
    <3>7. CASE Finish  BY <3>7 DEF Finish
    <3> QED  BY <1>3, <3>1, <3>2, <3>3, <3>4, <3>5, <3>6, <3>7 DEF Quiet
  <2>2. Spare' = Spare  BY <2>1 DEF Spare
  <2> QED  BY <1>1, <2>1, <2>2, QuietAttempts
<1> QED  BY <1>2, <1>3

\* A launch takes the attempt that a pending task has to spare.
LEMMA LaunchSteps ==
    ASSUME Numbers, Attempts, alive, Start \/ Scan \/ Dispatch \/ MarkStarted \/ Retry
    PROVE  Attempts'
<1> USE DEF NextPass, history, disk, memory
<1>1. Spare \in Nat /\ MaxTaskRetries <= Spare
  BY DriverAssumption DEF Spare, Numbers
<1>2. /\ TaskShapes
      /\ \A q \in Tasks :
            /\ tasks[q].attempt \in Nat /\ logged[q].attempt \in Nat
            /\ tasks[q].attempt <= Spare + 1 /\ logged[q].attempt <= Spare + 1
            /\ tasks[q].status = "pending" => tasks[q].attempt <= Spare
  BY <1>1 DEF Attempts, AttemptsKnown, AttemptsLogged, TaskShapes, TaskStates
<1>3. CASE Start
  <2>1. TaskShapes'
    BY <1>2, <1>3, FreshTask DEF Start, TaskShapes, Fresh
  <2>2. \A q \in Tasks : tasks'[q].attempt = 0
    BY <1>3, FreshTask DEF Start, Fresh
  <2>3. /\ UNCHANGED <<alive, loggedReplans, crashes, logged>> /\ pc' = "scanning"
    BY <1>3 DEF Start
  <2> QED  BY <1>1, <1>2, <2>1, <2>2, <2>3, MovedAttempts
<1>4. CASE Scan
  <2>1. /\ UNCHANGED <<alive, loggedReplans, crashes>> /\ pc' = "scanning"
    BY <1>4 DEF Scan
  <2> DEFINE t == plan[at].id
  <2>2. CASE UNCHANGED <<tasks, logged>>
    BY <1>1, <1>2, <2>1, <2>2, MovedAttempts DEF TaskShapes
  <2>3. CASE /\ tasks' = [tasks EXCEPT ![t].status = "blocked"]
             /\ logged' = [logged EXCEPT ![t] = TaskState("blocked", tasks[t].attempt, TRUE)]
    <3> HIDE DEF t
    <3>1. TaskShapes'
      <4>1. tasks' \in [Tasks -> TaskStates]
        <5>1. \A q \in Tasks : tasks[q] \in TaskStates  BY <1>2 DEF TaskShapes
        <5>2. \A q \in Tasks : [tasks[q] EXCEPT !.status = "blocked"] \in TaskStates
          BY <5>1 DEF TaskStates, Statuses
        <5> QED  BY <1>2, <2>3, <5>2 DEF TaskShapes
      <4>2. t \in Tasks => TaskState("blocked", tasks[t].attempt, TRUE) \in TaskStates
        BY <1>2 DEF TaskStates, TaskState, Statuses
      <4>3. logged' \in [Tasks -> TaskStates]
        BY <1>2, <2>3, <4>2 DEF TaskShapes
      <4> QED  BY <4>1, <4>3 DEF TaskShapes
    <3>2. \A q \in Tasks :
             /\ tasks'[q].attempt = tasks[q].attempt
             /\ tasks'[q].status \in {tasks[q].status, "blocked"}
             /\ logged'[q].attempt \in {tasks[q].attempt, logged[q].attempt}
      BY <1>2, <2>3 DEF TaskShapes, TaskStates, TaskState
    <3> QED  BY <1>1, <1>2, <2>1, <3>1, <3>2, MovedAttempts
  <2> QED  BY <1>4, <2>2, <2>3 DEF Scan
<1>5. CASE Dispatch
  <2>1. /\ UNCHANGED <<alive, loggedReplans, crashes>> /\ pc' = "starting"
    BY <1>5 DEF Dispatch
  <2>2. PICK t : /\ t \in Ready
                 /\ tasks' = [tasks EXCEPT ![t].status = "running", ![t].attempt = @ + 1]
                 /\ logged' = [logged EXCEPT ![t].status = "ready",
                                             ![t].attempt = tasks[t].attempt + 1]
    BY <1>5 DEF Dispatch
  <2>3. tasks[t].status = "pending"  BY <2>2 DEF Ready, Planned
  <2>4. CASE t \in Tasks
    <3>1. tasks[t].attempt \in Nat /\ tasks[t].attempt <= Spare  BY <1>2, <2>3, <2>4
    <3>2. TaskShapes'
      BY <1>2, <2>2, <2>4, <3>1 DEF TaskShapes, TaskStates, Statuses
    <3>3. \A q \in Tasks :
             /\ q # t => tasks'[q] = tasks[q] /\ logged'[q] = logged[q]
             /\ q = t => /\ tasks'[q].attempt = tasks[q].attempt + 1
                         /\ logged'[q].attempt = tasks[q].attempt + 1
                         /\ tasks'[q].status = "running"
      BY <1>2, <2>2, <2>4 DEF TaskShapes, TaskStates
    <3> QED  BY <1>1, <1>2, <2>1, <3>1, <3>2, <3>3, MovedAttempts
  <2>5. CASE t \notin Tasks
    <3>1. UNCHANGED <<tasks, logged>>  BY <1>2, <2>2, <2>5 DEF TaskShapes
    <3> QED  BY <1>1, <1>2, <2>1, <3>1, MovedAttempts DEF TaskShapes
  <2> QED  BY <2>4, <2>5
<1>6. CASE MarkStarted
  <2>1. /\ UNCHANGED <<alive, loggedReplans, crashes, tasks>> /\ pc' = "executing"
        /\ logged' = [logged EXCEPT ![task].status = "running"]
    BY <1>6 DEF MarkStarted
  <2>2. TaskShapes' /\ \A q \in Tasks : logged'[q].attempt = logged[q].attempt
    <3>1. \A q \in Tasks : logged[q] \in TaskStates  BY <1>2 DEF TaskShapes
    <3>2. \A q \in Tasks : /\ [logged[q] EXCEPT !.status = "running"] \in TaskStates
                            /\ [logged[q] EXCEPT !.status = "running"].attempt = logged[q].attempt
      BY <3>1 DEF TaskStates, Statuses
    <3> QED  BY <1>2, <2>1, <3>2 DEF TaskShapes
  <2> QED  BY <1>1, <1>2, <2>1, <2>2, MovedAttempts
<1>7. CASE Retry
  <2>1. /\ UNCHANGED <<alive, loggedReplans, crashes, logged>> /\ pc' = "scanning"
        /\ tasks' = [tasks EXCEPT ![task].status = "pending", ![task].failed = TRUE]
        /\ tasks[task].attempt <= MaxTaskRetries
    BY <1>7 DEF Retry
  <2>2. /\ TaskShapes'
        /\ \A q \in Tasks : /\ tasks'[q].attempt = tasks[q].attempt
                            /\ q # task => tasks'[q].status = tasks[q].status
    <3>1. \A q \in Tasks :
             /\ q # task => tasks'[q] = tasks[q]
             /\ q = task => /\ tasks'[q].attempt = tasks[q].attempt
                            /\ tasks'[q] = [tasks[q] EXCEPT !.status = "pending", !.failed = TRUE]
      BY <1>2, <2>1 DEF TaskShapes, TaskStates
    <3>2. \A q \in Tasks : tasks[q] \in TaskStates  BY <1>2 DEF TaskShapes
    <3>3. \A q \in Tasks : tasks'[q] \in TaskStates
      <4>1. \A x \in TaskStates : [x EXCEPT !.status = "pending", !.failed = TRUE] \in TaskStates
        BY DEF TaskStates, Statuses
      <4> QED  BY <3>1, <3>2, <4>1
    <3>4. tasks' \in [Tasks -> TaskStates]  BY <1>2, <2>1, <3>3 DEF TaskShapes
    <3> QED  BY <1>2, <2>1, <3>1, <3>4 DEF TaskShapes
  <2>3. \A q \in Tasks : tasks'[q].status = "pending" => tasks'[q].attempt <= Spare
    <3> TAKE q \in Tasks
    <3>1. CASE q = task
      <4>1. /\ tasks'[q].attempt = tasks[q].attempt /\ tasks[q].attempt \in Nat
            /\ tasks[q].attempt <= MaxTaskRetries
        BY <1>2, <2>1, <2>2, <3>1
      <4> QED  BY <1>1, <4>1, DriverAssumption
    <3>2. CASE q # task  BY <1>2, <2>2, <3>2
    <3> QED  BY <3>1, <3>2
  <2> QED  BY <1>1, <1>2, <2>1, <2>2, <2>3, MovedAttempts
<1> QED  BY <1>3, <1>4, <1>5, <1>6, <1>7

\* An amendment starts tasks afresh or makes parked ones pending again: they have
\* the attempt that REPLAN_REQUESTED brought.
LEMMA AmendmentSteps ==
    ASSUME Numbers, Attempts, alive, WritePlan \/ Redispatch \/ CommitAmendment
    PROVE  Attempts'
<1> USE DEF NextPass, history, disk, memory
<1>1. Spare \in Nat  BY DriverAssumption DEF Spare, Numbers
<1>2. /\ TaskShapes
      /\ \A q \in Tasks :
            /\ tasks[q].attempt \in Nat /\ logged[q].attempt \in Nat
            /\ tasks[q].attempt <= Spare + 1 /\ logged[q].attempt <= Spare + 1
            /\ tasks[q].status = "pending" => tasks[q].attempt <= Spare
            /\ pc \in {"amending", "redispatching"} /\ tasks[q].status = "needs_replan" =>
                  tasks[q].attempt <= Spare
  BY <1>1 DEF Attempts, AttemptsKnown, AttemptsLogged, TaskShapes, TaskStates
<1>3. CASE WritePlan
  <2>1. /\ UNCHANGED <<alive, loggedReplans, crashes, logged>>
        /\ pc = "amending" /\ pc' = "redispatching"
    BY <1>3 DEF WritePlan
  <2>2. PICK new : tasks' = [t \in Tasks |-> IF t \in new THEN Pending ELSE tasks[t]]
    BY <1>3 DEF WritePlan
  <2>3. TaskShapes'  BY <1>2, <2>1, <2>2, FreshTask DEF TaskShapes
  <2>4. \A q \in Tasks : tasks'[q].attempt = 0 \/ tasks'[q] = tasks[q]
    BY <2>2, FreshTask
  <2> QED  BY <1>1, <1>2, <2>1, <2>3, <2>4, MovedAttempts
<1>4. CASE Redispatch
  <2>1. /\ UNCHANGED <<alive, loggedReplans, crashes, pc>> /\ pc = "redispatching"
    BY <1>4 DEF Redispatch
  <2>2. PICK t : /\ tasks[t].status = "needs_replan"
                 /\ tasks' = [tasks EXCEPT ![t].status = "pending"]
                 /\ logged' = [logged EXCEPT ![t].status = "ready"]
    BY <1>4 DEF Redispatch, Parked
  <2>3. /\ TaskShapes'
        /\ \A q \in Tasks : /\ tasks'[q].attempt = tasks[q].attempt
                            /\ logged'[q].attempt = logged[q].attempt
                            /\ q # t => tasks'[q].status = tasks[q].status
    <3> DEFINE Again(x) == [x EXCEPT !.status = "pending"]
               Readied(x) == [x EXCEPT !.status = "ready"]
               Moved1(q) == tasks'[q] = tasks[q] \/ tasks'[q] = Again(tasks[q])
               Moved2(q) == logged'[q] = logged[q] \/ logged'[q] = Readied(logged[q])
    <3>1. \A x \in TaskStates :
             /\ Again(x) \in TaskStates /\ Again(x).attempt = x.attempt
             /\ Readied(x) \in TaskStates /\ Readied(x).attempt = x.attempt
      <4> TAKE x \in TaskStates
      <4>1. "pending" \in Statuses /\ "ready" \in Statuses  BY DEF Statuses
      <4> QED  BY <4>1 DEF TaskStates
    <3>2. /\ tasks' = [q \in Tasks |-> tasks'[q]] /\ logged' = [q \in Tasks |-> logged'[q]]
          /\ \A q \in Tasks : tasks[q] \in TaskStates /\ logged[q] \in TaskStates
      BY <1>2, <2>2 DEF TaskShapes
    <3>3. ASSUME NEW q \in Tasks PROVE Moved1(q) /\ Moved2(q) /\ (q # t => tasks'[q] = tasks[q])
      BY <1>2, <2>2 DEF TaskShapes
    <3> HIDE DEF Again, Readied
    <3>4. ASSUME NEW q \in Tasks
          PROVE  /\ tasks'[q] \in TaskStates /\ logged'[q] \in TaskStates
                 /\ tasks'[q].attempt = tasks[q].attempt /\ logged'[q].attempt = logged[q].attempt
      BY <3>1, <3>2, <3>3
    <3>5. TaskShapes'  BY <3>2, <3>4 DEF TaskShapes
    <3> QED  BY <3>3, <3>4, <3>5
  <2>4. \A q \in Tasks : tasks'[q].status \in {"pending", "needs_replan"} =>
                            tasks'[q].attempt <= Spare
    BY <1>2, <2>1, <2>2, <2>3
  <2> QED  BY <1>1, <1>2, <2>1, <2>3, <2>4, MovedAttempts
<1>5. CASE CommitAmendment
  <2>1. /\ UNCHANGED <<alive, loggedReplans, crashes, tasks>> /\ pc' = "scanning"
        /\ logged' = [t \in Tasks |-> Amended(t)]
    BY <1>5 DEF CommitAmendment
  <2>2. \A q \in Tasks : /\ Amended(q) \in TaskStates
                         /\ Amended(q).attempt \in {0, logged[q].attempt}
    BY <1>2, FreshTask DEF Amended, TaskShapes, TaskStates, Statuses
  <2>3. /\ TaskShapes' /\ \A q \in Tasks : logged'[q].attempt \in {0, logged[q].attempt}
    BY <1>2, <2>1, <2>2 DEF TaskShapes
  <2> QED  BY <1>1, <1>2, <2>1, <2>3, MovedAttempts
<1> QED  BY <1>3, <1>4, <1>5

\* A crash pays for the attempt it interrupts; a resume starts from the log.
LEMMA LifeSteps ==
    ASSUME Numbers, Attempts, (alive /\ Refuse) \/ Crash \/ Resume \/ UNCHANGED vars
    PROVE  Attempts'
<1> USE DEF NextPass, history, disk, memory
<1>1. Spare \in Nat  BY DriverAssumption DEF Spare, Numbers
<1>2. /\ TaskShapes
      /\ \A q \in Tasks : tasks[q] \in TaskStates /\ logged[q] \in TaskStates
  BY DEF Attempts, TaskShapes
<1>3. \A q \in Tasks : logged[q].attempt \in Nat  BY <1>2 DEF TaskStates
<1>4. CASE alive /\ Refuse
  <2>1. /\ UNCHANGED <<tasks, logged, loggedReplans, crashes>> /\ ~alive' /\ pc' = "refused"
    BY <1>4 DEF Refuse
  <2>2. Spare' = Spare  BY <2>1 DEF Spare
  <2> QED  BY <1>1, <1>2, <1>4, <2>1, <2>2
           DEF Attempts, TaskShapes, AttemptsKnown, AttemptsLogged
<1>5. CASE Crash
  <2>1. /\ UNCHANGED <<tasks, logged, loggedReplans, pc>> /\ alive /\ ~alive'
        /\ crashes' = crashes + 1
    BY <1>5 DEF Crash
  <2>2. Spare' = Spare + 1  BY <2>1, DriverAssumption DEF Spare, Numbers
  <2>3. \A q \in Tasks : logged[q].attempt <= Spare + 1
    BY <2>1 DEF Attempts, AttemptsLogged
  <2>4. AttemptsLogged'
    BY <1>1, <1>3, <2>1, <2>2, <2>3 DEF AttemptsLogged
  <2>5. AttemptsKnown' /\ TaskShapes'  BY <1>2, <2>1 DEF AttemptsKnown, TaskShapes
  <2> QED  BY <2>4, <2>5 DEF Attempts
<1>6. CASE Resume
  <2>1. /\ UNCHANGED <<logged, loggedReplans, crashes>> /\ alive' /\ pc' = "scanning"
        /\ ~alive /\ pc # "refused"
        /\ tasks' = [t \in Tasks |-> IF t \in Ids(planFile) THEN Interrupted(Replay(t))
                                     ELSE Replay(t)]
    BY <1>6 DEF Resume
  <2>2. \A q \in Tasks : Replay(q) \in TaskStates /\ Replay(q).attempt \in {0, logged[q].attempt}
    BY <1>2, FreshTask DEF Replay
  <2>3. \A q \in Tasks : /\ Interrupted(Replay(q)) \in TaskStates
                         /\ Interrupted(Replay(q)).attempt = Replay(q).attempt
    BY <2>2 DEF Interrupted, TaskStates, Statuses
  <2>4. TaskShapes'  BY <1>2, <2>1, <2>2, <2>3 DEF TaskShapes
  <2>5. \A q \in Tasks : logged[q].attempt <= Spare
    BY <1>1, <1>3, <2>1 DEF Attempts, AttemptsLogged
  <2>6. \A q \in Tasks : tasks'[q].attempt \in Nat /\ tasks'[q].attempt <= Spare
    BY <1>1, <1>3, <2>1, <2>2, <2>3, <2>5
  <2>7. Spare' = Spare  BY <2>1 DEF Spare
  <2>8. AttemptsKnown'  BY <1>1, <2>1, <2>6, <2>7 DEF AttemptsKnown
  <2>9. AttemptsLogged'  BY <1>1, <1>3, <2>1, <2>5, <2>7 DEF AttemptsLogged
  <2> QED  BY <2>4, <2>8, <2>9 DEF Attempts
<1>7. CASE UNCHANGED vars
  <2>1. UNCHANGED <<alive, pc, tasks, logged, loggedReplans, crashes>>
    BY <1>7 DEF vars
  <2> QED  BY <2>1 DEF Attempts, TaskShapes, AttemptsKnown, AttemptsLogged, Spare
<1> QED  BY <1>4, <1>5, <1>6, <1>7

LEMMA AttemptsKept == ASSUME Numbers, Attempts, [Next]_vars PROVE Attempts'
BY TransitionSteps, QuietSteps, LaunchSteps, AmendmentSteps, LifeSteps
DEF Next, Drive, Transition, Quiet

LEMMA WithinLimits == Numbers /\ Calls /\ Replans /\ Attempts => Bounded
<1> SUFFICES ASSUME Numbers, Calls, Replans, Attempts PROVE Bounded
  OBVIOUS
<1>1. \A t \in Tasks : logged[t].attempt \in Nat
  BY DEF Attempts, TaskShapes, TaskStates
<1>2. \A t \in Tasks : logged[t].attempt <= MaxTaskRetries + 1 + loggedReplans + crashes
  BY <1>1, DriverAssumption DEF Numbers, Attempts, AttemptsLogged, Spare
<1> QED  BY <1>2 DEF Bounded, Calls, Replans, AttemptsBounded

\* The limits of config.execution (runtime/src/apply.ts: the reservation of a call,
\* the retry test, the replan budget) hold over all lives of a run together, for any
\* plans and amendments and any number of crashes.
THEOREM Limits == Spec => []Bounded
<1>1. Init => Numbers /\ Calls /\ Replans /\ Attempts  BY StartNumbers, StartAttempts
<1>2. Numbers /\ Calls /\ Replans /\ Attempts /\ [Next]_vars =>
          (Numbers /\ Calls /\ Replans /\ Attempts)'
  BY CountersKept, AttemptsKept
<1> QED  BY <1>1, <1>2, WithinLimits, PTL DEF Spec

-----------------------------------------------------------------------------
(* Recursion over the positions of a sequence, as Without and ApplyAmendment *)
(* use it.  The library's induction theorems take an operator; these follow  *)
(* from its well-foundedness of finite sets under inclusion.                 *)

\* Every set of numbers that is not empty has a least one.
LEMMA Least ==
    ASSUME NEW T \in SUBSET Nat, T # {}
    PROVE  \E m \in T : \A k \in T : m <= k
<1> DEFINE R == StrictSubsetOrdering(Nat)
           F == {1..n : n \in T}
<1>1. IsWellFoundedOn(R, FiniteSubsetsOf(Nat))  BY FS_StrictSubsetOrderingWellFounded
<1>2. F \subseteq FiniteSubsetsOf(Nat) /\ F # {}
  <2>1. ASSUME NEW n \in T PROVE 1..n \in FiniteSubsetsOf(Nat)
    <3>1. n \in Int /\ 1 \in Int  OBVIOUS
    <3>2. IsFiniteSet(1..n)  BY <3>1, FS_Interval
    <3>3. 1..n \in SUBSET Nat  OBVIOUS
    <3> QED  BY <3>2, <3>3 DEF FiniteSubsetsOf
  <2>2. PICK n : n \in T  OBVIOUS
  <2>3. 1..n \in F  BY <2>2
  <2> QED  BY <2>1, <2>3
<1>3. PICK x \in F : \A y \in F : <<y, x>> \notin R
  <2> HIDE DEF R, F
  <2> QED  BY <1>1, <1>2, WFMin
<1>4. PICK m \in T : x = 1..m  BY <1>3
<1>5. ASSUME NEW k \in T, k < m PROVE FALSE
  <2>1. 1..k \subseteq 1..m /\ m \in 1..m /\ m \notin 1..k  BY <1>5
  <2>2. <<1..k, 1..m>> \in R  BY <2>1 DEF StrictSubsetOrdering
  <2> QED  BY <1>3, <1>4, <2>2
<1> QED  BY <1>5

LEMMA Induct ==
    ASSUME NEW S \in SUBSET Nat, 0 \in S, \A n \in S : n + 1 \in S
    PROVE  S = Nat
<1>1. SUFFICES ASSUME S # Nat PROVE FALSE
  OBVIOUS
<1> DEFINE T == Nat \ S
<1>2. PICK m \in T : \A k \in T : m <= k
  <2>1. T \in SUBSET Nat /\ T # {}  BY <1>1
  <2> HIDE DEF T
  <2> QED  BY <2>1, Least
<1>3. m # 0 /\ m - 1 \in Nat  BY <1>2
<1>4. m - 1 \in S  BY <1>2, <1>3
<1>5. (m - 1) + 1 = m  BY <1>3
<1> QED  BY <1>2, <1>4, <1>5

\* What a recursion over the positions of a sequence defines.
Moves(D) == [Nat -> [D -> D]]
Tracks(f, D, p, s, n) ==
    f \in [0..n -> D] /\ f[0] = p /\ \A i \in 1..n : f[i] = s[i][f[i - 1]]

LEMMA Recursion ==
    ASSUME NEW D, NEW p \in D, NEW s \in Moves(D), NEW n \in Nat
    PROVE  \E f : Tracks(f, D, p, s, n)
<1> USE DEF Moves
<1> DEFINE Good == {k \in Nat : \E f \in [0..k -> D] :
                        f = [i \in 0..k |-> IF i = 0 THEN p ELSE s[i][f[i - 1]]]}
<1>1. 0 \in Good
  <2> DEFINE f == [i \in 0..0 |-> p]
  <2>1. f \in [0..0 -> D] /\ f = [i \in 0..0 |-> IF i = 0 THEN p ELSE s[i][f[i - 1]]]
    OBVIOUS
  <2> HIDE DEF f
  <2> QED  BY <2>1
<1>2. ASSUME NEW k \in Good PROVE k + 1 \in Good
  <2>1. PICK f \in [0..k -> D] : f = [i \in 0..k |-> IF i = 0 THEN p ELSE s[i][f[i - 1]]]
    OBVIOUS
  <2> DEFINE g == [i \in 0..(k + 1) |-> IF i = 0 THEN p ELSE s[i][f[i - 1]]]
  <2>2. \A i \in 0..(k + 1) : i = 0 \/ i - 1 \in 0..k  OBVIOUS
  <2>3. \A i \in 0..k : g[i] = f[i]  BY <2>1
  <2>4. g \in [0..(k + 1) -> D]  BY <2>2
  <2>5. g = [i \in 0..(k + 1) |-> IF i = 0 THEN p ELSE s[i][g[i - 1]]]
    <3>1. \A i \in 0..(k + 1) : i = 0 \/ g[i - 1] = f[i - 1]  BY <2>2, <2>3
    <3> QED  BY <3>1
  <2> HIDE DEF g
  <2>6. k + 1 \in Nat  OBVIOUS
  <2> QED  BY <2>4, <2>5, <2>6
<1>3. Good = Nat
  <2>1. Good \in SUBSET Nat  OBVIOUS
  <2> HIDE DEF Good
  <2> QED  BY <1>1, <1>2, <2>1, Induct
<1>4. PICK f \in [0..n -> D] : f = [i \in 0..n |-> IF i = 0 THEN p ELSE s[i][f[i - 1]]]
  BY <1>3
<1>5. f[0] = p /\ \A i \in 1..n : f[i] = s[i][f[i - 1]]
  <2>1. \A i \in 1..n : i \in 0..n /\ i # 0  OBVIOUS
  <2> QED  BY <1>4, <2>1
<1> QED  BY <1>5 DEF Tracks

\* A property of the start that every step keeps holds in the end.
LEMMA Onward ==
    ASSUME NEW n \in Nat, NEW P \in SUBSET Nat, 0 \in P,
           \A k \in P : k < n => k + 1 \in P
    PROVE  n \in P
<1> DEFINE S == {k \in Nat : k <= n => k \in P}
<1>1. S = Nat
  <2>1. S \in SUBSET Nat /\ 0 \in S  OBVIOUS
  <2>2. \A k \in S : k + 1 \in S  OBVIOUS
  <2> HIDE DEF S
  <2> QED  BY <2>1, <2>2, Induct
<1> QED  BY <1>1

-----------------------------------------------------------------------------
(* Amendments. *)

\* The plan has a task of that id with those write targets.
Has(p, t, ws) == \E i \in DOMAIN p : p[i].id = t /\ p[i].writes = ws

LEMMA HasKnown ==
    ASSUME NEW p, NEW t
    PROVE  /\ t \in Ids(p) <=> \E ws : Has(p, t, ws)
           /\ \A e : e \in WritesOf(p, t) <=> \E ws : Has(p, t, ws) /\ e \in ws
BY DEF Has, Ids, WritesOf

LEMMA HasAppended ==
    ASSUME NEW p \in Seq(PlanTasks), NEW x \in PlanTasks, NEW t, NEW ws
    PROVE  Has(Append(p, x), t, ws) <=> Has(p, t, ws) \/ (x.id = t /\ x.writes = ws)
<1> DEFINE q == Append(p, x)
           n == Len(p)
<1>1. /\ n \in Nat /\ DOMAIN p = 1..n /\ DOMAIN q = 1..(n + 1)
      /\ q[n + 1] = x /\ \A i \in 1..n : q[i] = p[i]
  OBVIOUS
<1> HIDE DEF q, n
<1>2. \A i : i \in 1..(n + 1) <=> i \in 1..n \/ i = n + 1  BY <1>1
<1>3. Has(q, t, ws) <=> \E i \in 1..(n + 1) : q[i].id = t /\ q[i].writes = ws
  BY <1>1 DEF Has
<1>4. Has(p, t, ws) <=> \E i \in 1..n : p[i].id = t /\ p[i].writes = ws
  BY <1>1 DEF Has
<1>5. Has(q, t, ws) <=> Has(p, t, ws) \/ (x.id = t /\ x.writes = ws)
  BY <1>1, <1>2, <1>3, <1>4
<1> QED  BY <1>5 DEF q

LEMMA WithoutRest ==
    ASSUME NEW p \in Seq(PlanTasks), NEW t
    PROVE  /\ Without(p, t) \in Seq(PlanTasks)
           /\ \A u, ws : u # t => (Has(Without(p, t), u, ws) <=> Has(p, u, ws))
<1> DEFINE D == Seq(PlanTasks)
           Put(x, i) == IF p[i].id = t THEN x ELSE Append(x, p[i])
           s == [i \in Nat |-> [x \in D |-> IF i \in 1..Len(p) THEN Put(x, i) ELSE x]]
           n == Len(p)
           Solves(f) == f = [i \in 0..n |-> IF i = 0 THEN <<>> ELSE Put(f[i - 1], i)]
           kept == CHOOSE f : Solves(f)
<1>1. n \in Nat /\ <<>> \in D /\ (\A i \in 1..n : p[i] \in PlanTasks)  OBVIOUS
<1>2. Without(p, t) = kept[n]  BY DEF Without
<1>3. \A x \in D : \A i \in 1..n : Put(x, i) \in D  BY <1>1
<1>4. s \in Moves(D)  BY <1>3 DEF Moves
<1>5. \A x \in D : \A i \in 1..n : s[i][x] = Put(x, i)  OBVIOUS
<1>6. \A x \in D : \A i \in 1..n : \A u, ws : u # t =>
          (Has(Put(x, i), u, ws) <=> Has(x, u, ws) \/ (p[i].id = u /\ p[i].writes = ws))
  BY <1>1, HasAppended
<1>7. ~\E u, ws : Has(<<>>, u, ws)  BY DEF Has
<1>8. \A u, ws : Has(p, u, ws) <=> \E i \in 1..n : p[i].id = u /\ p[i].writes = ws
  BY DEF Has
<1> HIDE DEF D, Put, s, n
<1>9. PICK f : Tracks(f, D, <<>>, s, n)  BY <1>1, <1>4, Recursion
<1>10. \A i \in 0..n : i = 0 \/ (i \in 1..n /\ i - 1 \in 0..n)  BY <1>1
<1>11. Solves(f)
  <2>1. f \in [0..n -> D] /\ f[0] = <<>> /\ \A i \in 1..n : f[i] = s[i][f[i - 1]]
    BY <1>9 DEF Tracks
  <2>2. \A i \in 0..n : i = 0 \/ s[i][f[i - 1]] = Put(f[i - 1], i)  BY <1>5, <1>10, <2>1
  <2> QED  BY <1>10, <2>1, <2>2
<1>12. kept = [i \in 0..n |-> IF i = 0 THEN <<>> ELSE Put(kept[i - 1], i)]
  <2>1. Solves(kept)
    <3> HIDE DEF Solves
    <3> QED  BY <1>11
  <2> HIDE DEF kept
  <2> QED  BY <2>1
<1> HIDE DEF kept
<1> DEFINE Told(q, k) == /\ q \in D
                         /\ \A u, ws : u # t =>
                              (Has(q, u, ws) <=> \E i \in 1..k : p[i].id = u /\ p[i].writes = ws)
           P == {k \in 0..n : Told(kept[k], k)}
<1>13. 0 \in P  BY <1>1, <1>7, <1>12
<1>14. ASSUME NEW k \in P, k < n PROVE k + 1 \in P
  <2>1. k + 1 \in 1..n /\ k + 1 \in 0..n /\ (k + 1) - 1 = k /\ k + 1 # 0  BY <1>1, <1>14
  <2>2. kept[k + 1] = Put(kept[k], k + 1)  BY <1>12, <2>1
  <2>3. \A i : i \in 1..(k + 1) <=> i \in 1..k \/ i = k + 1  BY <2>1
  <2>4. Told(kept[k], k)  OBVIOUS
  <2>5. kept[k + 1] \in D  BY <1>3, <2>1, <2>2, <2>4
  <2>6. ASSUME NEW u, NEW ws, u # t
        PROVE Has(kept[k + 1], u, ws) <=> \E i \in 1..(k + 1) : p[i].id = u /\ p[i].writes = ws
    BY <1>6, <2>1, <2>2, <2>3, <2>4, <2>6
  <2> QED  BY <2>1, <2>5, <2>6
<1>15. n \in P
  <2>1. P \in SUBSET Nat  OBVIOUS
  <2> HIDE DEF P
  <2> QED  BY <1>1, <1>13, <1>14, <2>1, Onward
<1> QED  BY <1>2, <1>8, <1>15 DEF D

\* The plans differ in no write target of that task.
Same(p, q, t) == \A ws : Has(q, t, ws) <=> Has(p, t, ws)


LEMMA Rewired ==
    ASSUME NEW p \in Seq(PlanTasks), NEW d, NEW ts \in SUBSET Tasks
    PROVE  /\ Rewire(p, d, ts) \in Seq(PlanTasks)
           /\ \A t : Same(p, Rewire(p, d, ts), t)
<1> DEFINE x(i) == [p[i] EXCEPT !.deps = IF d \in @ THEN (@ \ {d}) \cup ts ELSE @]
<1>1. \A i \in 1..Len(p) : p[i] \in PlanTasks  OBVIOUS
<1>2. \A i \in 1..Len(p) : x(i) \in PlanTasks /\ x(i).id = p[i].id /\ x(i).writes = p[i].writes
  BY <1>1 DEF PlanTasks
<1>3. Rewire(p, d, ts) = [i \in 1..Len(p) |-> x(i)]  BY DEF Rewire
<1> HIDE DEF x
<1>4. [i \in 1..Len(p) |-> x(i)] \in Seq(PlanTasks)  BY <1>2
<1>5. \A t, ws : Has([i \in 1..Len(p) |-> x(i)], t, ws) <=> Has(p, t, ws)
  BY <1>2 DEF Has
<1> QED  BY <1>3, <1>4, <1>5 DEF Same

LEMMA OperationKeeps ==
    ASSUME NEW p \in Seq(PlanTasks), NEW op \in Operations, NEW executed
    PROVE  /\ Operation(p, op, executed) \in Seq(PlanTasks)
           /\ Operation(p, op, executed) # <<>> =>
                 \A t \in executed \cap Ids(p) : Same(p, Operation(p, op, executed), t)
<1> DEFINE q == Operation(p, op, executed)
           E == executed \cap Ids(p)
           Fine(r) == r \in Seq(PlanTasks) /\ \A t \in E : Same(p, r, t)
           replaced == [i \in DOMAIN p |-> IF p[i].id = op.task THEN op.by ELSE p[i]]
           retargeted == [i \in DOMAIN p |-> IF p[i].id = op.task
                                             THEN [p[i] EXCEPT !.writes = op.writes] ELSE p[i]]
<1>1. \A i \in DOMAIN p : p[i] \in PlanTasks /\ p[i].id \in Ids(p)  BY DEF Ids
<1>2. CASE op.op = "addTask" /\ op.by.id \notin Ids(p)
  <2>1. op.by \in PlanTasks  BY <1>2 DEF Operations
  <2>2. Fine(Append(p, op.by))
    <3>1. \A t \in E : t # op.by.id  BY <1>2
    <3> QED  BY <2>1, <3>1, HasAppended DEF Same
  <2>3. q = Append(p, op.by)  BY <1>2 DEF Operation
  <2> QED  BY <2>2, <2>3
<1>3. CASE op.op = "removeTask" /\ op.task \in Ids(p) /\ op.task \notin executed
  <2>1. q = Rewire(Without(p, op.task), op.task, {})  BY <1>3 DEF Operation
  <2>2. Fine(Without(p, op.task))  BY <1>3, WithoutRest DEF Same
  <2> QED  BY <2>1, <2>2, Rewired DEF Same
<1>4. CASE op.op = "replaceTask" /\ op.task \in Ids(p) /\ op.task \notin executed
           /\ op.by.id \notin Ids(p) \ {op.task}
  <2>1. op.by \in PlanTasks /\ op.by.id \in Tasks  BY <1>4 DEF Operations, PlanTasks
  <2>2. Fine(replaced)
    <3>1. ASSUME NEW t \in E PROVE t # op.task /\ t # op.by.id  BY <1>4
    <3>2. \A i \in DOMAIN p : replaced[i] \in PlanTasks  BY <1>1, <2>1
    <3>3. replaced \in Seq(PlanTasks)  BY <3>2
    <3>4. \A t \in E : \A i \in DOMAIN p :
             /\ replaced[i].id = t <=> p[i].id = t
             /\ p[i].id = t => replaced[i].writes = p[i].writes
      BY <3>1
    <3>5. DOMAIN replaced = DOMAIN p  OBVIOUS
    <3> HIDE DEF replaced
    <3> QED  BY <3>3, <3>4, <3>5 DEF Same, Has
  <2>3. q = IF op.by.id = op.task THEN replaced ELSE Rewire(replaced, op.task, {op.by.id})
    BY <1>4 DEF Operation
  <2> HIDE DEF replaced
  <2> QED  BY <2>1, <2>2, <2>3, Rewired DEF Same
<1>5. CASE op.op = "addDependency" /\ {op.task, op.on} \subseteq Ids(p)
           /\ ~FindCycle(AddDep(p, op.task, op.on))
  <2>1. op.on \in Tasks  BY <1>5 DEF Operations
  <2> DEFINE r == AddDep(p, op.task, op.on)
  <2>2. q = r  BY <1>5 DEF Operation
  <2>3. \A i \in DOMAIN p : r[i] \in PlanTasks /\ r[i].id = p[i].id /\ r[i].writes = p[i].writes
    BY <1>1, <2>1 DEF AddDep, PlanTasks
  <2>4. r \in Seq(PlanTasks) /\ DOMAIN r = DOMAIN p  BY <2>3 DEF AddDep
  <2> HIDE DEF r
  <2>5. Fine(r)  BY <2>3, <2>4 DEF Same, Has
  <2> QED  BY <2>2, <2>5
<1>6. CASE op.op = "changeTarget" /\ op.task \in Ids(p) /\ op.task \notin executed
  <2>1. op.writes \in SUBSET Seq(STRING)  BY <1>6 DEF Operations
  <2>2. q = retargeted  BY <1>6 DEF Operation
  <2>3. /\ DOMAIN retargeted = DOMAIN p /\ retargeted \in Seq(PlanTasks)
        /\ \A i \in DOMAIN p :
              /\ retargeted[i].id = p[i].id
              /\ p[i].id # op.task => retargeted[i].writes = p[i].writes
    BY <1>1, <2>1 DEF PlanTasks
  <2> HIDE DEF retargeted
  <2>4. Fine(retargeted)  BY <1>6, <2>3 DEF Same, Has
  <2> QED  BY <2>2, <2>4
<1>7. CASE /\ ~(op.op = "addTask" /\ op.by.id \notin Ids(p))
           /\ ~(op.op = "removeTask" /\ op.task \in Ids(p) /\ op.task \notin executed)
           /\ ~(op.op = "replaceTask" /\ op.task \in Ids(p) /\ op.task \notin executed
                /\ op.by.id \notin Ids(p) \ {op.task})
           /\ ~(op.op = "addDependency" /\ {op.task, op.on} \subseteq Ids(p)
                /\ ~FindCycle(AddDep(p, op.task, op.on)))
           /\ ~(op.op = "changeTarget" /\ op.task \in Ids(p) /\ op.task \notin executed)
  <2>1. q = <<>>  BY <1>7 DEF Operation
  <2> QED  BY <2>1
<1> QED  BY <1>2, <1>3, <1>4, <1>5, <1>6, <1>7

LEMMA SameStays ==
    ASSUME NEW p, NEW q, NEW t, Same(p, q, t)
    PROVE  (t \in Ids(q) <=> t \in Ids(p)) /\ WritesOf(q, t) = WritesOf(p, t)
<1>1. t \in Ids(q) <=> t \in Ids(p)  BY HasKnown DEF Same
<1>2. \A e : e \in WritesOf(q, t) <=> e \in WritesOf(p, t)  BY HasKnown DEF Same
<1>3. WritesOf(q, t) = WritesOf(p, t)
  <2> HIDE DEF WritesOf
  <2> QED  BY <1>2
<1> QED  BY <1>1, <1>3

\* An amendment that is not refused keeps every task that was executed, with the
\* targets it was allowed to write, whatever operations it chains (applyPlanAmendment
\* of core/src/amendment/apply.ts: assertNotExecuted and the checks for a known id).
THEOREM AmendmentKeeps ==
    ASSUME NEW p \in Seq(PlanTasks), NEW ops \in Seq(Operations), NEW executed
    PROVE  LET q == ApplyAmendment(p, ops, executed) IN
           /\ q \in Seq(PlanTasks)
           /\ q # <<>> => \A t \in executed \cap Ids(p) :
                             t \in Ids(q) /\ WritesOf(q, t) = WritesOf(p, t)
<1> DEFINE D == Seq(PlanTasks)
           Put(x, i) == IF x = <<>> THEN <<>> ELSE Operation(x, ops[i], executed)
           s == [i \in Nat |-> [x \in D |-> IF i \in 1..Len(ops) THEN Put(x, i) ELSE x]]
           n == Len(ops)
           Solves(f) == f = [i \in 0..n |-> IF i = 0 THEN p ELSE Put(f[i - 1], i)]
           after == CHOOSE f : Solves(f)
           E == executed \cap Ids(p)
           Fine(x) == x \in D /\ (x # <<>> => \A t \in E : Same(p, x, t))
<1>1. n \in Nat /\ p \in D /\ <<>> \in D /\ (\A i \in 1..n : ops[i] \in Operations)  OBVIOUS
<1>2. ApplyAmendment(p, ops, executed) =
          IF after[n] = <<>> \/ FindCycle(after[n]) THEN <<>> ELSE after[n]
  BY DEF ApplyAmendment
<1>3. \A x \in D : \A i \in 1..n : Put(x, i) \in D  BY <1>1, OperationKeeps
<1>4. s \in Moves(D)  BY <1>3 DEF Moves
<1>5. \A x \in D : \A i \in 1..n : s[i][x] = Put(x, i)  OBVIOUS
<1>6. ASSUME NEW x, Fine(x), NEW i \in 1..n PROVE Fine(Put(x, i))
  <2>1. CASE x = <<>>  BY <2>1
  <2>2. CASE x # <<>>
    <3> DEFINE y == Operation(x, ops[i], executed)
    <3>1. \A t \in E : t \in executed \cap Ids(x)  BY <1>6, <2>2, HasKnown DEF Same
    <3>2. y \in D /\ (y # <<>> => \A t \in E : Same(x, y, t))
      BY <1>1, <1>6, <3>1, OperationKeeps
    <3>3. Put(x, i) = y  BY <2>2
    <3> HIDE DEF y, Put
    <3> QED  BY <1>6, <2>2, <3>2, <3>3 DEF Same
  <2> QED  BY <2>1, <2>2
<1> HIDE DEF D, Put, s, n
<1>7. PICK f : Tracks(f, D, p, s, n)  BY <1>1, <1>4, Recursion
<1>8. \A i \in 0..n : i = 0 \/ (i \in 1..n /\ i - 1 \in 0..n)  BY <1>1
<1>9. Solves(f)
  <2>1. f \in [0..n -> D] /\ f[0] = p /\ \A i \in 1..n : f[i] = s[i][f[i - 1]]
    BY <1>7 DEF Tracks
  <2>2. \A i \in 0..n : i = 0 \/ s[i][f[i - 1]] = Put(f[i - 1], i)  BY <1>5, <1>8, <2>1
  <2> QED  BY <1>8, <2>1, <2>2
<1>10. after = [i \in 0..n |-> IF i = 0 THEN p ELSE Put(after[i - 1], i)]
  <2>1. Solves(after)
    <3> HIDE DEF Solves
    <3> QED  BY <1>9
  <2> HIDE DEF after
  <2> QED  BY <2>1
<1> HIDE DEF after
<1> DEFINE P == {k \in 0..n : Fine(after[k])}
<1>11. 0 \in P  BY <1>1, <1>10 DEF Same
<1>12. ASSUME NEW k \in P, k < n PROVE k + 1 \in P
  <2>1. k + 1 \in 1..n /\ k + 1 \in 0..n /\ (k + 1) - 1 = k /\ k + 1 # 0  BY <1>1, <1>12
  <2>2. after[k + 1] = Put(after[k], k + 1)  BY <1>10, <2>1
  <2>3. Fine(after[k])  OBVIOUS
  <2> HIDE DEF Fine
  <2> QED  BY <1>6, <2>1, <2>2, <2>3
<1>13. Fine(after[n])
  <2>1. P \in SUBSET Nat  OBVIOUS
  <2>2. n \in P
    <3> HIDE DEF P
    <3> QED  BY <1>1, <1>11, <1>12, <2>1, Onward
  <2> QED  BY <2>2
<1> DEFINE q == ApplyAmendment(p, ops, executed)
<1>14. Fine(q)  BY <1>1, <1>2, <1>13
<1> HIDE DEF q
<1>15. /\ q \in Seq(PlanTasks)
       /\ q # <<>> => \A t \in E : t \in Ids(q) /\ WritesOf(q, t) = WritesOf(p, t)
  BY <1>14, SameStays DEF D
<1> QED  BY <1>15 DEF q

-----------------------------------------------------------------------------
(***************************************************************************)
(* Between them the steps of a run keep its memory, its log and its plan   *)
(* file apart by no more than this.                                        *)
(***************************************************************************)
Driven == pc \notin {"preflight", "refused"}

\* There is no log before there is a run.
Unbegun ==
    /\ pc = "preflight" => alive
    /\ ~Driven => plan = <<>> /\ \A t \in Tasks : logged[t] = None
    /\ \A t \in Tasks : logged[t].status = "none" => logged[t] = None

\* What the driver knows of a planned task, and what of one that was dropped.
Synced ==
    /\ Driven => \A t \in Ids(plan) :
        /\ tasks[t].attempt = logged[t].attempt
        /\ \A s \in {"completed", "failed", "blocked"} :
              tasks[t].status = s <=> logged[t].status = s
    /\ \A t \in Tasks : \A s \in {"completed", "skipped"} :
          tasks[t].status = s => logged[t].status = s

\* The task under way.
Working ==
    pc \in {"starting", "executing", "calling", "answered"} =>
        /\ task \in Ids(plan)
        /\ tasks[task].status = "running"
        /\ logged[task].status = (IF pc = "starting" THEN "ready" ELSE "running")
        /\ \A d \in DepsOf(plan, task) : Met(d)

\* The plan file leaves the plan only while an amendment is under way, and keeps
\* what was completed.
Filed ==
    /\ Driven /\ pc # "redispatching" => plan = planFile
    /\ pc = "redispatching" =>
          /\ \A t \in Ids(planFile) \ Ids(plan) : tasks[t] = Pending
          /\ \A t \in Ids(plan) : tasks[t].status = "completed" =>
                t \in Ids(planFile) /\ WritesOf(planFile, t) = WritesOf(plan, t)

\* Whatever was completed is in the plan.
DonePlanned ==
    Driven => \A t \in Tasks : logged[t].status = "completed" => t \in Ids(plan)



Places ==
    /\ alive \in BOOLEAN /\ pc \in Steps
    /\ plan \in Seq(PlanTasks) /\ planFile \in Seq(PlanTasks)
    /\ at \in Nat /\ task \in Tasks \cup {"none"}
    /\ cancelled \in BOOLEAN /\ anyFailed \in BOOLEAN /\ blocking \in BOOLEAN
    /\ outcome \in Outcomes /\ ended \in RunStatuses \cup {"none"}

LEMMA PlanIds ==
    ASSUME NEW p \in Seq(PlanTasks)
    PROVE  /\ Ids(p) \subseteq Tasks /\ (\A t : DepsOf(p, t) \subseteq Tasks)
           /\ \A i \in DOMAIN p : p[i].id \in Ids(p)
<1>1. \A i \in DOMAIN p : p[i] \in PlanTasks  OBVIOUS
<1>2. \A i \in DOMAIN p : p[i].id \in Tasks /\ p[i].deps \subseteq Tasks
  BY <1>1 DEF PlanTasks
<1> QED  BY <1>2 DEF Ids, DepsOf

LEMMA PlacesKept == ASSUME Places, [Next]_vars PROVE Places'
<1> USE DEF Places, memory, disk, history, NextPass, Steps, Outcomes, RunStatuses
<1>1. CASE Start  BY <1>1 DEF Start
<1>2. CASE Refuse  BY <1>2 DEF Refuse
<1>3. CASE Scan  BY <1>3 DEF Scan
<1>4. CASE ScanDone  BY <1>4 DEF ScanDone
<1>5. CASE Conclude  BY <1>5 DEF Conclude
<1>6. CASE Dispatch
  <2>1. PICK i \in DOMAIN plan : task' = plan[i].id  BY <1>6 DEF Dispatch
  <2>2. task' \in Tasks  BY <2>1, PlanIds
  <2> QED  BY <1>6, <2>2 DEF Dispatch
<1>7. CASE MarkStarted  BY <1>7 DEF MarkStarted
<1>8. CASE Reserve  BY <1>8 DEF Reserve
<1>9. CASE Verify  BY <1>9 DEF Verify, Drafts
<1>10. CASE CallProvider  BY <1>10 DEF CallProvider, Drafts
<1>11. CASE Complete  BY <1>11 DEF Complete
<1>12. CASE Retry  BY <1>12 DEF Retry
<1>13. CASE Fail  BY <1>13 DEF Fail
<1>14. CASE Block  BY <1>14 DEF Block, ObserveCancellation
<1>15. CASE NeedReplan  BY <1>15 DEF NeedReplan
<1>16. CASE RequestReplan  BY <1>16 DEF RequestReplan
<1>17. CASE FailReplan  BY <1>17 DEF FailReplan
<1>18. CASE WritePlan
  <2>1. PICK ops \in Amendments : planFile' = AmendedPlan(ops)  BY <1>18 DEF WritePlan
  <2>2. ops \in Seq(Operations)  BY DriverAssumption
  <2>3. planFile' \in Seq(PlanTasks)  BY <2>1, <2>2, AmendmentKeeps DEF AmendedPlan
  <2> QED  BY <1>18, <2>3 DEF WritePlan
<1>19. CASE Redispatch  BY <1>19 DEF Redispatch
<1>20. CASE CommitAmendment  BY <1>20 DEF CommitAmendment
<1>21. CASE Finish  BY <1>21 DEF Finish
<1>22. CASE Crash  BY <1>22 DEF Crash
<1>23. CASE Resume  BY <1>23 DEF Resume
<1>24. CASE UNCHANGED vars  BY <1>24 DEF vars
<1> QED
  BY <1>1, <1>2, <1>3, <1>4, <1>5, <1>6, <1>7, <1>8, <1>9, <1>10, <1>11, <1>12, <1>13,
     <1>14, <1>15, <1>16, <1>17, <1>18, <1>19, <1>20, <1>21, <1>22, <1>23, <1>24
  DEF Next, Drive

Typed == Places /\ TaskShapes
Steady == Unbegun /\ Synced /\ Working /\ Filed /\ DonePlanned
AtWork == {"starting", "executing", "calling", "answered"}

\* A step that changes no task, no log and no plan.
LEMMA Idle ==
    ASSUME Typed, Steady, UNCHANGED <<plan, planFile, tasks, logged>>,
           Driven <=> Driven', pc' = "preflight" => alive',
           pc' \in AtWork => /\ pc \in AtWork /\ task' = task
                             /\ pc' = "starting" <=> pc = "starting",
           pc' = "redispatching" <=> pc = "redispatching"
    PROVE  Steady'
<1>1. Unbegun' /\ Synced' /\ DonePlanned' /\ Filed'
  BY DEF Steady, Unbegun, Synced, DonePlanned, Filed
<1>2. Working'  BY DEF Steady, Working, AtWork, Met
<1> QED  BY <1>1, <1>2 DEF Steady

\* A step on one task of the plan.
LEMMA OneTask ==
    ASSUME Typed, Steady, Driven, Driven', UNCHANGED <<plan, planFile>>,
           NEW t \in Ids(plan),
           \A q \in Tasks : q # t => tasks'[q] = tasks[q] /\ logged'[q] = logged[q],
           tasks'[t].attempt = logged'[t].attempt,
           \A s \in {"completed", "failed", "blocked"} :
              tasks'[t].status = s <=> logged'[t].status = s,
           tasks'[t].status = "skipped" => logged'[t].status = "skipped",
           logged'[t].status # "none"
    PROVE  Unbegun' /\ Synced' /\ DonePlanned'
<1>1. Ids(plan) \subseteq Tasks  BY PlanIds DEF Typed, Places
<1>2. Unbegun'  BY DEF Steady, Unbegun, Driven
<1>3. DonePlanned'  BY DEF Steady, DonePlanned
<1>4. Synced'
  <2>1. ASSUME NEW q \in Ids(plan)
        PROVE  /\ tasks'[q].attempt = logged'[q].attempt
               /\ \A s \in {"completed", "failed", "blocked"} :
                     tasks'[q].status = s <=> logged'[q].status = s
    BY <1>1 DEF Steady, Synced
  <2>2. ASSUME NEW q \in Tasks, NEW s \in {"completed", "skipped"}, tasks'[q].status = s
        PROVE  logged'[q].status = s
    BY <2>2 DEF Steady, Synced
  <2> QED  BY <2>1, <2>2 DEF Synced
<1> QED  BY <1>2, <1>3, <1>4

\* The same where no task is under way after it, and the plan file stays.
LEMMA OneTaskLeft ==
    ASSUME Typed, Steady, Driven, UNCHANGED <<plan, planFile>>,
           pc # "redispatching", pc' \in {"scanning", "replanning"},
           NEW t \in Ids(plan),
           \A q \in Tasks : q # t => tasks'[q] = tasks[q] /\ logged'[q] = logged[q],
           tasks'[t].attempt = logged'[t].attempt,
           \A s \in {"completed", "failed", "blocked"} :
              tasks'[t].status = s <=> logged'[t].status = s,
           tasks'[t].status = "skipped" => logged'[t].status = "skipped",
           logged'[t].status # "none"
    PROVE  Steady'
<1>1. Driven'  BY DEF Driven
<1>2. Unbegun' /\ Synced' /\ DonePlanned'  BY <1>1, OneTask
<1>3. Working' /\ Filed'  BY DEF Steady, Working, Filed, Driven
<1> QED  BY <1>2, <1>3 DEF Steady

\* What a step of the driver on a task leaves in the log.
LEMMA Recorded ==
    ASSUME Typed, NEW t \in Tasks, NEW s \in Statuses, NEW f \in BOOLEAN, Record(t, s, f)
    PROVE  /\ \A q \in Tasks : q # t => tasks'[q] = tasks[q] /\ logged'[q] = logged[q]
           /\ tasks'[t].attempt = logged'[t].attempt
           /\ tasks'[t].status = s /\ logged'[t].status = s
BY DEF Typed, TaskShapes, TaskStates, TaskState, Record

LEMMA TransitionSteady ==
    ASSUME Typed, Steady, Transition PROVE Steady'
<1>1. /\ pc \in {"answered", "executing"} /\ UNCHANGED <<plan, planFile>>
      /\ pc' \in {"scanning", "replanning"}
      /\ \E s \in {"completed", "failed", "blocked", "needs_replan"}, f \in BOOLEAN :
            Record(task, s, f)
  BY DEF Transition, Complete, Fail, Exhausted, Block, NeedReplan, NextPass
<1>2. Driven /\ pc # "redispatching" /\ task \in Ids(plan)
  BY <1>1 DEF Driven, Steady, Working
<1>3. task \in Tasks  BY <1>2, PlanIds DEF Typed, Places
<1>4. PICK s \in {"completed", "failed", "blocked", "needs_replan"}, f \in BOOLEAN :
          Record(task, s, f)
  BY <1>1
<1>5. s \in Statuses  BY DEF Statuses
<1>6. /\ \A q \in Tasks : q # task => tasks'[q] = tasks[q] /\ logged'[q] = logged[q]
      /\ tasks'[task].attempt = logged'[task].attempt
      /\ tasks'[task].status = s /\ logged'[task].status = s
  BY <1>3, <1>4, <1>5, Recorded
<1>7. logged'[task].status # "none" /\ tasks'[task].status # "skipped"  BY <1>6
<1> QED  BY <1>1, <1>2, <1>6, <1>7, OneTaskLeft

LEMMA QuietSteady ==
    ASSUME Typed, Steady, Quiet PROVE Steady'
<1> USE DEF memory, disk, history, Driven, AtWork
<1>1. CASE ScanDone  BY <1>1, Idle DEF ScanDone
<1>2. CASE Conclude  BY <1>2, Idle DEF Conclude
<1>3. CASE Reserve  BY <1>3, Idle DEF Reserve
<1>4. CASE Verify  BY <1>4, Idle DEF Verify
<1>5. CASE CallProvider  BY <1>5, Idle DEF CallProvider
<1>6. CASE RequestReplan  BY <1>6, Idle DEF RequestReplan
<1>7. CASE FailReplan  BY <1>7, Idle DEF FailReplan
<1>8. CASE Finish  BY <1>8, Idle DEF Finish
<1> QED  BY <1>1, <1>2, <1>3, <1>4, <1>5, <1>6, <1>7, <1>8 DEF Quiet

LEMMA StartSteady ==
    ASSUME Typed, Steady, Start \/ Refuse PROVE Steady'
<1> USE DEF memory, disk, history, Driven
<1>1. CASE Start
  <2>1. /\ plan' = planFile /\ planFile' = planFile /\ logged' = logged
        /\ tasks' = Fresh(planFile) /\ pc' = "scanning" /\ pc = "preflight"
    BY <1>1 DEF Start
  <2>2. \A t \in Tasks : logged'[t] = None  BY <2>1 DEF Steady, Unbegun
  <2>3. Ids(planFile) \subseteq Tasks  BY PlanIds DEF Typed, Places
  <2>4. \A t \in Tasks : /\ tasks'[t] \in {Pending, None}
                         /\ tasks'[t].attempt = 0 /\ logged'[t].attempt = 0
                         /\ tasks'[t].status \in {"pending", "none"} /\ logged'[t].status = "none"
    BY <2>1, <2>2 DEF Fresh, Pending, None, TaskState
  <2>5. Unbegun' /\ Working' /\ Filed' /\ DonePlanned'
    BY <2>1, <2>2, <2>4 DEF Unbegun, Working, Filed, DonePlanned
  <2>6. Synced'  BY <2>1, <2>3, <2>4 DEF Synced
  <2> QED  BY <2>5, <2>6 DEF Steady
<1>2. CASE Refuse  BY <1>2, Idle DEF Refuse, AtWork
<1> QED  BY <1>1, <1>2

LEMMA ScanSteady ==
    ASSUME Typed, Steady, Scan PROVE Steady'
<1> DEFINE t == plan[at].id
<1>1. t \in Ids(plan)  BY DEF Scan, Ids
<1>2. t \in Tasks  BY <1>1, PlanIds DEF Typed, Places
<1>3. /\ UNCHANGED <<plan, planFile, alive>> /\ pc = "scanning" /\ pc' = "scanning"
      /\ \/ /\ tasks' = [tasks EXCEPT ![t].status = "blocked"]
            /\ logged' = [logged EXCEPT ![t] = TaskState("blocked", tasks[t].attempt, TRUE)]
         \/ UNCHANGED <<tasks, logged>>
  BY DEF Scan
<1> HIDE DEF t
<1>4. CASE UNCHANGED <<tasks, logged>>  BY <1>3, <1>4, Idle DEF Driven, AtWork
<1>5. CASE /\ tasks' = [tasks EXCEPT ![t].status = "blocked"]
           /\ logged' = [logged EXCEPT ![t] = TaskState("blocked", tasks[t].attempt, TRUE)]
  <2>1. /\ \A q \in Tasks : q # t => tasks'[q] = tasks[q] /\ logged'[q] = logged[q]
        /\ tasks'[t].attempt = logged'[t].attempt
        /\ tasks'[t].status = "blocked" /\ logged'[t].status = "blocked"
    BY <1>2, <1>5 DEF Typed, TaskShapes, TaskStates, TaskState
  <2> QED  BY <1>1, <1>3, <2>1, OneTaskLeft DEF Driven
<1> QED  BY <1>3, <1>4, <1>5

LEMMA RetrySteady ==
    ASSUME Typed, Steady, Retry PROVE Steady'
<1>1. /\ pc \in {"answered", "executing"} /\ UNCHANGED <<plan, planFile, logged>>
      /\ pc' = "scanning"
      /\ tasks' = [tasks EXCEPT ![task].status = "pending", ![task].failed = TRUE]
  BY DEF Retry, Exhausted, NextPass, disk
<1>2. Driven /\ task \in Ids(plan) /\ logged[task].status = "running"
  BY <1>1 DEF Driven, Steady, Working
<1>3. task \in Tasks  BY <1>2, PlanIds DEF Typed, Places
<1>4. tasks[task].attempt = logged[task].attempt  BY <1>2 DEF Steady, Synced
<1>5. /\ \A q \in Tasks : q # task => tasks'[q] = tasks[q]
      /\ tasks'[task].attempt = tasks[task].attempt /\ tasks'[task].status = "pending"
  BY <1>1, <1>3 DEF Typed, TaskShapes, TaskStates
<1> QED  BY <1>1, <1>2, <1>4, <1>5, OneTaskLeft

LEMMA LaunchSteady ==
    ASSUME Typed, Steady, Dispatch \/ MarkStarted PROVE Steady'
<1>1. CASE Dispatch
  <2>1. /\ pc = "choosing" /\ pc' = "starting" /\ UNCHANGED <<plan, planFile>>
    BY <1>1 DEF Dispatch
  <2>2. PICK i \in DOMAIN plan :
          /\ plan[i].id \in Ready /\ task' = plan[i].id
          /\ tasks' = [tasks EXCEPT ![plan[i].id].status = "running", ![plan[i].id].attempt = @ + 1]
          /\ logged' = [logged EXCEPT ![plan[i].id].status = "ready",
                                      ![plan[i].id].attempt = tasks[plan[i].id].attempt + 1]
    BY <1>1 DEF Dispatch
  <2> DEFINE t == plan[i].id
  <2>3. t \in Ids(plan)  BY DEF Ids
  <2>4. t \in Tasks  BY <2>3, PlanIds DEF Typed, Places
  <2>5. tasks[t].status = "pending" /\ \A d \in DepsOf(plan, t) : Met(d)
    BY <2>2 DEF Ready, Planned
  <2> HIDE DEF t
  <2>6. /\ \A q \in Tasks : q # t => tasks'[q] = tasks[q] /\ logged'[q] = logged[q]
        /\ tasks'[t].attempt = logged'[t].attempt
        /\ tasks'[t].status = "running" /\ logged'[t].status = "ready"
    BY <2>2, <2>4 DEF t, Typed, TaskShapes, TaskStates
  <2>7. Driven /\ Driven'  BY <2>1 DEF Driven
  <2>8. Unbegun' /\ Synced' /\ DonePlanned'  BY <2>1, <2>3, <2>6, <2>7, OneTask
  <2>9. Filed'  BY <2>1, <2>7 DEF Steady, Filed
  <2>10. Working'
    <3>1. ASSUME NEW d \in DepsOf(plan, t) PROVE Met(d)'
      <4>1. d \in Tasks  BY PlanIds DEF Typed, Places
      <4>2. d # t  BY <2>5 DEF Met
      <4> QED  BY <2>5, <2>6, <4>1, <4>2 DEF Met
    <3> QED  BY <2>1, <2>2, <2>3, <2>6, <3>1 DEF Working, t
  <2> QED  BY <2>8, <2>9, <2>10 DEF Steady
<1>2. CASE MarkStarted
  <2>1. /\ pc = "starting" /\ pc' = "executing" /\ UNCHANGED <<plan, planFile, tasks, task>>
        /\ logged' = [logged EXCEPT ![task].status = "running"]
    BY <1>2 DEF MarkStarted, memory
  <2>2. Driven /\ Driven' /\ task \in Ids(plan) /\ tasks[task].status = "running"
        /\ \A d \in DepsOf(plan, task) : Met(d)
    BY <2>1 DEF Driven, Steady, Working
  <2>3. task \in Tasks  BY <2>2, PlanIds DEF Typed, Places
  <2>4. tasks[task].attempt = logged[task].attempt  BY <2>2 DEF Steady, Synced
  <2>5. /\ \A q \in Tasks : q # task => logged'[q] = logged[q]
        /\ logged'[task].attempt = logged[task].attempt /\ logged'[task].status = "running"
    BY <2>1, <2>3 DEF Typed, TaskShapes, TaskStates
  <2>6. Unbegun' /\ Synced' /\ DonePlanned'  BY <2>1, <2>2, <2>4, <2>5, OneTask
  <2>7. Filed'  BY <2>1, <2>2 DEF Steady, Filed
  <2>8. Working'  BY <2>1, <2>2, <2>5 DEF Working, Met
  <2> QED  BY <2>6, <2>7, <2>8 DEF Steady
<1> QED  BY <1>1, <1>2

LEMMA WriteSteady ==
    ASSUME Typed, Steady, WritePlan PROVE Steady'
<1>1. /\ pc = "amending" /\ pc' = "redispatching" /\ UNCHANGED <<plan, logged>>
  BY DEF WritePlan
<1>2. PICK ops \in Amendments :
          /\ Valid(ops) /\ planFile' = AmendedPlan(ops)
          /\ tasks' = [t \in Tasks |-> IF t \in Ids(AmendedPlan(ops)) \ Ids(plan) THEN Pending
                                       ELSE tasks[t]]
  BY DEF WritePlan
<1>3. ops \in Seq(Operations)  BY DriverAssumption
<1>4. plan \in Seq(PlanTasks)  BY DEF Typed, Places
<1>5. planFile' # <<>>  BY <1>2 DEF Valid
<1>6. \A t \in Executed \cap Ids(plan) :
          t \in Ids(planFile') /\ WritesOf(planFile', t) = WritesOf(plan, t)
  BY <1>2, <1>3, <1>4, <1>5, AmendmentKeeps DEF AmendedPlan
<1>7. Ids(plan) \subseteq Tasks /\ Ids(planFile') \subseteq Tasks
  <2>1. planFile' \in Seq(PlanTasks)  BY <1>2, <1>3, <1>4, AmendmentKeeps DEF AmendedPlan
  <2> QED  BY <1>4, <2>1, PlanIds
<1>8. \A t \in Tasks : tasks'[t] = IF t \in Ids(planFile') \ Ids(plan) THEN Pending ELSE tasks[t]
  BY <1>2
<1>9. Pending.status = "pending"  BY DEF Pending, TaskState
<1>10. Driven /\ Driven'  BY <1>1 DEF Driven
<1>11. Unbegun' /\ Working' /\ DonePlanned'
  BY <1>1, <1>10 DEF Steady, Unbegun, Working, DonePlanned
<1>12. Synced'
  BY <1>1, <1>7, <1>8, <1>9, <1>10 DEF Steady, Synced
<1>13. Filed'
  <2>1. \A t \in Ids(plan) : tasks'[t].status = "completed" => t \in Executed
    BY <1>7, <1>8 DEF Executed
  <2>2. \A t \in Ids(planFile') \ Ids(plan) : tasks'[t] = Pending  BY <1>7, <1>8
  <2> QED  BY <1>1, <1>6, <2>1, <2>2 DEF Filed
<1> QED  BY <1>11, <1>12, <1>13 DEF Steady

LEMMA RedispatchSteady ==
    ASSUME Typed, Steady, Redispatch PROVE Steady'
<1>1. pc = "redispatching" /\ pc' = "redispatching" /\ UNCHANGED <<plan, planFile>>
  BY DEF Redispatch
<1>2. PICK i \in DOMAIN planFile :
          /\ planFile[i].id \in Parked(planFile)
          /\ tasks' = [tasks EXCEPT ![planFile[i].id].status = "pending"]
          /\ logged' = [logged EXCEPT ![planFile[i].id].status = "ready"]
  BY DEF Redispatch
<1> DEFINE t == planFile[i].id
<1>3. t \in Ids(planFile) /\ tasks[t].status = "needs_replan"  BY <1>2 DEF Parked
<1>4. t \in Ids(plan)
  <2>1. Pending.status = "pending"  BY DEF Pending, TaskState
  <2> QED  BY <1>1, <1>3, <2>1 DEF Steady, Filed
<1>5. t \in Tasks  BY <1>4, PlanIds DEF Typed, Places
<1> HIDE DEF t
<1>6. Driven /\ Driven'  BY <1>1 DEF Driven
<1>7. tasks[t].attempt = logged[t].attempt  BY <1>4, <1>6 DEF Steady, Synced
<1>8. /\ \A q \in Tasks : q # t => tasks'[q] = tasks[q] /\ logged'[q] = logged[q]
      /\ tasks'[t].attempt = logged'[t].attempt
      /\ tasks'[t].status = "pending" /\ logged'[t].status = "ready"
  BY <1>2, <1>5, <1>7 DEF t, Typed, TaskShapes, TaskStates
<1>9. Unbegun' /\ Synced' /\ DonePlanned'  BY <1>1, <1>4, <1>6, <1>8, OneTask
<1>10. Working'  BY <1>1 DEF Working
<1>11. Filed'
  <2>1. Ids(plan) \subseteq Tasks /\ Ids(planFile) \subseteq Tasks
    BY PlanIds DEF Typed, Places
  <2> QED  BY <1>1, <1>4, <1>6, <1>8, <2>1 DEF Steady, Filed
<1> QED  BY <1>9, <1>10, <1>11 DEF Steady

\* What an amendment or a resume makes of the plan.
LEMMA DoneStays ==
    ASSUME Typed, Steady, Driven, NEW t \in Tasks, logged[t].status = "completed"
    PROVE  /\ t \in Ids(plan) /\ t \in Ids(planFile)
           /\ WritesOf(planFile, t) = WritesOf(plan, t)
<1>1. t \in Ids(plan)  BY DEF Steady, DonePlanned
<1>2. tasks[t].status = "completed"  BY <1>1 DEF Steady, Synced
<1>3. CASE pc = "redispatching"  BY <1>1, <1>2, <1>3 DEF Steady, Filed
<1>4. CASE pc # "redispatching"
  <2>1. plan = planFile  BY <1>4 DEF Steady, Filed
  <2> QED  BY <1>1, <2>1
<1> QED  BY <1>1, <1>3, <1>4

LEMMA CommitSteady ==
    ASSUME Typed, Steady, CommitAmendment PROVE Steady'
<1>1. /\ pc = "redispatching" /\ pc' = "scanning" /\ plan' = planFile
      /\ UNCHANGED <<tasks, planFile>> /\ logged' = [t \in Tasks |-> Amended(t)]
  BY DEF CommitAmendment, NextPass
<1>2. Driven /\ Driven'  BY <1>1 DEF Driven
<1>3. Ids(plan) \subseteq Tasks /\ Ids(planFile) \subseteq Tasks
  BY PlanIds DEF Typed, Places
<1>4. Pending.status = "pending" /\ Pending # None  BY DEF Pending, None, TaskState
<1>5. ASSUME NEW t \in Tasks
      PROVE  \/ t \in Ids(planFile) \ Ids(plan) /\ logged'[t] = Pending /\ tasks[t] = Pending
             \/ /\ t \in Ids(plan) \ Ids(planFile) /\ logged'[t].status = "skipped"
                /\ logged[t].status # "completed"
             \/ t \notin Ids(planFile) \ Ids(plan) /\ logged'[t] = logged[t]
  <2>1. logged'[t] = Amended(t)  BY <1>1
  <2>2. CASE t \in Ids(planFile) \ Ids(plan)
    BY <1>1, <2>1, <2>2 DEF Amended, Steady, Filed
  <2>3. CASE t \in Ids(plan) \ Ids(planFile) /\ logged[t].status # "completed"
    <3>1. logged'[t] = [logged[t] EXCEPT !.status = "skipped"]  BY <2>1, <2>3 DEF Amended
    <3> QED  BY <2>3, <3>1 DEF Typed, TaskShapes, TaskStates
  <2>4. CASE /\ t \notin Ids(planFile) \ Ids(plan)
             /\ ~(t \in Ids(plan) \ Ids(planFile) /\ logged[t].status # "completed")
    BY <2>1, <2>4 DEF Amended
  <2> QED  BY <2>2, <2>3, <2>4
<1>6. \A t \in Tasks : logged[t].status = "completed" => t \in Ids(plan) /\ t \in Ids(planFile)
  BY <1>2, DoneStays
<1>7. Unbegun'  BY <1>1, <1>2, <1>4, <1>5 DEF Steady, Unbegun
<1>8. Working' /\ Filed'  BY <1>1 DEF Working, Filed
<1>9. DonePlanned'  BY <1>1, <1>4, <1>5, <1>6 DEF DonePlanned
<1>10. Synced'
  <2>1. ASSUME NEW t \in Ids(planFile)
        PROVE  /\ tasks[t].attempt = logged'[t].attempt
               /\ \A s \in {"completed", "failed", "blocked"} :
                     tasks[t].status = s <=> logged'[t].status = s
    BY <1>2, <1>3, <1>5 DEF Steady, Synced
  <2>2. ASSUME NEW t \in Tasks, NEW s \in {"completed", "skipped"}, tasks[t].status = s
        PROVE  logged'[t].status = s
    BY <1>4, <1>5, <2>2 DEF Steady, Synced
  <2> QED  BY <1>1, <2>1, <2>2 DEF Synced
<1> QED  BY <1>7, <1>8, <1>9, <1>10 DEF Steady

LEMMA ResumeSteady ==
    ASSUME Typed, Steady, Resume PROVE Steady'
<1>1. /\ ~alive /\ pc # "refused" /\ pc' = "scanning" /\ plan' = planFile
      /\ UNCHANGED <<logged, planFile>>
      /\ tasks' = [t \in Tasks |-> IF t \in Ids(planFile) THEN Interrupted(Replay(t))
                                   ELSE Replay(t)]
  BY DEF Resume, NextPass, disk
<1>2. Driven /\ Driven'  BY <1>1 DEF Driven, Steady, Unbegun
<1>3. Ids(planFile) \subseteq Tasks  BY PlanIds DEF Typed, Places
<1>4. /\ Pending.status = "pending" /\ None.status = "none"
      /\ Pending.attempt = 0 /\ None.attempt = 0
  BY DEF Pending, None, TaskState
<1>5. ASSUME NEW t \in Tasks
      PROVE  /\ Replay(t).attempt = logged[t].attempt
             /\ \A s \in {"completed", "skipped", "failed", "blocked"} :
                   Replay(t).status = s <=> logged[t].status = s
             /\ Replay(t) \in TaskStates
  <2>1. CASE logged[t].status = "none"
    BY <1>4, <2>1, FreshTask DEF Replay, Steady, Unbegun
  <2>2. CASE logged[t].status # "none"
    BY <2>2 DEF Replay, Typed, TaskShapes
  <2> QED  BY <2>1, <2>2
<1>6. ASSUME NEW t \in Tasks
      PROVE  /\ Interrupted(Replay(t)).attempt = Replay(t).attempt
             /\ \A s \in {"completed", "skipped", "failed", "blocked"} :
                   Interrupted(Replay(t)).status = s <=> Replay(t).status = s
  <2>1. Replay(t) \in TaskStates  BY <1>5
  <2> HIDE DEF Replay
  <2> QED  BY <2>1 DEF Interrupted, TaskStates
<1>7. \A t \in Tasks :
          /\ tasks'[t].attempt = logged[t].attempt
          /\ \A s \in {"completed", "skipped", "failed", "blocked"} :
                tasks'[t].status = s <=> logged[t].status = s
  <2>1. ASSUME NEW t \in Tasks PROVE tasks'[t] \in {Replay(t), Interrupted(Replay(t))}
    <3> HIDE DEF Replay, Interrupted
    <3> QED  BY <1>1
  <2> HIDE DEF Replay, Interrupted
  <2> QED  BY <1>5, <1>6, <2>1
<1>8. Synced'  BY <1>1, <1>3, <1>7 DEF Synced
<1>9. Unbegun' /\ Working' /\ Filed'  BY <1>1, <1>2 DEF Steady, Unbegun, Working, Filed
<1>10. DonePlanned'  BY <1>1, <1>2, DoneStays DEF DonePlanned
<1> QED  BY <1>8, <1>9, <1>10 DEF Steady

LEMMA SteadyKept == ASSUME Typed, Steady, [Next]_vars PROVE Steady'
<1>1. CASE Crash
  <2>1. UNCHANGED <<pc, task, plan, planFile, tasks, logged>> /\ pc # "preflight"
    BY <1>1 DEF Crash, memory, disk
  <2> QED  BY <2>1, Idle DEF Driven
<1>2. CASE UNCHANGED vars
  <2>1. UNCHANGED <<alive, pc, task, plan, planFile, tasks, logged>>
    BY <1>2 DEF vars, memory, disk
  <2>2. pc' = "preflight" => alive'  BY <2>1 DEF Steady, Unbegun
  <2> QED  BY <2>1, <2>2, Idle DEF Driven
<1> QED
  BY <1>1, <1>2, TransitionSteady, QuietSteady, StartSteady, ScanSteady, RetrySteady,
     LaunchSteady, WriteSteady, RedispatchSteady, CommitSteady, ResumeSteady
  DEF Next, Drive, Transition, Quiet

LEMMA StartSteadily == Init => Typed /\ Steady
<1> SUFFICES ASSUME Init PROVE Typed /\ Steady
  OBVIOUS
<1>1. Places
  <2>1. planFile \in Seq(PlanTasks) /\ plan \in Seq(PlanTasks)  BY DriverAssumption DEF Init
  <2> QED  BY <2>1 DEF Init, Places, Steps, Outcomes
<1>2. TaskShapes  BY StartAttempts DEF Attempts
<1>3. \A t \in Tasks : tasks[t] = None /\ logged[t] = None  BY DEF Init
<1>4. None.status = "none"  BY DEF None, TaskState
<1>5. pc = "preflight" /\ alive /\ plan = <<>>  BY DEF Init
<1> QED  BY <1>1, <1>2, <1>3, <1>4, <1>5
         DEF Typed, Steady, Unbegun, Synced, Working, Filed, DonePlanned, Driven

\* All of what the driver's steps keep.
IInv == Numbers /\ Calls /\ Replans /\ Attempts /\ Places /\ Steady

LEMMA Inductive == Spec => []IInv
<1>1. Init => IInv
  BY StartNumbers, StartAttempts, StartSteadily DEF IInv, Typed
<1>2. IInv /\ [Next]_vars => IInv'
  BY CountersKept, AttemptsKept, PlacesKept, SteadyKept DEF IInv, Typed, Attempts
<1> QED  BY <1>1, <1>2, PTL DEF Spec

\* Every variable keeps to its type, the plan that any amendments make of it too.
THEOREM TypeCorrect == Spec => []TypeOK
<1>1. IInv => TypeOK
  BY DEF IInv, TypeOK, Numbers, Places, Attempts, TaskShapes
<1> QED  BY <1>1, Inductive, PTL

\* The log always shows the attempts, completions, failures and blocks the driver acts
\* on (runtime/src/apply.ts, transition: the state in memory and the event it appends),
\* through every crash, resume and amendment.
THEOREM Remembers == Spec => []LogRemembers
<1>1. IInv => LogRemembers
  <2> SUFFICES ASSUME IInv, alive, NEW t \in Ids(plan)
               PROVE  /\ tasks[t].attempt = logged[t].attempt
                      /\ tasks[t].status = "completed" <=> logged[t].status = "completed"
                      /\ tasks[t].status = "failed" <=> logged[t].status = "failed"
                      /\ tasks[t].status = "blocked" <=> logged[t].status = "blocked"
    BY DEF LogRemembers
  <2>1. Driven
    <3>1. Ids(<<>>) = {}  BY DEF Ids
    <3> QED  BY <3>1 DEF IInv, Steady, Unbegun
  <2> QED  BY <2>1 DEF IInv, Steady, Synced
<1> QED  BY <1>1, Inductive, PTL

\* No task is executed before the log shows its dependencies as done
\* (executor/src/scheduler.ts, the ready test), whatever plan, amendments and crashes.
THEOREM InOrder == Spec => []DependenciesFirst
<1>1. IInv => DependenciesFirst
  <2> SUFFICES ASSUME IInv, pc \in {"executing", "calling", "answered"},
                      NEW d \in DepsOf(planFile, task)
               PROVE  logged[d].status \in {"completed", "skipped"}
    BY DEF DependenciesFirst
  <2>1. plan = planFile /\ Met(d)
    BY DEF IInv, Steady, Filed, Working, Driven
  <2>2. d \in Tasks  BY PlanIds DEF IInv, Places
  <2> QED  BY <2>1, <2>2 DEF IInv, Steady, Synced, Met
<1> QED  BY <1>1, Inductive, PTL

\* Execution history is immutable (core/src/amendment/apply.ts): no amendment, of
\* any operations in any order, nor a resume on the plan file takes a completed task
\* out of the plan or changes its write targets.
THEOREM Immutable == Spec => HistoryKept
<1>1. ASSUME IInv, [Next]_vars, plan' # plan
      PROVE  \A t \in Ids(plan) : tasks[t].status = "completed" =>
                t \in Ids(plan') /\ WritesOf(plan', t) = WritesOf(plan, t)
  <2>1. /\ plan' = planFile
        /\ pc = "preflight" \/ Driven
    <3>1. CASE Start  BY <3>1 DEF Start
    <3>2. CASE CommitAmendment  BY <3>2 DEF CommitAmendment, Driven
    <3>3. CASE Resume  BY <3>3 DEF Resume, Driven
    <3>4. CASE \/ Refuse \/ ScanDone \/ Conclude \/ MarkStarted \/ Verify \/ CallProvider
               \/ RequestReplan \/ FailReplan \/ Finish \/ Crash \/ UNCHANGED vars
      BY <1>1, <3>4
      DEF Refuse, ScanDone, Conclude, MarkStarted, Verify, CallProvider, RequestReplan,
          FailReplan, Finish, Crash, vars, memory
    <3>5. CASE \/ Scan \/ Dispatch \/ Reserve \/ Complete \/ Retry \/ Fail \/ Block
               \/ NeedReplan \/ WritePlan \/ Redispatch
      BY <1>1, <3>5
      DEF Scan, Dispatch, Reserve, Complete, Retry, Fail, Block, NeedReplan, WritePlan,
          Redispatch
    <3> QED  BY <1>1, <3>1, <3>2, <3>3, <3>4, <3>5 DEF Next, Drive
  <2>2. CASE ~Driven
    <3>1. Ids(plan) = {}  BY <1>1, <2>2 DEF IInv, Steady, Unbegun, Ids
    <3> QED  BY <3>1
  <2>3. CASE Driven
    <3>1. Typed /\ Steady  BY <1>1 DEF IInv, Typed, Attempts
    <3>2. \A t \in Ids(plan) : t \in Tasks  BY <3>1, PlanIds DEF Typed, Places
    <3>3. \A t \in Ids(plan) : tasks[t].status = "completed" => logged[t].status = "completed"
      BY <2>3, <3>1 DEF Steady, Synced
    <3> QED  BY <2>1, <2>3, <3>1, <3>2, <3>3, DoneStays
  <2> QED  BY <2>2, <2>3
<1>2. IInv /\ [Next]_vars =>
          [\A t \in Ids(plan) : tasks[t].status = "completed" /\ plan' # plan =>
              /\ t \in Ids(plan')
              /\ WritesOf(plan', t) = WritesOf(plan, t)]_vars
  BY <1>1
<1> QED  BY <1>2, Inductive, PTL DEF Spec, HistoryKept

-----------------------------------------------------------------------------
(* Searches.  One that goes from state to state, each with a smaller         *)
(* measure, until it stops with a value, defines a function; what holds of   *)
(* the values at the stops that can be reached holds of it.                  *)

Searches(f, D, stop, val, next) ==
    f = [x \in D |-> IF x \in stop THEN val[x] ELSE f[next[x]]]

Descends(D, stop, next, m) ==
    /\ stop \in SUBSET D /\ next \in [D -> D] /\ m \in [D -> Nat]
    /\ \A x \in D \ stop : m[next[x]] < m[x]
Closed(J, stop, next) == \A x \in J \ stop : next[x] \in J
Gives(J, stop, val, W) == \A x \in J \cap stop : val[x] \in W

LEMMA SearchExists ==
    ASSUME NEW D, NEW V, NEW stop, NEW val \in [D -> V], NEW next, NEW m,
           Descends(D, stop, next, m)
    PROVE  \E f \in [D -> V] : Searches(f, D, stop, val, next)
<1> USE DEF Descends
<1> DEFINE B(k) == {x \in D : m[x] < k}
           Part(f, k) == /\ f \in [B(k) -> V]
                         /\ \A x \in B(k) : f[x] = IF x \in stop THEN val[x] ELSE f[next[x]]
           Good == {k \in Nat : \E f : Part(f, k)}
<1>1. 0 \in Good
  <2>1. B(0) = {}  OBVIOUS
  <2>2. Part([x \in {} |-> x], 0)  BY <2>1
  <2> QED  BY <2>2
<1>2. ASSUME NEW k \in Good PROVE k + 1 \in Good
  <2>1. PICK f : Part(f, k)  OBVIOUS
  <2> DEFINE g == [x \in B(k + 1) |-> IF x \in stop THEN val[x] ELSE f[next[x]]]
  <2>2. \A x \in B(k + 1) \ stop : next[x] \in B(k)  OBVIOUS
  <2>3. g \in [B(k + 1) -> V]  BY <2>1, <2>2
  <2>4. \A x \in B(k) : x \in B(k + 1) /\ g[x] = f[x]  BY <2>1
  <2>5. \A x \in B(k + 1) : g[x] = IF x \in stop THEN val[x] ELSE g[next[x]]
    BY <2>2, <2>4
  <2>6. Part(g, k + 1)  BY <2>3, <2>5
  <2>7. k + 1 \in Nat  OBVIOUS
  <2> HIDE DEF g, Part
  <2> QED  BY <2>6, <2>7
<1>3. \A k \in Nat : \E f : Part(f, k)
  <2>1. Good \in SUBSET Nat  OBVIOUS
  <2> HIDE DEF Good, Part
  <2>2. Good = Nat  BY <1>1, <1>2, <2>1, Induct
  <2> QED  BY <2>2 DEF Good
<1>4. ASSUME NEW k \in Nat, NEW l \in Nat, NEW f, NEW g, Part(f, k), Part(g, l),
             NEW x \in B(k), x \in B(l)
      PROVE  f[x] = g[x]
  <2> SUFFICES ASSUME f[x] # g[x] PROVE FALSE  OBVIOUS
  <2> DEFINE T == {n \in Nat : \E y \in D : y \in B(k) /\ y \in B(l) /\ f[y] # g[y] /\ n = m[y]}
  <2>0. x \in D /\ m[x] \in Nat  OBVIOUS
  <2>1. T \in SUBSET Nat /\ m[x] \in T
    <3> HIDE DEF B
    <3> QED  BY <2>0, <1>4
  <2>2. PICK n \in T : \A i \in T : n <= i
    <3> HIDE DEF T
    <3> QED  BY <2>1, Least
  <2>3. PICK y \in D : y \in B(k) /\ y \in B(l) /\ f[y] # g[y] /\ n = m[y]  BY <2>2
  <2>4. y \notin stop  BY <1>4, <2>3
  <2>5. f[y] = f[next[y]] /\ g[y] = g[next[y]]  BY <1>4, <2>3, <2>4
  <2>6. next[y] \in D /\ m[next[y]] < m[y] /\ m[next[y]] \in Nat  BY <2>4
  <2>7. next[y] \in B(k) /\ next[y] \in B(l)  BY <2>3, <2>6
  <2>8. m[next[y]] \in T  BY <2>3, <2>5, <2>6, <2>7
  <2> QED  BY <2>2, <2>3, <2>6, <2>8
<1> DEFINE H(k) == CHOOSE f : Part(f, k)
           f == [x \in D |-> H(m[x] + 1)[x]]
<1>5. \A k \in Nat : Part(H(k), k)
  <2> HIDE DEF Part
  <2> QED  BY <1>3
<1>6. \A x \in D : m[x] + 1 \in Nat /\ x \in B(m[x] + 1)  OBVIOUS
<1>7. \A x \in D : f[x] = H(m[x] + 1)[x]  OBVIOUS
<1> HIDE DEF H, f
<1>8. \A x \in D : f[x] \in V
  <2> TAKE x \in D
  <2> DEFINE k == m[x] + 1
  <2>1. k \in Nat /\ x \in B(k) /\ f[x] = H(k)[x]  BY <1>6, <1>7
  <2>2. Part(H(k), k)  BY <1>5, <2>1
  <2>3. H(k) \in [B(k) -> V]  BY <2>2
  <2> HIDE DEF k, B, Part
  <2> QED  BY <2>1, <2>3
<1>9. ASSUME NEW x \in D PROVE f[x] = IF x \in stop THEN val[x] ELSE f[next[x]]
  <2>1. H(m[x] + 1)[x] = IF x \in stop THEN val[x] ELSE H(m[x] + 1)[next[x]]
    BY <1>5, <1>6
  <2>2. CASE x \in stop  BY <1>7, <2>1, <2>2
  <2>3. CASE x \notin stop
    <3> DEFINE y == next[x]
    <3>1. y \in D /\ y \in B(m[x] + 1) /\ y \in B(m[y] + 1)  BY <1>6, <2>3
    <3>2. Part(H(m[x] + 1), m[x] + 1) /\ Part(H(m[y] + 1), m[y] + 1)  BY <1>5, <1>6, <3>1
    <3>3. m[x] + 1 \in Nat /\ m[y] + 1 \in Nat  BY <1>6, <3>1
    <3> HIDE DEF y, Part, B
    <3>4. H(m[x] + 1)[y] = H(m[y] + 1)[y]  BY <1>4, <3>1, <3>2, <3>3
    <3> QED  BY <1>7, <2>1, <2>3, <3>1, <3>4 DEF y
  <2> QED  BY <2>2, <2>3
<1>10. f = [x \in D |-> f[x]]  BY DEF f
<1>11. f \in [D -> V]  BY <1>8, <1>10
<1>12. Searches(f, D, stop, val, next)  BY <1>9, <1>10 DEF Searches
<1> QED  BY <1>11, <1>12

LEMMA SearchStays ==
    ASSUME NEW D, NEW stop, NEW val, NEW next, NEW m, Descends(D, stop, next, m),
           NEW f, Searches(f, D, stop, val, next),
           NEW J \in SUBSET D, Closed(J, stop, next), NEW W, Gives(J, stop, val, W)
    PROVE  \A x \in J : f[x] \in W
<1> USE DEF Descends, Closed, Gives
<1> SUFFICES ASSUME NEW x \in J, f[x] \notin W PROVE FALSE  OBVIOUS
<1> DEFINE T == {n \in Nat : \E y \in J : f[y] \notin W /\ n = m[y]}
<1>1. T \in SUBSET Nat /\ m[x] \in T  OBVIOUS
<1>2. PICK n \in T : \A i \in T : n <= i
  <2> HIDE DEF T
  <2> QED  BY <1>1, Least
<1>3. PICK y \in J : f[y] \notin W /\ n = m[y]  BY <1>2
<1>4. f[y] = IF y \in stop THEN val[y] ELSE f[next[y]]  BY DEF Searches
<1>5. y \notin stop /\ next[y] \in J /\ f[next[y]] \notin W  BY <1>3, <1>4
<1>6. m[next[y]] \in T /\ m[next[y]] < m[y] /\ m[next[y]] \in Nat  BY <1>3, <1>5
<1> QED  BY <1>2, <1>3, <1>6

LEMMA PathOfOne ==
    ASSUME NEW N, NEW x \in N
    PROVE  Range(<<x>>) = {x} /\ <<x>> \in Seq(N) /\ Len(<<x>>) = 1
BY DEF Range

LEMMA PathLonger ==
    ASSUME NEW N, NEW s \in Seq(N), NEW x \in N
    PROVE  /\ Append(s, x) \in Seq(N) /\ Len(Append(s, x)) = Len(s) + 1
           /\ Range(Append(s, x)) = Range(s) \cup {x}
<1>1. Append(s, x) \in Seq(N) /\ Len(Append(s, x)) = Len(s) + 1  OBVIOUS
<1>2. Range(Append(s, x)) = Range(s) \cup {x}
  <2> DEFINE r == Append(s, x)
  <2>1. /\ DOMAIN s = 1..Len(s) /\ Len(s) \in Nat /\ DOMAIN r = 1..(Len(s) + 1)
        /\ \A i \in 1..Len(s) : r[i] = s[i]
        /\ r[Len(s) + 1] = x
    OBVIOUS
  <2>2. \A i : i \in 1..(Len(s) + 1) <=> i \in 1..Len(s) \/ i = Len(s) + 1  BY <2>1
  <2> HIDE DEF r
  <2>3. Range(r) = Range(s) \cup {x}  BY <2>1, <2>2 DEF Range
  <2> QED  BY <2>3 DEF r
<1> QED  BY <1>1, <1>2

LEMMA PathShorter ==
    ASSUME NEW N, NEW s \in Seq(N), s # <<>>
    PROVE  /\ Front(s) \in Seq(N) /\ Len(Front(s)) = Len(s) - 1 /\ Last(s) \in N
           /\ Range(s) = Range(Front(s)) \cup {Last(s)}
<1> DEFINE r == Front(s)
<1>1. Len(s) \in Nat /\ Len(s) # 0 /\ DOMAIN s = 1..Len(s)  BY EmptySeq, LenProperties
<1>2. \A i \in 1..Len(s) : s[i] \in N  BY <1>1, ElementOfSeq
<1>3. r \in Seq(N) /\ Len(r) = Len(s) - 1 /\ \A i \in 1..(Len(s) - 1) : r[i] = s[i]
  <2>1. 1 \in Int /\ Len(s) - 1 \in Int /\ \A i \in 1..(Len(s) - 1) : s[i] \in N  BY <1>1, <1>2
  <2>2. r = SubSeq(s, 1, Len(s) - 1)  BY DEF Front
  <2> QED  BY <1>1, <2>1, <2>2, SubSeqProperties
<1> HIDE DEF r
<1>4. Last(s) = s[Len(s)] /\ Last(s) \in N  BY <1>1, <1>2 DEF Last
<1>5. DOMAIN r = 1..(Len(s) - 1)  BY <1>3, LenProperties
<1>6. \A i : i \in 1..Len(s) <=> i \in 1..(Len(s) - 1) \/ i = Len(s)  BY <1>1
<1>7. Range(s) = Range(r) \cup {Last(s)}  BY <1>1, <1>3, <1>4, <1>5, <1>6 DEF Range
<1> QED  BY <1>3, <1>4, <1>7 DEF r

\* A search that finds no cycle has found an order.
LEMMA NoCycle ==
    ASSUME NEW p, IsFiniteSet(Nodes(p)), Nodes(p) = Ids(p), ~FindCycle(p)
    PROVE  Acyclic(p)
<1> DEFINE N == Nodes(p)
           D == Searching(p)
           stop == {s \in D : IF s.path = <<>> THEN Ids(p) \subseteq s.done
                              ELSE Ahead(p, s) \cap Range(s.path) # {}}
           val == [s \in D |-> IF s.path = <<>> THEN FALSE ELSE TRUE]
           root(s) == CHOOSE n \in Ids(p) \ s.done : TRUE
           child(s) == CHOOSE n \in Ahead(p, s) : TRUE
           step(s) == IF s.path = <<>> THEN [s EXCEPT !.path = <<root(s)>>]
                      ELSE IF Ahead(p, s) = {}
                      THEN [path |-> Front(s.path), done |-> s.done \cup {Last(s.path)}]
                      ELSE [s EXCEPT !.path = Append(@, child(s))]
           next == [s \in D |-> IF s \in stop THEN s ELSE step(s)]
           white(s) == N \ (s.done \cup Range(s.path))
           m == [s \in D |-> 2 * Cardinality(white(s)) + Len(s.path)]
           body(s, f) == IF s.path = <<>>
                         THEN IF Ids(p) \subseteq s.done THEN FALSE
                              ELSE f[[s EXCEPT !.path = <<CHOOSE n \in Ids(p) \ s.done : TRUE>>]]
                         ELSE IF Ahead(p, s) \cap Range(s.path) # {} THEN TRUE
                         ELSE IF Ahead(p, s) = {}
                         THEN f[[path |-> Front(s.path), done |-> s.done \cup {Last(s.path)}]]
                         ELSE f[[s EXCEPT !.path = Append(@, CHOOSE n \in Ahead(p, s) : TRUE)]]
           Search == CHOOSE f : f = [s \in D |-> body(s, f)]
           first == [path |-> <<>>, done |-> {}]
<1>1. FindCycle(p) = Search[first]  BY DEF FindCycle
<1>2. \A n : DepsOf(p, n) \subseteq N  BY DEF DepsOf, Nodes
<1>3. ASSUME NEW s \in D
      PROVE  /\ s.path \in Seq(N) /\ s.done \in SUBSET N /\ Len(s.path) \in Nat
             /\ s = [path |-> s.path, done |-> s.done]
             /\ IsFiniteSet(white(s)) /\ Cardinality(white(s)) \in Nat
  <2>1. /\ s.path \in Seq(N) /\ s.done \in SUBSET N /\ Len(s.path) \in Nat
        /\ s = [path |-> s.path, done |-> s.done]
    BY DEF Searching
  <2>2. white(s) \in SUBSET N  OBVIOUS
  <2> QED  BY <2>1, <2>2, FS_Subset, FS_CardinalityType
<1>4. ASSUME NEW s \in D \ stop
      PROVE  /\ step(s) \in D /\ step(s).done \in {s.done, s.done \cup {Last(s.path)}}
             /\ step(s).done # s.done => s.path # <<>> /\ DepsOf(p, Last(s.path)) \subseteq s.done
             /\ 2 * Cardinality(white(step(s))) + Len(step(s).path)
                   < 2 * Cardinality(white(s)) + Len(s.path)
  <2>0. /\ s.path \in Seq(N) /\ s.done \in SUBSET N /\ Len(s.path) \in Nat
        /\ s = [path |-> s.path, done |-> s.done]
        /\ IsFiniteSet(white(s)) /\ Cardinality(white(s)) \in Nat
    BY <1>3
  <2>1. CASE s.path = <<>>
    <3>1. root(s) \in N /\ root(s) \notin s.done  BY <2>1
    <3>2. step(s) = [path |-> <<root(s)>>, done |-> s.done]  BY <2>0, <2>1
    <3> HIDE DEF root
    <3>3. <<root(s)>> \in Seq(N) /\ Len(<<root(s)>>) = 1 /\ Len(s.path) = 0
          /\ Range(s.path) = {} /\ Range(<<root(s)>>) = {root(s)}
      <4> HIDE DEF N, step, white, stop
      <4>1. Len(s.path) = 0 /\ Range(s.path) = {}  BY <2>1 DEF Range
      <4> QED  BY <2>0, <3>1, <4>1, PathOfOne
    <3>4. step(s) \in D /\ step(s).done = s.done /\ step(s).path = <<root(s)>>
      BY <2>0, <3>2, <3>3 DEF Searching
    <3>5. white(step(s)) = white(s) \ {root(s)} /\ root(s) \in white(s)
      BY <3>1, <3>3, <3>4
    <3>6. Cardinality(white(step(s))) = Cardinality(white(s)) - 1
      <4> HIDE DEF white, step, stop
      <4> QED  BY <2>0, <3>5, FS_RemoveElement
    <3> QED
      <4> HIDE DEF white, step
      <4> QED  BY <2>0, <3>3, <3>4, <3>6
  <2>2. CASE s.path # <<>> /\ Ahead(p, s) = {}
    <3>1. step(s) = [path |-> Front(s.path), done |-> s.done \cup {Last(s.path)}]  BY <2>2
    <3>2. /\ Front(s.path) \in Seq(N) /\ Len(Front(s.path)) = Len(s.path) - 1
          /\ Last(s.path) \in N /\ Range(s.path) = Range(Front(s.path)) \cup {Last(s.path)}
      <4> HIDE DEF N, step, white, stop
      <4> QED  BY <2>0, <2>2, PathShorter
    <3>3. step(s) \in D /\ step(s).path = Front(s.path)
          /\ step(s).done = s.done \cup {Last(s.path)}
      BY <2>0, <3>1, <3>2 DEF Searching
    <3>4. white(step(s)) = white(s)  BY <3>2, <3>3
    <3>5. DepsOf(p, Last(s.path)) \subseteq s.done  BY <2>2 DEF Ahead
    <3> QED
      <4> HIDE DEF white, step
      <4> QED  BY <2>0, <2>2, <3>2, <3>3, <3>4, <3>5
  <2>3. CASE s.path # <<>> /\ Ahead(p, s) # {}
    <3>1. child(s) \in Ahead(p, s)  BY <2>3
    <3>2. Ahead(p, s) \cap Range(s.path) = {}  BY <2>3
    <3>3. child(s) \in N /\ child(s) \notin s.done /\ child(s) \notin Range(s.path)
      BY <1>2, <3>1, <3>2 DEF Ahead
    <3>4. step(s) = [path |-> Append(s.path, child(s)), done |-> s.done]  BY <2>0, <2>3
    <3> HIDE DEF child
    <3>5. /\ Append(s.path, child(s)) \in Seq(N) /\ Len(Append(s.path, child(s))) = Len(s.path) + 1
          /\ Range(Append(s.path, child(s))) = Range(s.path) \cup {child(s)}
      <4> HIDE DEF N, step, white, stop
      <4>1. ASSUME NEW q \in Seq(N), NEW c \in N
            PROVE  /\ Append(q, c) \in Seq(N) /\ Len(Append(q, c)) = Len(q) + 1
                   /\ Range(Append(q, c)) = Range(q) \cup {c}
        BY PathLonger
      <4> QED  BY <2>0, <3>3, <4>1
    <3>6. step(s) \in D /\ step(s).done = s.done /\ step(s).path = Append(s.path, child(s))
      BY <2>0, <3>4, <3>5 DEF Searching
    <3>7. white(step(s)) = white(s) \ {child(s)} /\ child(s) \in white(s)
      BY <3>3, <3>5, <3>6
    <3>8. Cardinality(white(step(s))) = Cardinality(white(s)) - 1
      <4> HIDE DEF white, step, stop
      <4> QED  BY <2>0, <3>7, FS_RemoveElement
    <3> QED
      <4> HIDE DEF white, step
      <4> QED  BY <2>0, <3>5, <3>6, <3>8
  <2> QED  BY <2>1, <2>2, <2>3
<1>5. /\ stop \in SUBSET D /\ val \in [D -> BOOLEAN] /\ next \in [D -> D] /\ m \in [D -> Nat]
      /\ \A s \in D \ stop : m[next[s]] < m[s]
  <2>1. stop \in SUBSET D /\ val \in [D -> BOOLEAN]  OBVIOUS
  <2>2. \A s \in D \ stop : next[s] = step(s)  OBVIOUS
  <2>3. next \in [D -> D]
    <3> HIDE DEF stop, step, D
    <3> QED  BY <1>4
  <2>4. m \in [D -> Nat]
    <3>1. \A s \in D : 2 * Cardinality(white(s)) + Len(s.path) \in Nat
      <4> HIDE DEF white, D
      <4> QED  BY <1>3
    <3> HIDE DEF white, D
    <3> QED  BY <3>1
  <2>5. ASSUME NEW s \in D \ stop PROVE m[next[s]] < m[s]
    <3>1. step(s) \in D /\ next[s] = step(s)  BY <1>4, <2>2
    <3>2. /\ m[s] = 2 * Cardinality(white(s)) + Len(s.path)
          /\ m[step(s)] = 2 * Cardinality(white(step(s))) + Len(step(s).path)
      BY <3>1
    <3> HIDE DEF white, step, next, m, stop
    <3> QED  BY <1>4, <3>1, <3>2
  <2> QED  BY <2>1, <2>3, <2>4, <2>5
<1> HIDE DEF m
<1>5a. Descends(D, stop, next, m)
  <2> HIDE DEF D, stop, next
  <2> QED  BY <1>5 DEF Descends
<1>6. PICK f \in [D -> BOOLEAN] : Searches(f, D, stop, val, next)
  <2> HIDE DEF D, stop, val, next, m
  <2> QED  BY <1>5, <1>5a, SearchExists
<1>7. ASSUME NEW g, NEW s \in D PROVE body(s, g) = IF s \in stop THEN val[s] ELSE g[next[s]]
  <2>1. CASE s \in stop  BY <2>1
  <2>2. CASE s \notin stop
    <3>1. next[s] = step(s)  BY <2>2
    <3>2. CASE s.path = <<>>
      <4>1. ~(Ids(p) \subseteq s.done)  BY <2>2, <3>2
      <4>2. step(s) = [s EXCEPT !.path = <<root(s)>>]  BY <3>2
      <4> HIDE DEF step, next, stop
      <4> QED  BY <2>2, <3>1, <3>2, <4>1, <4>2
    <3>3. CASE s.path # <<>>
      <4>1. ~(Ahead(p, s) \cap Range(s.path) # {})  BY <2>2, <3>3
      <4>2. step(s) = IF Ahead(p, s) = {}
                      THEN [path |-> Front(s.path), done |-> s.done \cup {Last(s.path)}]
                      ELSE [s EXCEPT !.path = Append(@, child(s))]
        BY <3>3
      <4>3. body(s, g) = IF Ahead(p, s) = {}
                         THEN g[[path |-> Front(s.path), done |-> s.done \cup {Last(s.path)}]]
                         ELSE g[[s EXCEPT !.path = Append(@, child(s))]]
        BY <3>3, <4>1
      <4> HIDE DEF step, next, stop, body, child
      <4> QED  BY <2>2, <3>1, <4>2, <4>3
    <3> QED  BY <3>2, <3>3
  <2> QED  BY <2>1, <2>2
<1>8. Searches(Search, D, stop, val, next)
  <2>1. f = [s \in D |-> body(s, f)]
    <3>1. \A s \in D : f[s] = body(s, f)
      <4> HIDE DEF D, stop, val, next, body
      <4> QED  BY <1>6, <1>7 DEF Searches
    <3> HIDE DEF D, stop, val, next, body
    <3> QED  BY <3>1
  <2>2. Search = [s \in D |-> body(s, Search)]
    <3> HIDE DEF D, stop, val, next, body
    <3> QED  BY <2>1
  <2> HIDE DEF D, stop, val, next, body, Search
  <2> QED  BY <1>7, <2>2 DEF Searches
<1> DEFINE Good(B) == /\ \A u \in B : DepsOf(p, u) \subseteq B
                      /\ \A S \in SUBSET B : S # {} => \E t \in S : DepsOf(p, t) \cap S = {}
           J == {s \in D : Good(s.done)}
<1>9. \A s \in J \ stop : next[s] \in J
  <2> TAKE s \in J \ stop
  <2>1. next[s] = step(s) /\ s \in D \ stop  OBVIOUS
  <2> DEFINE n == Last(s.path)
  <2>2. /\ step(s) \in D /\ step(s).done \in {s.done, s.done \cup {n}}
        /\ step(s).done # s.done => DepsOf(p, n) \subseteq s.done
    BY <1>4, <2>1
  <2>3. Good(s.done)  OBVIOUS
  <2>4. CASE step(s).done = s.done
    <3> HIDE DEF step, stop, next, D, Good
    <3>1. next[s] \in D /\ next[s].done = s.done  BY <2>1, <2>2, <2>4
    <3>2. Good(next[s].done)  BY <2>3, <3>1
    <3> QED  BY <3>1, <3>2
  <2>5. CASE step(s).done # s.done
    <3> HIDE DEF step, stop, next, D, n
    <3>1. step(s).done = s.done \cup {n} /\ DepsOf(p, n) \subseteq s.done /\ n \notin s.done
      <4> HIDE DEF Good, J
      <4>1. step(s).done = s.done \cup {n}  BY <2>2, <2>5
      <4>2. n \notin s.done  BY <2>5, <4>1
      <4> QED  BY <2>2, <2>5, <4>1, <4>2
    <3>2. ASSUME NEW S \in SUBSET (s.done \cup {n}), S # {}
          PROVE  \E t \in S : DepsOf(p, t) \cap S = {}
      <4>1. CASE S \cap s.done = {}
        <5>1. n \in S /\ S = {n}  BY <3>2, <4>1
        <5> QED  BY <3>1, <5>1
      <4>2. CASE S \cap s.done # {}
        <5>1. PICK t \in S \cap s.done : DepsOf(p, t) \cap (S \cap s.done) = {}
          <6>1. S \cap s.done \in SUBSET s.done  OBVIOUS
          <6> QED  BY <2>3, <4>2, <6>1
        <5>2. DepsOf(p, t) \subseteq s.done  BY <2>3
        <5> QED  BY <3>1, <5>1, <5>2
      <4> QED  BY <4>1, <4>2
    <3>3. \A u \in s.done \cup {n} : DepsOf(p, u) \subseteq s.done \cup {n}  BY <2>3, <3>1
    <3> QED  BY <2>1, <2>2, <3>1, <3>2, <3>3
  <2> QED  BY <2>4, <2>5
<1> SUFFICES ASSUME ~Acyclic(p) PROVE FALSE  OBVIOUS
<1>10. \A s \in J \cap stop : val[s] \in {TRUE}
  <2> SUFFICES ASSUME NEW s \in J \cap stop, s.path = <<>> PROVE FALSE  OBVIOUS
  <2>1. s.done = N /\ Good(s.done)
    <3>1. s.done \in SUBSET N  BY <1>3
    <3>2. Ids(p) \subseteq s.done  OBVIOUS
    <3>3. Good(s.done)  OBVIOUS
    <3> HIDE DEF Good
    <3> QED  BY <3>1, <3>2, <3>3
  <2>2. \A S \in SUBSET N : S # {} => \E t \in S : DepsOf(p, t) \cap S = {}
    BY <2>1
  <2>3. Acyclic(p)  BY <2>2 DEF Acyclic
  <2> QED  BY <2>3
<1>11. first \in J
  <2>1. first \in D /\ first.done = {}  BY DEF Searching
  <2> HIDE DEF first, D
  <2> QED  BY <2>1
<1>12. \A s \in J : Search[s] \in {TRUE}
  <2>1. J \in SUBSET D  OBVIOUS
  <2> DEFINE W == {TRUE}
  <2>2. Gives(J, stop, val, W) /\ Closed(J, stop, next)
    <3> HIDE DEF D, stop, val, next, J
    <3> QED  BY <1>9, <1>10 DEF Gives, Closed
  <2> HIDE DEF D, stop, val, next, Search, J, W
  <2>3. \A s \in J : Search[s] \in W  BY <1>5a, <1>8, <2>1, <2>2, SearchStays
  <2> QED  BY <2>3 DEF W
<1>13. Search[first] = TRUE
  <2> HIDE DEF Search, J, first
  <2> QED  BY <1>11, <1>12
<1> QED  BY <1>1, <1>13

LEMMA Weight ==
    ASSUME NEW c \in Nat, NEW k \in Nat, NEW a \in Nat, NEW b \in Nat, a < c
    PROVE  /\ c * k + a \in Nat
           /\ c * k + a < c * (k + 1) + b
<1>1. c * k \in Nat  OBVIOUS
<1>2. c * (k + 1) = c * k + c  OBVIOUS
<1> QED  BY <1>1, <1>2

\* What a search reaches is held by whatever holds the start and is closed.
LEMMA ReachesOnly ==
    ASSUME NEW p, IsFiniteSet(Nodes(p)), NEW t, NEW r \in ReachableFrom(p, t)
    PROVE  Precedes(p, r, t)
<1> DEFINE N == Nodes(p)
           D == [queue : SUBSET N, out : SUBSET N]
           stop == {w \in D : w.queue = {}}
           val == [w \in D |-> w.out]
           node(w) == CHOOSE n \in w.queue : TRUE
           step(w) == IF node(w) \in w.out THEN [w EXCEPT !.queue = @ \ {node(w)}]
                      ELSE [queue |-> (w.queue \ {node(w)}) \cup DepsOf(p, node(w)),
                            out |-> w.out \cup {node(w)}]
           next == [w \in D |-> IF w \in stop THEN w ELSE step(w)]
           c == Cardinality(N) + 1
           left(w) == Cardinality(N \ w.out)
           m == [w \in D |-> c * left(w) + Cardinality(w.queue)]
           body(w, f) == LET n == CHOOSE n \in w.queue : TRUE IN
                         IF w.queue = {} THEN w.out
                         ELSE IF n \in w.out THEN f[[w EXCEPT !.queue = @ \ {n}]]
                         ELSE f[[queue |-> (w.queue \ {n}) \cup DepsOf(p, n),
                                 out |-> w.out \cup {n}]]
           Walk == CHOOSE f : f = [w \in D |-> body(w, f)]
           first == [queue |-> DepsOf(p, t), out |-> {}]
<1>1. ReachableFrom(p, t) = Walk[first]  BY DEF ReachableFrom
<1>2. \A n : DepsOf(p, n) \subseteq N  BY DEF DepsOf, Nodes
<1>3. \A S \in SUBSET N : IsFiniteSet(S) /\ Cardinality(S) \in Nat /\ Cardinality(S) < c
  <2> TAKE S \in SUBSET N
  <2>1. IsFiniteSet(S) /\ Cardinality(S) <= Cardinality(N)  BY FS_Subset
  <2> QED  BY <2>1, FS_CardinalityType
<1>4. ASSUME NEW w \in D \ stop
      PROVE  /\ node(w) \in w.queue /\ step(w) \in D
             /\ step(w).queue \subseteq w.queue \cup DepsOf(p, node(w))
             /\ step(w).out \subseteq w.out \cup w.queue
             /\ c * left(step(w)) + Cardinality(step(w).queue) < c * left(w) + Cardinality(w.queue)
  <2> DEFINE n == node(w)
  <2>0. /\ w.queue \in SUBSET N /\ w.out \in SUBSET N /\ n \in w.queue
        /\ w = [queue |-> w.queue, out |-> w.out]
    OBVIOUS
  <2>1. c \in Nat  BY <1>3, FS_CardinalityType
  <2>2. CASE n \in w.out
    <3>1. step(w) = [queue |-> w.queue \ {n}, out |-> w.out]  BY <2>0, <2>2
    <3>2. Cardinality(w.queue \ {n}) = Cardinality(w.queue) - 1
      <4> HIDE DEF n, N, c
      <4> QED  BY <1>3, <2>0, FS_RemoveElement
    <3>3. Cardinality(w.queue) \in Nat /\ left(w) \in Nat
      <4>1. N \ w.out \in SUBSET N  OBVIOUS
      <4> HIDE DEF n, N, c
      <4> QED  BY <1>3, <2>0, <4>1
    <3>4. c * left(w) \in Nat  BY <2>1, <3>3
    <3>5. step(w) \in D /\ step(w).queue = w.queue \ {n} /\ step(w).out = w.out
      BY <2>0, <3>1
    <3>6. left(step(w)) = left(w)  BY <3>5
    <3> HIDE DEF n, N, c, step, left
    <3> QED  BY <2>0, <3>2, <3>3, <3>4, <3>5, <3>6 DEF n
  <2>3. CASE n \notin w.out
    <3> DEFINE q == (w.queue \ {n}) \cup DepsOf(p, n)
    <3>1. step(w) = [queue |-> q, out |-> w.out \cup {n}]  BY <2>3
    <3>2. q \in SUBSET N  BY <1>2, <2>0
    <3>3. step(w) \in D /\ step(w).queue = q /\ step(w).out = w.out \cup {n}
      BY <2>0, <3>1, <3>2
    <3>4. left(w) \in Nat /\ left(step(w)) \in Nat /\ left(w) = left(step(w)) + 1
      <4>1. N \ (w.out \cup {n}) = (N \ w.out) \ {n} /\ n \in N \ w.out  BY <2>0, <2>3
      <4>2. N \ w.out \in SUBSET N /\ N \ (w.out \cup {n}) \in SUBSET N  OBVIOUS
      <4>3. left(step(w)) = Cardinality((N \ w.out) \ {n})  BY <3>3, <4>1
      <4> DEFINE X == N \ w.out
                 Y == N \ (w.out \cup {n})
      <4>4. IsFiniteSet(X) /\ Cardinality(X) \in Nat /\ Cardinality(Y) \in Nat
        <5> HIDE DEF N, c
        <5> QED  BY <1>3, <4>2
      <4>5. Y = X \ {n} /\ n \in X /\ left(w) = Cardinality(X) /\ left(step(w)) = Cardinality(Y)
        BY <4>1, <4>3
      <4> HIDE DEF X, Y, n, N, c, step, left
      <4>6. Cardinality(X \ {n}) = Cardinality(X) - 1  BY <4>4, <4>5, FS_RemoveElement
      <4> QED  BY <4>4, <4>5, <4>6
    <3>5. Cardinality(q) \in Nat /\ Cardinality(q) < c /\ Cardinality(w.queue) \in Nat
      <4> HIDE DEF n, N, c, q
      <4> QED  BY <1>3, <2>0, <3>2
    <3>6. c * left(step(w)) + Cardinality(q) < c * (left(step(w)) + 1) + Cardinality(w.queue)
      <4> HIDE DEF n, N, c, q, step, left
      <4> QED  BY <2>1, <3>4, <3>5, Weight
    <3>7. q \subseteq w.queue \cup DepsOf(p, n) /\ w.out \cup {n} \subseteq w.out \cup w.queue
      BY <2>0
    <3> HIDE DEF N, c, q, step, left
    <3> QED  BY <2>0, <3>3, <3>4, <3>6, <3>7
  <2> QED  BY <2>2, <2>3
<1>5. /\ val \in [D -> SUBSET N] /\ Descends(D, stop, next, m)
  <2>1. stop \in SUBSET D /\ val \in [D -> SUBSET N]  OBVIOUS
  <2>2. \A w \in D \ stop : next[w] = step(w)  OBVIOUS
  <2>3. next \in [D -> D]
    <3> HIDE DEF stop, step, D
    <3> QED  BY <1>4
  <2>4. m \in [D -> Nat]
    <3>1. ASSUME NEW w \in D PROVE c * left(w) + Cardinality(w.queue) \in Nat
      <4>1. w.queue \in SUBSET N /\ N \ w.out \in SUBSET N  OBVIOUS
      <4>2. c \in Nat /\ left(w) \in Nat /\ Cardinality(w.queue) \in Nat /\ Cardinality(w.queue) < c
        <5> HIDE DEF N, c
        <5>1. left(w) \in Nat /\ Cardinality(w.queue) \in Nat /\ Cardinality(w.queue) < c
          BY <1>3, <4>1
        <5> QED  BY <5>1, FS_CardinalityType DEF c, N
      <4> HIDE DEF left, c, D
      <4> QED  BY <4>2, Weight
    <3> HIDE DEF left, c, D
    <3> QED  BY <3>1
  <2>5. ASSUME NEW w \in D \ stop PROVE m[next[w]] < m[w]
    <3>1. step(w) \in D /\ next[w] = step(w)  BY <1>4, <2>2
    <3>2. /\ m[w] = c * left(w) + Cardinality(w.queue)
          /\ m[step(w)] = c * left(step(w)) + Cardinality(step(w).queue)
      BY <3>1
    <3> HIDE DEF left, step, next, m, stop, c
    <3> QED  BY <1>4, <3>1, <3>2
  <2> HIDE DEF D, stop, val, next, m
  <2> QED  BY <2>1, <2>3, <2>4, <2>5 DEF Descends
<1>6. PICK f \in [D -> SUBSET N] : Searches(f, D, stop, val, next)
  <2> HIDE DEF D, stop, val, next, m, N
  <2> QED  BY <1>5, SearchExists
<1>7. ASSUME NEW g, NEW w \in D PROVE body(w, g) = IF w \in stop THEN val[w] ELSE g[next[w]]
  <2>1. CASE w \in stop  BY <2>1
  <2>2. CASE w \notin stop
    <3>1. next[w] = step(w) /\ w.queue # {}  BY <2>2
    <3>2. body(w, g) = IF node(w) \in w.out THEN g[[w EXCEPT !.queue = @ \ {node(w)}]]
                       ELSE g[[queue |-> (w.queue \ {node(w)}) \cup DepsOf(p, node(w)),
                               out |-> w.out \cup {node(w)}]]
      BY <3>1
    <3> HIDE DEF next, stop, body, node
    <3> QED  BY <2>2, <3>1, <3>2
  <2> QED  BY <2>1, <2>2
<1>8. Searches(Walk, D, stop, val, next)
  <2>1. f = [w \in D |-> body(w, f)]
    <3>1. \A w \in D : f[w] = body(w, f)
      <4> HIDE DEF D, stop, val, next, body
      <4> QED  BY <1>6, <1>7 DEF Searches
    <3> HIDE DEF D, stop, val, next, body
    <3> QED  BY <3>1
  <2>2. Walk = [w \in D |-> body(w, Walk)]
    <3> HIDE DEF D, stop, val, next, body
    <3> QED  BY <2>1
  <2> HIDE DEF D, stop, val, next, body, Walk
  <2> QED  BY <1>7, <2>2 DEF Searches
<1> SUFFICES ASSUME NEW S \in SUBSET N, t \in S, \A u \in S : DepsOf(p, u) \subseteq S
             PROVE  r \in S
  BY DEF Precedes
<1> DEFINE J == {w \in D : w.queue \subseteq S /\ w.out \subseteq S}
           W == SUBSET S
<1>9. J \in SUBSET D /\ Gives(J, stop, val, W) /\ first \in J
  <2>1. J \in SUBSET D /\ Gives(J, stop, val, W)  BY DEF Gives
  <2>2. first \in J  BY <1>2
  <2> QED  BY <2>1, <2>2
<1>10. Closed(J, stop, next)
  <2> SUFFICES ASSUME NEW w \in J \ stop PROVE next[w] \in J  BY DEF Closed
  <2>1. w \in D \ stop /\ next[w] = step(w) /\ w.queue \subseteq S /\ w.out \subseteq S  OBVIOUS
  <2>2. DepsOf(p, node(w)) \subseteq S
    <3> HIDE DEF node, stop, D, step, next
    <3> QED  BY <1>4, <2>1
  <2>3. step(w) \in D /\ step(w).queue \subseteq S /\ step(w).out \subseteq S
    <3> HIDE DEF node, stop, D, step, next
    <3> QED  BY <1>4, <2>1, <2>2
  <2> HIDE DEF stop, D, step, next
  <2> QED  BY <2>1, <2>3
<1>11. Walk[first] \in W
  <2> HIDE DEF D, stop, val, next, Walk, J, W, first, m
  <2>1. \A w \in J : Walk[w] \in W  BY <1>5, <1>8, <1>9, <1>10, SearchStays
  <2> QED  BY <1>9, <2>1
<1> QED  BY <1>1, <1>11

\* What a plan without errors is.
LEMMA NoErrors ==
    ASSUME NEW p, PlanErrors(p) = {}
    PROVE  /\ \A i, j \in DOMAIN p : p[i].id = p[j].id => i = j
           /\ \A i \in DOMAIN p : p[i].deps \subseteq Ids(p)
           /\ ~FindCycle(p)
           /\ Must \subseteq UNION {p[i].satisfies \cup p[i].verifies : i \in DOMAIN p}
           /\ \A i, j \in DOMAIN p : i < j /\ WritesOverlap(p[i].writes, p[j].writes) =>
                 Ordered(p, p[i].id, p[j].id)
<1>1. \A i, j \in DOMAIN p : p[i].id = p[j].id => i = j  BY DEF PlanErrors
<1>2. \A i \in DOMAIN p : p[i].deps \subseteq Ids(p)  BY DEF PlanErrors
<1>3. ~FindCycle(p)  BY DEF PlanErrors
<1>4. Must \subseteq UNION {p[i].satisfies \cup p[i].verifies : i \in DOMAIN p}
  BY DEF PlanErrors
<1>5. \A i, j \in DOMAIN p : i < j /\ WritesOverlap(p[i].writes, p[j].writes) =>
         Ordered(p, p[i].id, p[j].id)
  BY DEF PlanErrors
<1> QED  BY <1>1, <1>2, <1>3, <1>4, <1>5

LEMMA FiniteIds ==
    ASSUME NEW p \in Seq(PlanTasks)
    PROVE  IsFiniteSet(Ids(p))
<1> DEFINE f == [i \in 1..Len(p) |-> p[i].id]
<1>1. Len(p) \in Nat /\ DOMAIN p = 1..Len(p)  OBVIOUS
<1>2. IsFiniteSet(1..Len(p))  BY <1>1, FS_Interval
<1>3. f \in Surjection(1..Len(p), Ids(p))  BY <1>1 DEF Ids, Surjection
<1> HIDE DEF f
<1> QED  BY <1>2, <1>3, FS_Surjection

LEMMA OverlapBothWays ==
    ASSUME NEW ws, NEW vs, WritesOverlap(ws, vs)
    PROVE  WritesOverlap(vs, ws)
<1>1. \A a, b : PatternsOverlap(a, b) => PatternsOverlap(b, a)  BY DEF PatternsOverlap
<1> QED  BY <1>1 DEF WritesOverlap

\* What validatePlan lets through is acyclic, addresses every must-property and
\* orders the tasks whose targets may overlap.
LEMMA ValidPlan ==
    ASSUME NEW p \in Seq(PlanTasks), PlanErrors(p) = {}
    PROVE  /\ Acyclic(p)
           /\ Must \subseteq UNION {p[i].satisfies \cup p[i].verifies : i \in DOMAIN p}
           /\ \A s, t \in Ids(p) :
                 s # t /\ WritesOverlap(WritesOf(p, s), WritesOf(p, t))
                 => Precedes(p, s, t) \/ Precedes(p, t, s)
<1>1. Nodes(p) = Ids(p)  BY NoErrors DEF Nodes
<1>2. IsFiniteSet(Nodes(p))  BY <1>1, FiniteIds
<1>3. Acyclic(p)  BY <1>1, <1>2, NoErrors, NoCycle
<1>4. ASSUME NEW s \in Ids(p), NEW t \in Ids(p), s # t,
             WritesOverlap(WritesOf(p, s), WritesOf(p, t))
      PROVE  Precedes(p, s, t) \/ Precedes(p, t, s)
  <2>1. \A i \in DOMAIN p : WritesOf(p, p[i].id) = p[i].writes
    <3> TAKE i \in DOMAIN p
    <3>1. {j \in DOMAIN p : p[j].id = p[i].id} = {i}  BY NoErrors
    <3>2. {p[j].writes : j \in {i}} = {p[i].writes}  OBVIOUS
    <3> QED  BY <3>1, <3>2 DEF WritesOf
  <2>2. PICK i \in DOMAIN p, j \in DOMAIN p : s = p[i].id /\ t = p[j].id  BY DEF Ids
  <2>3. i # j /\ (i < j \/ j < i)
    <3>1. i \in Nat /\ j \in Nat  OBVIOUS
    <3>2. i # j  BY <1>4, <2>2
    <3> QED  BY <3>1, <3>2
  <2>4. /\ WritesOverlap(p[i].writes, p[j].writes)
        /\ WritesOverlap(p[j].writes, p[i].writes)
    BY <1>4, <2>1, <2>2, OverlapBothWays
  <2>5. Ordered(p, s, t) \/ Ordered(p, t, s)
    BY <2>2, <2>3, <2>4, NoErrors
  <2>6. s \in ReachableFrom(p, t) \/ t \in ReachableFrom(p, s)  BY <2>5 DEF Ordered
  <2> QED  BY <1>2, <2>6, ReachesOnly
<1> QED  BY <1>3, <1>4, NoErrors

-----------------------------------------------------------------------------
\* No run is driven by a plan, or leaves one on disk, that validation has not passed.
Checked == Driven => PlanErrors(plan) = {} /\ PlanErrors(planFile) = {}

LEMMA CheckedKept == ASSUME Places, Checked, [Next]_vars PROVE Checked'
<1> USE DEF Driven, NextPass
<1>1. CASE Start  BY <1>1 DEF Start, PreflightPasses, Checked, disk
<1>2. CASE WritePlan
  <2>1. PlanErrors(planFile') = {} /\ plan' = plan  BY <1>2 DEF WritePlan, Valid
  <2> QED  BY <1>2, <2>1 DEF WritePlan, Checked
<1>3. CASE CommitAmendment  BY <1>3 DEF CommitAmendment, Checked
<1>4. CASE Resume  BY <1>4 DEF Resume, Checked, disk
<1>5. CASE Refuse  BY <1>5 DEF Refuse, Checked
<1>6. CASE Crash  BY <1>6 DEF Crash, Checked, memory, disk
<1>7. CASE UNCHANGED vars  BY <1>7 DEF vars, memory, disk, Checked
<1>8. CASE \/ ScanDone \/ Conclude \/ MarkStarted \/ Verify \/ CallProvider \/ RequestReplan
           \/ FailReplan \/ Finish \/ Reserve \/ Retry
  BY <1>8
  DEF ScanDone, Conclude, MarkStarted, Verify, CallProvider, RequestReplan, FailReplan,
      Finish, Reserve, Retry, Exhausted, Checked, memory, disk
<1>9. CASE \/ Scan \/ Dispatch \/ Complete \/ Fail \/ Block \/ NeedReplan \/ Redispatch
  BY <1>9
  DEF Scan, Dispatch, Complete, Fail, Block, NeedReplan, Redispatch, Exhausted, Checked
<1> QED
  BY <1>1, <1>2, <1>3, <1>4, <1>5, <1>6, <1>7, <1>8, <1>9 DEF Next, Drive

\* Whatever amendments are chained, and through every crash and resume, the plan of a
\* run and the one on disk are acyclic, address every must-property and order the tasks
\* whose targets may overlap (core/src/plan/validate.ts with graph.ts, as preflight, the
\* amendment and the resume call them).
THEOREM PlansSound == Spec => []PlanSound
<1>1. Init => Checked  BY DEF Init, Checked, Driven
<1>2. IInv /\ Checked /\ [Next]_vars => Checked'  BY CheckedKept DEF IInv
<1>3. IInv /\ Checked => PlanSound
  BY ValidPlan DEF IInv, Places, Checked, Driven, PlanSound
<1> QED  BY <1>1, <1>2, <1>3, Inductive, PTL DEF Spec

-----------------------------------------------------------------------------
(***************************************************************************)
(* The log as WorkLedger tells it.                                         *)
(***************************************************************************)
Entries == [t \in Tasks |-> Entry(t)]

LEMMA Moved ==
    ASSUME NEW t \in Tasks, \A q \in Tasks : q # t => logged'[q] = logged[q],
           NEW e, Entry(t)' = e
    PROVE  Entries' = [Entries EXCEPT ![t] = e]
<1>1. \A q \in Tasks : q # t => Entry(q)' = Entry(q)  BY DEF Entry
<1> HIDE DEF Entry
<1> QED  BY <1>1 DEF Entries

LEMMA Stayed ==
    ASSUME \A q \in Tasks : logged'[q] = logged[q]
    PROVE  Entries' = Entries
<1>1. \A q \in Tasks : Entry(q)' = Entry(q)  BY DEF Entry
<1> HIDE DEF Entry
<1> QED  BY <1>1 DEF Entries

\* A task that is not done is opened or given up.
LEMMA OpenedOrClosed ==
    ASSUME NEW t \in Tasks, \A q \in Tasks : q # t => logged'[q] = logged[q],
           Entry(t) # "done", Entry(t)' \in {"open", "closed"}
    PROVE  Ledger!Amend
<1>1. \A q \in Tasks : q # t => Entry(q)' = Entry(q)  BY DEF Entry
<1>2. \A q \in Tasks : Entry(q) \in {"open", "running", "closed", "done"}  BY DEF Entry
<1>3. \A q \in Tasks : Entry(q)' \in {"open", "running", "closed", "done"}
  BY <1>1, <1>2
<1> HIDE DEF Entry
<1> QED  BY <1>1, <1>3 DEF Ledger!Amend

LEMMA LedgerStep == IInv /\ [Next]_vars => [Ledger!Next]_Entries
<1> SUFFICES ASSUME IInv, [Next]_vars PROVE [Ledger!Next]_Entries
  OBVIOUS
<1>1. Typed /\ Steady /\ \A q : q \in Ids(plan) => q \in Tasks
  BY PlanIds DEF IInv, Typed, Places, Attempts
<1> USE DEF NextPass, memory, disk, history
<1>2. CASE UNCHANGED logged
  BY <1>2, Stayed
<1>3. CASE Scan /\ logged' # logged
  <2>1. PICK t : /\ t \in Ids(plan) /\ tasks[t].status = "pending"
                 /\ logged' = [logged EXCEPT ![t] = TaskState("blocked", tasks[t].attempt, TRUE)]
    BY <1>3 DEF Scan, Ids
  <2>2. Driven  BY <1>3 DEF Scan, Driven
  <2>3. t \in Tasks /\ logged[t].status # "completed"
    BY <1>1, <2>1, <2>2 DEF Steady, Synced
  <2>4. /\ \A q \in Tasks : q # t => logged'[q] = logged[q]
        /\ logged'[t].status = "blocked"
    BY <1>1, <2>1, <2>3 DEF Typed, TaskShapes, TaskState
  <2>5. Entry(t) # "done" /\ Entry(t)' = "closed"  BY <2>3, <2>4 DEF Entry
  <2> QED  BY <2>3, <2>4, <2>5, OpenedOrClosed DEF Ledger!Next
<1>4. CASE Dispatch
  <2>1. PICK t : /\ t \in Ready
                 /\ logged' = [logged EXCEPT ![t].status = "ready",
                                             ![t].attempt = tasks[t].attempt + 1]
    BY <1>4 DEF Dispatch
  <2>2. Driven /\ t \in Ids(plan) /\ tasks[t].status = "pending"
    BY <1>4, <2>1 DEF Dispatch, Driven, Ready, Planned
  <2>3. t \in Tasks /\ logged[t].status # "completed"
    BY <1>1, <2>2 DEF Steady, Synced
  <2>4. /\ \A q \in Tasks : q # t => logged'[q] = logged[q]
        /\ logged'[t].status = "ready"
    BY <1>1, <2>1, <2>3 DEF Typed, TaskShapes, TaskStates
  <2>5. Entry(t) # "done" /\ Entry(t)' = "open"  BY <2>3, <2>4 DEF Entry
  <2> QED  BY <2>3, <2>4, <2>5, OpenedOrClosed DEF Ledger!Next
<1>5. CASE MarkStarted
  <2>1. PICK t \in Tasks :
          /\ logged[t].status = "ready"
          /\ logged' = [logged EXCEPT ![t].status = "running"]
    BY <1>1, <1>5 DEF MarkStarted, Steady, Working
  <2>2. /\ \A q \in Tasks : q # t => logged'[q] = logged[q]
        /\ logged'[t].status = "running"
    BY <1>1, <2>1 DEF Typed, TaskShapes, TaskStates
  <2>3. Entry(t) = "open" /\ Entry(t)' = "running"  BY <2>1, <2>2 DEF Entry
  <2>4. Entries' = [Entries EXCEPT ![t] = "running"] /\ Entries[t] = "open"
    BY <2>2, <2>3, Moved DEF Entries
  <2>5. Ledger!Start(t)  BY <2>4 DEF Ledger!Start, Ledger!Move, Entries
  <2> QED  BY <2>5 DEF Ledger!Next
<1>6. CASE Transition
  <2>1. pc \in {"answered", "executing"}
        /\ \E s \in {"completed", "failed", "blocked", "needs_replan"}, f \in BOOLEAN :
              Record(task, s, f)
    BY <1>6 DEF Transition, Complete, Fail, Exhausted, Block, NeedReplan
  <2>2. PICK t \in Tasks : t = task /\ logged[t].status = "running"
    BY <1>1, <2>1 DEF Steady, Working
  <2>3. PICK s \in {"completed", "failed", "blocked", "needs_replan"}, f \in BOOLEAN :
            Record(t, s, f)
    BY <2>1, <2>2
  <2>4. s \in Statuses  BY DEF Statuses
  <2>5. /\ \A q \in Tasks : q # t => logged'[q] = logged[q]
        /\ logged'[t].status = s
    BY <1>1, <2>3, <2>4, Recorded
  <2>6. CASE s = "completed"
    <3>1. Entry(t) = "running" /\ Entry(t)' = "done"  BY <2>2, <2>5, <2>6 DEF Entry
    <3>2. Entries' = [Entries EXCEPT ![t] = "done"] /\ Entries[t] = "running"
      BY <2>5, <3>1, Moved DEF Entries
    <3>3. Ledger!Finish(t)  BY <3>2 DEF Ledger!Finish, Ledger!Move, Entries
    <3> QED  BY <3>3 DEF Ledger!Next
  <2>7. CASE s # "completed"
    <3>1. Entry(t) # "done" /\ Entry(t)' = "closed"  BY <2>2, <2>5, <2>7 DEF Entry
    <3> QED  BY <2>5, <3>1, OpenedOrClosed DEF Ledger!Next
  <2> QED  BY <2>6, <2>7
<1>7. CASE Redispatch
  <2>1. PICK t : /\ t \in Ids(planFile) /\ tasks[t].status = "needs_replan"
                 /\ logged' = [logged EXCEPT ![t].status = "ready"]
    BY <1>7 DEF Redispatch, Parked
  <2>2. pc = "redispatching" /\ Driven  BY <1>7 DEF Redispatch, Driven
  <2>3. Pending.status = "pending"  BY DEF Pending, TaskState
  <2>4. t \in Ids(plan)  BY <1>1, <2>1, <2>2, <2>3 DEF Steady, Filed
  <2>5. t \in Tasks /\ logged[t].status # "completed"
    BY <1>1, <2>1, <2>2, <2>4 DEF Steady, Synced
  <2>6. /\ \A q \in Tasks : q # t => logged'[q] = logged[q]
        /\ logged'[t].status = "ready"
    BY <1>1, <2>1, <2>5 DEF Typed, TaskShapes, TaskStates
  <2>7. Entry(t) # "done" /\ Entry(t)' = "open"  BY <2>5, <2>6 DEF Entry
  <2> QED  BY <2>5, <2>6, <2>7, OpenedOrClosed DEF Ledger!Next
<1>8. CASE CommitAmendment
  <2>1. pc = "redispatching" /\ Driven /\ logged' = [t \in Tasks |-> Amended(t)]
    BY <1>8 DEF CommitAmendment, Driven
  <2>2. ASSUME NEW t \in Tasks
        PROVE  /\ Entry(t)' \in {"open", "running", "closed", "done"}
               /\ \/ Entry(t)' = Entry(t)
                  \/ Entry(t) # "done" /\ Entry(t)' \in {"open", "closed"}
    <3>1. logged'[t] = Amended(t)  BY <2>1
    <3>2. CASE t \in Ids(planFile) \ Ids(plan)
      <4>1. logged[t].status # "completed"  BY <1>1, <2>1, <3>2 DEF Steady, DonePlanned
      <4>2. logged'[t].status = "pending"
        BY <3>1, <3>2 DEF Amended, Pending, TaskState
      <4> QED  BY <4>1, <4>2 DEF Entry
    <3>3. CASE t \in Ids(plan) \ Ids(planFile) /\ logged[t].status # "completed"
      <4>1. logged'[t].status = "skipped"
        BY <1>1, <3>1, <3>3 DEF Amended, Typed, TaskShapes, TaskStates
      <4> QED  BY <3>3, <4>1 DEF Entry
    <3>4. CASE /\ t \notin Ids(planFile) \ Ids(plan)
               /\ ~(t \in Ids(plan) \ Ids(planFile) /\ logged[t].status # "completed")
      <4>1. logged'[t] = logged[t]  BY <3>1, <3>4 DEF Amended
      <4> QED  BY <4>1 DEF Entry
    <3> QED  BY <3>2, <3>3, <3>4
  <2>3. Ledger!Amend
    <3> HIDE DEF Entry
    <3> QED  BY <2>2 DEF Ledger!Amend
  <2> QED  BY <2>3 DEF Ledger!Next
<1>9. \/ UNCHANGED logged \/ Scan \/ Dispatch \/ MarkStarted \/ Transition \/ Redispatch
      \/ CommitAmendment
  <2>1. CASE \/ Start \/ Refuse \/ Retry \/ WritePlan \/ Quiet \/ Crash \/ Resume
             \/ UNCHANGED vars
    BY <2>1 DEF Start, Refuse, Retry, WritePlan, Quiet, ScanDone, Conclude, Reserve, Verify,
                CallProvider, RequestReplan, FailReplan, Finish, Crash, Resume, vars
  <2> QED  BY <2>1 DEF Next, Drive, Quiet, Transition
<1> QED  BY <1>2, <1>3, <1>4, <1>5, <1>6, <1>7, <1>8, <1>9

\* The event log implements the ledger (runtime/src/state.ts, applyEvent, over the
\* events of apply.ts): a task is entered as done only out of a recorded execution and
\* never opened again, for any plans, amendments and crashes.
THEOREM LogIsLedger == Spec => LedgerSpec
<1>1. Init => Ledger!Init
  <2>1. None.status = "none"  BY DEF None, TaskState
  <2> QED  BY <2>1 DEF Init, Ledger!Init, Entry
<1> QED  BY <1>1, LedgerStep, Inductive, PTL DEF Spec, LedgerSpec, Ledger!Spec, Entries
=============================================================================
