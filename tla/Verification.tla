---------------------------- MODULE Verification ----------------------------
(***************************************************************************)
(* What becomes of a property over a chain of apply runs: the red phase    *)
(* that must see each discriminating criterion fail on the base tree, the  *)
(* sweep of a verify task, the final sweep over the committed result, the  *)
(* guard against dirt the commit leaves out, inheritance from ancestors,   *)
(* and the human decisions that close follow-ups.                          *)
(*                                                                         *)
(* A tree is a value and a criterion that runs is the set of trees it      *)
(* passes on; a revision is the history of commits that leads to it.  Of   *)
(* the evidence log a run keeps what the evaluator takes from it: the      *)
(* latest outcome of each criterion (shown), the latest in the red phase   *)
(* (red), and what any record ever said (ever).  What a live process knows *)
(* of its requirements and state.json are both state; logged is what the   *)
(* events would replay to.                                                 *)
(***************************************************************************)
EXTENDS Naturals, Sequences, FiniteSets, SequencesExt

CONSTANTS
    SpecOrder,            \* the acceptance criteria, in the order of the spec
    PropertyOf, Kind,     \* of each criterion, its property and its type
    Must,                 \* the properties of priority must
    Discriminating,       \* criteria the author marked discriminating
    Policy,               \* allow, approval or deny, for each criterion's command
    Trees, Origin,        \* contents of the checkout, and the first commit's
    Passes,               \* of each criterion, the trees it passes on
    Broken,               \* of each, the trees its test file does not parse on
    Lifted,               \* criteria that pass anywhere beside the excluded dirt
    Names,                \* criteria whose command names a dirty path
    Dirts,                \* whether the checkout of a run may be dirty
    Requires,             \* what requireRedPhase may be when a process loads it
    AllowAgentOnly,       \* allowAgentOnlyMustRequirements
    MaxRuns, MaxEdits, MaxCrashes \* bounds

Criteria == Range(SpecOrder)
Properties == {PropertyOf[c] : c \in Criteria}

ASSUME VerificationAssumption ==
    /\ SpecOrder \in Seq(Criteria) /\ IsInjective(SpecOrder) /\ Must \subseteq Properties
    /\ Kind \in [Criteria -> {"command", "file", "suite", "agent", "human"}]
    /\ Discriminating \subseteq {c \in Criteria : Kind[c] \in {"command", "file", "suite"}}
    /\ Policy \in [Criteria -> {"allow", "approval", "deny"}]
    /\ Passes \in [Criteria -> SUBSET Trees] /\ Broken \in [Criteria -> SUBSET Trees]
    /\ Origin \in Trees /\ Lifted \subseteq Criteria /\ Names \subseteq Criteria
    /\ Dirts \subseteq BOOLEAN /\ Requires \subseteq BOOLEAN /\ AllowAgentOnly \in BOOLEAN
    /\ MaxRuns \in Nat /\ MaxEdits \in Nat /\ MaxCrashes \in Nat

VARIABLES
    main,                              \* the revision work starts from
    cur, pc, enforce, todo, live,      \* the driver of the latest run,
    swept, guarded,                    \* its final sweep, whether the guard could look
    tree, dirt, head,                  \* its checkout and the revision below it
    parent, base, result, status,      \* of each run: metadata and outcome
    recorded, tasks, logged, state,    \* its events, and state.json
    shown, red, ever, waived,          \* its evidence
    followup, approved, decided,       \* its follow-ups; properties a human settled
    edits, crashes                     \* bounds

driver == <<cur, pc, enforce, todo, live, swept, guarded>>
checkout == <<tree, dirt, head>>
meta == <<parent, base, result, status>>
events == <<recorded, tasks, logged, state>>
evidence == <<shown, red, ever, waived>>
people == <<followup, approved, decided>>
vars == <<main, driver, checkout, meta, events, evidence, people, edits, crashes>>

Runs == 1..MaxRuns
Tasks == {"work", "check"}
Commit(rev, by, t) == Append(rev, [by |-> by, tree |-> t])
TreeOf(rev) == Last(rev).tree
Revisions == Seq([by : 0..MaxRuns, tree : Trees])
Outcomes == {"supports", "contradicts", "inconclusive"}
Unknown == [is |-> "none", atBase |-> FALSE]
States == [is : {"none", "satisfied", "unsatisfied", "indeterminate", "unknown", "waived"},
           atBase : BOOLEAN]

TypeOK ==
    /\ main \in Revisions /\ cur \in 0..MaxRuns
    /\ pc \in {"idle", "dead", "red", "tasks", "verify", "final", "guard", "inherit", "finish"}
    /\ enforce \in BOOLEAN /\ guarded \in BOOLEAN /\ todo \subseteq Criteria
    /\ live \in [Tasks -> {"waiting", "ready", "working", "completed", "failed", "stuck"}]
    /\ swept \in [Properties -> States]
    /\ tree \in Trees /\ dirt \in BOOLEAN /\ head \in Revisions
    /\ parent \in [Runs -> 0..MaxRuns] /\ base \in [Runs -> Revisions] /\ result \in [Runs -> Revisions]
    /\ status \in [Runs -> {"none", "running", "succeeded", "failed", "partially_satisfied"}]
    /\ recorded \in [Runs -> BOOLEAN]
    /\ tasks \in [Runs -> [Tasks -> {"pending", "ready", "running", "completed", "failed"}]]
    /\ logged \in [Runs -> [Properties -> States]] /\ state \in [Runs -> [Properties -> States]]
    /\ shown \in [Runs -> [Criteria -> Outcomes \cup {"none"}]]
    /\ red \in [Runs -> [Criteria -> Outcomes \cup {"none", "invalid"}]]
    /\ ever \in [Runs -> SUBSET (Criteria \X {"red", "invalid", "green"})]
    /\ waived \in [Runs -> SUBSET Properties] /\ decided \in [Runs -> SUBSET Properties]
    /\ followup \in [Runs -> [Criteria -> {"none", "manual", "approval", "investigation"}]]
    /\ approved \in [Runs -> SUBSET Criteria]
    /\ edits \in 0..MaxEdits /\ crashes \in 0..MaxCrashes

Init ==
    /\ main = Commit(<<>>, 0, Origin)
    /\ cur = 0 /\ pc = "idle" /\ enforce = FALSE /\ todo = {} /\ guarded = FALSE
    /\ live = [t \in Tasks |-> "waiting"] /\ swept = [p \in Properties |-> Unknown]
    /\ tree = Origin /\ dirt = FALSE /\ head = main
    /\ parent = [r \in Runs |-> 0] /\ base = [r \in Runs |-> <<>>] /\ result = base
    /\ status = [r \in Runs |-> "none"] /\ recorded = [r \in Runs |-> FALSE]
    /\ tasks = [r \in Runs |-> [t \in Tasks |-> "pending"]]
    /\ logged = [r \in Runs |-> [p \in Properties |-> Unknown]] /\ state = logged
    /\ shown = [r \in Runs |-> [c \in Criteria |-> "none"]] /\ red = shown /\ followup = shown
    /\ ever = [r \in Runs |-> {}] /\ waived = ever /\ decided = ever /\ approved = ever
    /\ edits = 0 /\ crashes = 0

-----------------------------------------------------------------------------
(* The evaluator. *)

\* The runs that following parents from one of them, 0 for none, leads to: what
\* every set has that holds this run and, of each of its runs, the parent.
From(r) ==
    {a \in Runs : \A S \in SUBSET Runs :
        r \in S /\ (\A x \in S : parent[x] # 0 => parent[x] \in S) => a \in S}

\* Broken: the walk begins behind the parent.
LineageSkips(r) == IF parent[r] = 0 \/ parent[parent[r]] = 0 THEN {} ELSE From(parent[parent[r]])

\* The runs the parentRunId links of a run lead to.
Lineage(r) == IF parent[r] = 0 THEN {} ELSE From(parent[r])

\* Broken: any pass of an ancestor counts as a flip.
InheritedPasses(r) == {c \in Criteria : \E a \in Lineage(r) : <<c, "green">> \in ever[a]}

\* Criteria an ancestor's evidence saw fail at its base and pass later.
InheritedFlips(r) ==
    {c \in Criteria : \E a \in Lineage(r) : {<<c, "red">>, <<c, "green">>} \subseteq ever[a]}

\* A suite criterion is normalised to a command without its mark.
Enforced == {c \in Discriminating : Kind[c] # "suite"}

\* What the records say of a criterion, a pass under the flip rule.
Verdict(r, c, must, flips) ==
    IF ~(must /\ c \in Enforced /\ shown[r][c] = "supports") THEN shown[r][c]
    ELSE CASE red[r][c] = "supports" -> IF c \in flips THEN "supports" ELSE "passed at base"
           [] red[r][c] = "contradicts" -> "supports"
           [] OTHER -> "no red"

\* A human waived the property of these criteria.
Waived(r, cs) == \E c \in cs : PropertyOf[c] \in waived[r]

\* The one of these criteria that the spec lists first.
First(cs) ==
    SpecOrder[CHOOSE i \in DOMAIN SpecOrder : /\ SpecOrder[i] \in cs
                                             /\ \A j \in 1..(i - 1) : SpecOrder[j] \notin cs]

\* A property's status from some of its criteria: a waiver, else the worst
\* verdict; agents alone do not satisfy.
Evaluate(r, cs, must, flips) ==
    LET says == [c \in cs |-> Verdict(r, c, must, flips)]
        doubts == {c \in cs : says[c] \in {"inconclusive", "passed at base", "no red"}}
        kinds == {Kind[c] : c \in cs}
        is(s) == [is |-> s, atBase |-> FALSE] IN
    IF Waived(r, cs) THEN is("waived")
    ELSE IF \E c \in cs : says[c] = "contradicts" THEN is("unsatisfied")
    ELSE IF doubts # {}
         THEN [is |-> "indeterminate", atBase |-> says[First(doubts)] = "passed at base"]
    ELSE IF \E c \in cs : says[c] = "none" THEN is("unknown")
    ELSE IF "agent" \in kinds /\ kinds \subseteq {"agent", "human"} /\ ~AllowAgentOnly
         THEN is("indeterminate")
    ELSE is("satisfied")

Acceptance(p) == {c \in Criteria : PropertyOf[c] = p}
Marked(p) == Acceptance(p) \cap Discriminating
Good == {"satisfied", "waived"}

-----------------------------------------------------------------------------
(* One criterion of a sweep. *)

\* The guard's worktree holds the commit, a run's checkout also the dirt.
Works(c) == IF pc = "guard" THEN TreeOf(head) \in Passes[c]
                            ELSE tree \in Passes[c] \/ (dirt /\ c \in Lifted)

Ran(c) == IF Works(c) THEN "supports"
          ELSE IF Kind[c] # "file" /\ tree \in Broken[c] THEN "invalid" ELSE "contradicts"

\* verifyCommand: awaiting an approval, denied (which nobody hears of if there is no
\* environment to execute in), or executed; what times out is executed again, and a
\* second timeout, a runner that died or a missing environment says nothing.
OfCommand(c) ==
    CASE Policy[c] = "deny" -> [saw : {"inconclusive"}, ask : {"investigation", "none"}]
      [] Policy[c] = "approval" /\ c \notin approved[cur] -> {[saw |-> "inconclusive", ask |-> "approval"]}
      [] OTHER -> [saw : {Ran(c), "inconclusive"}, ask : {"none"}]

\* verifyFile: a path that is there, or not, and contains a text, or not.
OfFile(c) == {[saw |-> Ran(c), ask |-> "none"]}

\* verifyAgent: anything, of the provider or as it answered before at this revision;
\* without a provider somebody is to look into it.
OfAgent == [saw : Outcomes, ask : {"none"}] \cup {[saw |-> "inconclusive", ask |-> "investigation"]}

\* verifyHuman: nothing until the follow-up is resolved.
OfHuman == {[saw |-> "inconclusive", ask |-> "manual"]}

\* verifyCriterion, with the follow-up it asks for.
Observations(c) ==
    CASE Kind[c] = "human" -> OfHuman
      [] Kind[c] = "agent" -> OfAgent
      [] Kind[c] = "file" -> OfFile(c)
      [] OTHER -> OfCommand(c)

\* A record outside the red phase: the mark of an unparsable test is not
\* looked at there.
Show(r, c, o) ==
    /\ shown' = [shown EXCEPT ![r][c] = IF o = "invalid" THEN "contradicts" ELSE o]
    /\ ever' = [ever EXCEPT ![r] = @ \cup IF o = "supports" THEN {<<c, "green">>} ELSE {}]

ShowRed(r, c, o) ==
    /\ red' = [red EXCEPT ![r][c] = o]
    /\ ever' = [ever EXCEPT ![r] = @ \cup
          CASE o = "contradicts" -> {<<c, "red">>} [] o = "invalid" -> {<<c, "invalid">>} [] OTHER -> {}]

\* The record of a command that awaits approval carries no phase, and a
\* human is asked only once.
VerifyCriterion ==
    LET c == First(todo) IN
    /\ pc \in {"red", "verify", "final", "guard"} /\ todo # {}
    /\ todo' = todo \ {c}
    /\ IF Kind[c] = "human" /\ followup[cur][c] # "none" THEN UNCHANGED <<evidence, followup>>
       ELSE \E o \in Observations(c) :
          /\ IF pc = "red" /\ o.ask # "approval" THEN ShowRed(cur, c, o.saw) /\ UNCHANGED shown
                                                 ELSE Show(cur, c, o.saw) /\ UNCHANGED red
          /\ followup' = [followup EXCEPT ![cur][c] = IF @ = "none" THEN o.ask ELSE @]
          /\ UNCHANGED waived
    /\ UNCHANGED <<main, cur, pc, enforce, live, swept, guarded, checkout, meta, events,
                   approved, decided, edits, crashes>>

-----------------------------------------------------------------------------
(* The life of a run. *)

\* The latest run with a result that this one's base contains.
DefaultParent ==
    LET prior == {r \in 1..cur : result[r] # <<>> /\ IsPrefix(result[r], main)} IN
    IF prior = {} THEN 0 ELSE CHOOSE r \in prior : \A s \in prior : s <= r

\* Broken: a resume sees the red phase through again.
NeedsRedAgain(r, must) == must /\ Discriminating # {}

\* The red phase runs once, and only before any task has run.
NeedsRed(r, must) ==
    /\ must /\ Discriminating # {} /\ ~recorded[r]
    /\ \A t \in Tasks : tasks[r][t] \in {"pending", "ready"}

\* Enter the red phase or go on to the tasks.
Drive(r, must) ==
    /\ enforce' = must
    /\ IF NeedsRed(r, must)
       THEN pc' = "red" /\ todo' = Discriminating
       ELSE pc' = "tasks" /\ todo' = {}

Start ==
    LET r == cur + 1 IN
    /\ pc = "idle" /\ r \in Runs
    /\ cur' = r
    /\ parent' = [parent EXCEPT ![r] = DefaultParent]
    /\ base' = [base EXCEPT ![r] = main]
    /\ status' = [status EXCEPT ![r] = "running"]
    /\ tree' = TreeOf(main) /\ head' = main /\ dirt' \in Dirts
    /\ live' = [t \in Tasks |-> "waiting"]
    /\ \E must \in Requires : Drive(r, must)
    /\ UNCHANGED <<main, swept, guarded, result, events, evidence, people, edits, crashes>>

\* PROPERTY_VERIFIED of each property a sweep has judged.
LogStates(states) == logged' = [logged EXCEPT ![cur] = states]

\* The states a sweep concludes are logged one by one and then kept.
ConcludeRed ==
    LET reds == {p \in Properties : Marked(p) # {}}
        now(old) == [p \in Properties |-> IF p \in reds THEN Evaluate(cur, Marked(p), enforce, {}) ELSE old[p]] IN
    /\ pc = "red" /\ todo = {}
    /\ LogStates(now(logged[cur]))
    /\ state' = [state EXCEPT ![cur] = now(@)]
    /\ recorded' = [recorded EXCEPT ![cur] = TRUE]
    \* ORACLE_INVALID is thrown out of the run, which stays running.
    /\ pc' = IF \E c \in Criteria : <<c, "invalid">> \in ever[cur] THEN "dead" ELSE "tasks"
    /\ UNCHANGED <<main, cur, enforce, todo, live, swept, guarded, checkout, meta, tasks,
                   evidence, people, edits, crashes>>

\* One task at a time; the check depends on the work.
Launchable(t) ==
    /\ live[t] = "waiting" /\ (t = "check" => live["work"] = "completed")
    /\ \A u \in Tasks : live[u] \notin {"ready", "working"}

TaskReady(t) ==
    /\ pc = "tasks" /\ Launchable(t)
    /\ live' = [live EXCEPT ![t] = "ready"]
    /\ tasks' = [tasks EXCEPT ![cur][t] = "ready"]
    /\ UNCHANGED <<main, cur, pc, enforce, todo, swept, guarded, checkout, meta, recorded,
                   logged, state, evidence, people, edits, crashes>>

TaskStart(t) ==
    /\ pc = "tasks" /\ live[t] = "ready"
    /\ live' = [live EXCEPT ![t] = "working"]
    /\ tasks' = [tasks EXCEPT ![cur][t] = "running"]
    /\ IF t = "check" THEN pc' = "verify" /\ todo' = Criteria ELSE UNCHANGED <<pc, todo>>
    /\ UNCHANGED <<main, cur, enforce, swept, guarded, checkout, meta, recorded, logged, state,
                   evidence, people, edits, crashes>>

\* The work task changes the checkout.
Edit ==
    /\ pc = "tasks" /\ live["work"] = "working" /\ edits < MaxEdits
    /\ tree' \in Trees \ {tree}
    /\ edits' = edits + 1
    /\ UNCHANGED <<main, driver, dirt, head, meta, events, evidence, people, crashes>>

\* The work task is over: done, given up, or to be tried again, of which no
\* event tells.  How often is the business of RunDriver.
TaskEnd ==
    /\ pc = "tasks" /\ live["work"] = "working"
    /\ \/ /\ live' = [live EXCEPT !["work"] = "waiting"]
          /\ UNCHANGED tasks
       \/ \E s \in {"completed", "failed"} :
             /\ live' = [live EXCEPT !["work"] = s]
             /\ tasks' = [tasks EXCEPT ![cur]["work"] = s]
    /\ UNCHANGED <<main, cur, pc, enforce, todo, swept, guarded, checkout, meta, recorded,
                   logged, state, evidence, people, edits, crashes>>

\* A verify task judges every property without what ancestors established.
ConcludeVerify ==
    LET now == [p \in Properties |-> Evaluate(cur, Acceptance(p), enforce, {})] IN
    /\ pc = "verify" /\ todo = {}
    /\ LogStates(now)
    /\ state' = [state EXCEPT ![cur] = now]
    /\ live' = [live EXCEPT !["check"] = "completed"]
    /\ tasks' = [tasks EXCEPT ![cur]["check"] = "completed"]
    /\ pc' = "tasks"
    /\ UNCHANGED <<main, cur, enforce, todo, swept, guarded, checkout, meta, recorded, evidence,
                   people, edits, crashes>>

-----------------------------------------------------------------------------
(* The end of a run. *)

\* commitAll, of what is dirty besides the excluded paths; the final sweep.
CommitResult ==
    /\ pc = "tasks" /\ \A t \in Tasks : live[t] \notin {"ready", "working"} /\ ~Launchable(t)
    /\ head' = IF tree # TreeOf(head) THEN Commit(head, cur, tree) ELSE head
    /\ pc' = "final" /\ todo' = Criteria
    /\ UNCHANGED <<main, cur, enforce, live, swept, guarded, tree, dirt, meta, events, evidence,
                   people, edits, crashes>>

\* Satisfied properties whose evidence comes from a command that names dirt.
Contaminated(states) ==
    {p \in Properties : states[p].is = "satisfied" /\ \E c \in Names : PropertyOf[c] = p}

\* runContaminationGuard: the properties are verified again in a worktree of the
\* commit, unless none can be prepared.
LookAgain(ps) ==
    \/ pc' = "inherit" /\ guarded' = FALSE /\ UNCHANGED todo
    \/ /\ pc' = "guard" /\ guarded' = TRUE
       /\ todo' = {c \in Criteria : PropertyOf[c] \in ps}

\* What the excluded dirt may have made pass is looked at again.
ConcludeFinal ==
    LET now == [p \in Properties |-> Evaluate(cur, Acceptance(p), enforce, InheritedFlips(cur))]
        again == IF dirt THEN Contaminated(now) ELSE {} IN
    /\ pc = "final" /\ todo = {}
    /\ LogStates(now)
    /\ swept' = now
    /\ IF again = {} THEN pc' = "inherit" /\ guarded' = TRUE /\ UNCHANGED todo
       ELSE LookAgain(again)
    /\ UNCHANGED <<main, cur, enforce, live, checkout, meta, recorded, tasks, state, evidence,
                   people, edits, crashes>>

\* Broken: only what the guard contradicts is taken away.
ConcludeGuardLenient ==
    LET again == Contaminated(swept)
        anew(p) == Evaluate(cur, Acceptance(p), FALSE, {}) IN
    /\ pc = "guard" /\ todo = {}
    /\ pc' = "inherit"
    /\ logged' = [logged EXCEPT ![cur] = [p \in Properties |-> IF p \in again THEN anew(p) ELSE @[p]]]
    /\ swept' = [p \in Properties |-> IF p \in again /\ anew(p).is = "unsatisfied" THEN anew(p) ELSE swept[p]]
    /\ UNCHANGED <<main, cur, enforce, todo, live, guarded, checkout, meta, recorded,
                   tasks, state, evidence, people, edits, crashes>>

\* The guard judges without the flip rule and only ever takes away.
ConcludeGuard ==
    LET again == Contaminated(swept)
        anew(p) == Evaluate(cur, Acceptance(p), FALSE, {}) IN
    /\ pc = "guard" /\ todo = {}
    /\ pc' = "inherit"
    /\ logged' = [logged EXCEPT ![cur] = [p \in Properties |-> IF p \in again THEN anew(p) ELSE @[p]]]
    /\ swept' = [p \in Properties |-> IF p \in again /\ anew(p).is \notin Good THEN anew(p) ELSE swept[p]]
    /\ UNCHANGED <<main, cur, enforce, todo, live, guarded, checkout, meta, recorded,
                   tasks, state, evidence, people, edits, crashes>>

\* A property in doubt only because a criterion passed at the base takes
\* over the satisfied of an ancestor.
Inheritable ==
    {p \in Properties : /\ swept[p].is = "indeterminate" /\ swept[p].atBase
                        /\ \E a \in Lineage(cur) : state[a][p].is = "satisfied"}

\* Broken: the inherited status is a mutation of the state and no event.
InheritSilently ==
    /\ pc = "inherit"
    /\ state' = [state EXCEPT ![cur] = [p \in Properties |-> IF p \in Inheritable
                    THEN [swept[p] EXCEPT !.is = "satisfied"] ELSE swept[p]]]
    /\ pc' = "finish"
    /\ UNCHANGED <<main, cur, enforce, todo, live, swept, guarded, checkout, meta,
                   recorded, tasks, logged, evidence, people, edits, crashes>>

Inherit ==
    LET now(old) == [p \in Properties |-> IF p \in Inheritable THEN [old[p] EXCEPT !.is = "satisfied"] ELSE old[p]] IN
    /\ pc = "inherit"
    /\ logged' = [logged EXCEPT ![cur] = now(@)]
    /\ state' = [state EXCEPT ![cur] = now(swept)]
    /\ pc' = "finish"
    /\ UNCHANGED <<main, cur, enforce, todo, live, swept, guarded, checkout, meta,
                   recorded, tasks, evidence, people, edits, crashes>>

\* What a process that is gone no longer knows.
Forget ==
    /\ enforce' = FALSE /\ guarded' = FALSE
    /\ live' = [t \in Tasks |-> "waiting"] /\ swept' = [p \in Properties |-> Unknown]

Finish ==
    /\ pc = "finish"
    /\ result' = [result EXCEPT ![cur] = head]
    /\ status' = [status EXCEPT ![cur] =
          IF \A p \in Must : state[cur][p].is \in Good THEN "succeeded"
          ELSE IF "failed" \in Range(live) THEN "failed" ELSE "partially_satisfied"]
    /\ pc' = "idle" /\ Forget
    /\ UNCHANGED <<main, cur, todo, checkout, parent, base, events, evidence, people,
                   edits, crashes>>

Crash ==
    /\ pc \notin {"idle", "dead"} /\ crashes < MaxCrashes
    /\ crashes' = crashes + 1
    /\ pc' = "dead" /\ todo' = {} /\ Forget
    /\ UNCHANGED <<main, cur, checkout, meta, events, evidence, people, edits>>

\* projectState: the events carry the states they tell of, inherited ones too.
Replay == state' = [state EXCEPT ![cur] = logged[cur]]

\* The state is what the events replay to.  An interrupted task runs again,
\* one that was about to start never does.
Resume ==
    /\ pc = "dead"
    /\ Replay
    /\ live' = [t \in Tasks |-> CASE tasks[cur][t] \in {"pending", "running"} -> "waiting"
                                  [] tasks[cur][t] = "ready" -> "stuck"
                                  [] OTHER -> tasks[cur][t]]
    /\ \E must \in Requires : Drive(cur, must)
    /\ UNCHANGED <<main, cur, swept, guarded, checkout, meta, recorded, tasks, logged, evidence,
                   people, edits, crashes>>

-----------------------------------------------------------------------------
(* People, between runs or while one is interrupted. *)

OptionsOf(kind) ==
    CASE kind = "manual" -> {"confirm", "reject"}
      [] kind = "approval" -> {"approve", "reject"}
      [] kind = "investigation" -> {"confirm", "reject", "waive", "none"}
      [] OTHER -> {}

\* A resolved follow-up: human evidence, and the property is derived again,
\* without the flip rule.
Decide(r, c, option) ==
    LET p == PropertyOf[c]
        says == CASE option \in {"confirm", "waive"} -> "supports"
                  [] option = "reject" -> "contradicts"
                  [] OTHER -> "inconclusive" IN
    /\ pc \in {"idle", "dead"} /\ option \in OptionsOf(followup[r][c])
    /\ followup' = [followup EXCEPT ![r][c] = "none"]
    /\ approved' = [approved EXCEPT ![r] = @ \cup IF option = "approve" THEN {c} ELSE {}]
    /\ waived' = [waived EXCEPT ![r] = @ \cup IF option = "waive" THEN {p} ELSE {}]
    /\ decided' = [decided EXCEPT ![r] = @ \cup {p}]
    /\ Show(r, c, says)
    /\ logged' = [logged EXCEPT ![r][p] = Evaluate(r, Acceptance(p), FALSE, {})']
    /\ state' = [state EXCEPT ![r][p] = logged'[r][p]]
    /\ UNCHANGED <<main, driver, checkout, meta, recorded, tasks, red, edits, crashes>>

\* A branch with results is merged, or somebody commits.
Merge(r) ==
    /\ pc = "idle" /\ result[r] # <<>> /\ IsStrictPrefix(main, result[r])
    /\ main' = result[r]
    /\ UNCHANGED <<driver, checkout, meta, events, evidence, people, edits, crashes>>

HumanCommit(t) ==
    /\ pc = "idle" /\ t # TreeOf(main) /\ edits < MaxEdits
    /\ main' = Commit(main, 0, t)
    /\ edits' = edits + 1
    /\ UNCHANGED <<driver, checkout, meta, events, evidence, people, crashes>>

-----------------------------------------------------------------------------
Driver ==
    \/ Start \/ VerifyCriterion \/ ConcludeRed \/ Edit \/ TaskEnd \/ ConcludeVerify \/ CommitResult
    \/ ConcludeFinal \/ ConcludeGuard \/ Inherit \/ Finish \/ Resume
    \/ \E t \in Tasks : TaskReady(t) \/ TaskStart(t)

People ==
    \/ \E r \in Runs, c \in Criteria : \E o \in OptionsOf(followup[r][c]) : Decide(r, c, o)
    \/ \E r \in Runs : Merge(r)
    \/ \E t \in Trees : HumanCommit(t)

Next == Driver \/ People \/ Crash

Spec == Init /\ [][Next]_vars
-----------------------------------------------------------------------------
(* What a status promises. *)

Closed(r) == status[r] \notin {"none", "running"}

\* A discriminating criterion that failed, as a test that ran, on a tree.
FailedOn(c, t) == t \notin Passes[c] /\ (Kind[c] = "file" \/ t \notin Broken[c])

\* Where requireRedPhase is on throughout, a property that a run calls
\* satisfied, and that no human settled on the way, was made to hold: each
\* discriminating criterion fails on the tree the run or an ancestor began with.
\* It takes the red sweep, the flip rule, adoptAncestorFlips and chain
\* inheritance together to lose this.
FlipsEarned ==
    \A r \in Runs, p \in Properties :
        LET line == {r} \cup Lineage(r) IN
        Closed(r) /\ state[r][p].is = "satisfied" /\ (\A a \in line : p \notin decided[a]) =>
            \A c \in Discriminating : PropertyOf[c] = p => \E a \in line : FailedOn(c, TreeOf(base[a]))

\* What the final sweep and the guard leave as satisfied holds of the commit:
\* each command, suite and file criterion passes on the result tree.  Excused
\* are criteria that dirt lifts without being named in their command, and a
\* guard that had no worktree to look in.
SatisfiedHolds ==
    pc \in {"inherit", "finish"} /\ guarded =>
        \A c \in Criteria :
            swept[PropertyOf[c]].is = "satisfied" /\ Kind[c] \in {"command", "suite", "file"} =>
                TreeOf(head) \in Passes[c] \/ (dirt /\ c \in Lifted \ Names)

\* The red phase describes the base, however often a run crashes before,
\* during and after it.
RedDescribesBase == pc = "red" => tree = TreeOf(base[cur])

\* The requirements of a run are those its events replay to, inherited,
\* downgraded and humanly decided ones included: of the run in progress
\* between its sweeps, of every other run always.
ReplayAgrees ==
    \A r \in Runs : r # cur \/ pc \in {"idle", "red", "tasks", "verify", "finish"} => state[r] = logged[r]

\* A continuation keeps what its parent established: if the parent's
\* property is satisfied, without a human's word on either side, and every
\* criterion passes again, having failed or passed at the base, the property
\* is satisfied again.  The dual of FlipsEarned.
ContinuationKeeps ==
    \A r \in Runs, p \in Properties :
        LET a == parent[r] IN
        /\ Closed(r) /\ a # 0 /\ p \notin decided[r] \cup decided[a]
        /\ state[a][p].is = "satisfied"
        /\ \A c \in Acceptance(p) : shown[r][c] = "supports"
        /\ \A c \in Marked(p) : red[r][c] \in {"supports", "contradicts"}
        => state[r][p].is = "satisfied"
=============================================================================
