------------------------- MODULE VerificationProofs -------------------------
(***************************************************************************)
(* What holds of verification for any specification, any trees, any number *)
(* of runs, edits and crashes.                                             *)
(***************************************************************************)
EXTENDS Verification, WellFoundedInduction, TLAPS

LEMMA EvaluateState ==
    ASSUME NEW r, NEW cs, NEW must, NEW flips
    PROVE  Evaluate(r, cs, must, flips) \in States
BY DEF Evaluate, Waived, States

LEMMA EvaluateStateNext ==
    ASSUME NEW r, NEW cs, NEW must, NEW flips
    PROVE  Evaluate(r, cs, must, flips)' \in States
BY DEF Evaluate, Waived, States

\* Satisfied is said without doubt about the base and without a waiver.
LEMMA EvaluateSatisfied ==
    ASSUME NEW r, NEW cs, NEW must, NEW flips, Evaluate(r, cs, must, flips).is = "satisfied"
    PROVE  /\ Evaluate(r, cs, must, flips) = [is |-> "satisfied", atBase |-> FALSE]
           /\ ~ \E c \in cs : PropertyOf[c] \in waived[r]
BY DEF Evaluate, Waived

LEMMA EvaluateWaived ==
    ASSUME NEW r, NEW cs, NEW must, NEW flips, Evaluate(r, cs, must, flips).is = "waived"
    PROVE  \E c \in cs : PropertyOf[c] \in waived[r]
BY DEF Evaluate, Waived

-----------------------------------------------------------------------------
(* The first of some criteria, the last of some runs, and lineages.        *)

\* A set of numbers has a least one.
LEMMA Least == ASSUME NEW T \in SUBSET Nat, T # {} PROVE \E x \in T : \A y \in T : x <= y
<1>. DEFINE Less == {ss \in Nat \X Nat : ss[1] < ss[2]}
<1>1. IsWellFoundedOn(Less, Nat)
  BY NatLessThanWellFounded DEF OpToRel
<1>2. \A x, y \in Nat : y < x => <<y, x>> \in Less
  OBVIOUS
<1>. HIDE DEF Less
<1>3. PICK x \in T : \A y \in T : ~(<<y, x>> \in Less)
  BY <1>1, WFMin
<1>4. \A y \in T : ~(y < x) /\ x \in Nat /\ y \in Nat
  BY <1>2, <1>3
<1>. QED BY <1>4

\* Of some criteria the spec lists one first.
LEMMA FirstIsOne == ASSUME NEW cs \in SUBSET Criteria, cs # {} PROVE First(cs) \in cs
<1>. DEFINE at == {i \in DOMAIN SpecOrder : SpecOrder[i] \in cs}
<1>1. at # {} /\ at \in SUBSET Nat
  BY VerificationAssumption DEF Criteria, Range
<1>2. PICK i \in at : \A j \in at : i <= j
  BY <1>1, Least
<1>3. /\ i \in DOMAIN SpecOrder /\ SpecOrder[i] \in cs
      /\ \A j \in 1..(i - 1) : SpecOrder[j] \notin cs
  BY <1>2, VerificationAssumption
<1>. QED BY <1>3 DEF First

\* The default parent of the next run is a run that ended, or none.
LEMMA ParentIsPrior == ASSUME cur \in 0..MaxRuns PROVE DefaultParent \in 0..cur
<1>. DEFINE prior == {r \in 1..cur : result[r] # <<>> /\ IsPrefix(result[r], main)}
            behind == {cur - r : r \in prior}
<1>1. CASE prior = {}
  BY <1>1, VerificationAssumption DEF DefaultParent
<1>2. CASE prior # {}
  <2>1. behind # {} /\ behind \in SUBSET Nat
    BY <1>2, VerificationAssumption
  <2>2. PICK d \in behind : \A e \in behind : d <= e
    BY <2>1, Least
  <2>. HIDE DEF prior
  <2>3. PICK r \in prior : d = cur - r
    BY <2>2
  <2>4. \A s \in prior : s <= r
    <3>1. SUFFICES ASSUME NEW s \in prior PROVE s <= r
      OBVIOUS
    <3>2. cur - r <= cur - s
      BY <2>2, <2>3
    <3>3. r \in 1..cur /\ s \in 1..cur
      BY DEF prior
    <3>. QED BY <3>2, <3>3, VerificationAssumption
  <2>5. DefaultParent = CHOOSE x \in prior : \A s \in prior : s <= x
    BY <1>2 DEF DefaultParent, prior
  <2>6. DefaultParent \in prior
    BY <2>4, <2>5
  <2>. QED BY <2>6, VerificationAssumption DEF prior
<1>. QED BY <1>1, <1>2

\* Following parents on from a run of a lineage stays in the lineage.
LEMMA LineageTransitive == ASSUME NEW r, NEW a \in Lineage(r) PROVE Lineage(a) \subseteq Lineage(r)
BY DEF Lineage, From

LEMMA LineageParent ==
    ASSUME NEW r \in Runs, parent[r] # 0, parent[r] \in Runs PROVE parent[r] \in Lineage(r)
BY DEF Lineage, From

\* Parents come before their runs.
ParentsFirst == parent \in [Runs -> 0..MaxRuns] /\ \A r \in Runs : parent[r] < r

LEMMA LineageBefore ==
    ASSUME ParentsFirst, NEW r \in Runs PROVE \A a \in Lineage(r) : a \in Runs /\ a < r
<1>. DEFINE S == {x \in Runs : x < r}
<1>1. S \in SUBSET Runs /\ \A x \in S : parent[x] # 0 => parent[x] \in S
  BY VerificationAssumption DEF ParentsFirst, Runs
<1>2. parent[r] # 0 => parent[r] \in S
  BY VerificationAssumption DEF ParentsFirst, Runs
<1>. QED BY <1>1, <1>2 DEF Lineage, From

\* A new run changes no lineage but its own.
LEMMA LineageKept ==
    ASSUME ParentsFirst, NEW n \in Runs, ParentsFirst',
           \A x \in Runs : x # n => parent'[x] = parent[x],
           NEW r \in Runs, r < n
    PROVE  Lineage(r)' = Lineage(r)
<1>1. parent'[r] = parent[r]
  BY VerificationAssumption DEF Runs
<1>2. ASSUME NEW a \in Lineage(r)' PROVE a \in Lineage(r)
  <2>1. SUFFICES ASSUME NEW S \in SUBSET Runs, parent[r] # 0, parent[r] \in S,
                        \A x \in S : parent[x] # 0 => parent[x] \in S
                 PROVE  a \in S
    BY <1>1, <1>2 DEF Lineage, From
  <2>. DEFINE T == {x \in S : x < n}
  <2>2. parent[r] \in T
    BY <2>1, VerificationAssumption DEF ParentsFirst, Runs
  <2>3. \A x \in T : parent'[x] # 0 => parent'[x] \in T
    BY <2>1, VerificationAssumption DEF ParentsFirst, Runs
  <2>. QED BY <1>1, <1>2, <2>2, <2>3 DEF Lineage, From
<1>3. ASSUME NEW a \in Lineage(r) PROVE a \in Lineage(r)'
  <2>1. SUFFICES ASSUME NEW S \in SUBSET Runs, parent'[r] # 0, parent'[r] \in S,
                        \A x \in S : parent'[x] # 0 => parent'[x] \in S
                 PROVE  a \in S
    BY <1>1, <1>3 DEF Lineage, From
  <2>. DEFINE T == {x \in S : x < n}
  <2>2. parent[r] \in T
    BY <1>1, <2>1, VerificationAssumption DEF ParentsFirst, Runs
  <2>3. \A x \in T : parent[x] # 0 => parent[x] \in T
    BY <2>1, VerificationAssumption DEF ParentsFirst, Runs
  <2>. QED BY <1>1, <1>3, <2>2, <2>3 DEF Lineage, From
<1>. QED BY <1>2, <1>3

-----------------------------------------------------------------------------
(* Types, and the order in which runs come to be.                          *)

\* Only the current run and its forerunners have begun.
Unborn == \A r \in Runs : r > cur => status[r] = "none" /\ \A c \in Criteria : followup[r][c] = "none"

\* Revisions that are something, runs that are running, waivers that were decisions.
Begun ==
    /\ pc # "idle" => cur \in Runs /\ status[cur] = "running"
    /\ main # <<>> /\ head # <<>>
    /\ \A r \in Runs : waived[r] \subseteq decided[r]

Frame == TypeOK /\ ParentsFirst /\ Unborn /\ Begun

\* What a history leads to is a tree.
LEMMA HistoryTree == ASSUME NEW h \in Revisions, h # <<>> PROVE TreeOf(h) \in Trees
<1>. DEFINE entries == [by : 0..MaxRuns, tree : Trees]
<1>1. h \in Seq(entries) /\ Len(h) \in 1..Len(h)
  BY DEF Revisions
<1>. HIDE DEF entries
<1>2. h[Len(h)] \in entries
  BY <1>1
<1>. QED BY <1>2 DEF TreeOf, Last, entries

LEMMA CommitLeads ==
    ASSUME NEW h \in Revisions, NEW by \in 0..MaxRuns, NEW t \in Trees
    PROVE  Commit(h, by, t) \in Revisions /\ Commit(h, by, t) # <<>> /\ TreeOf(Commit(h, by, t)) = t
BY DEF Revisions, Commit, TreeOf, Last

LEMMA FrameInit == ASSUME Init PROVE Frame
<1>1. /\ main \in Revisions /\ head \in Revisions /\ <<>> \in Revisions /\ main # <<>> /\ head # <<>>
  <2>1. <<>> \in Revisions /\ 0 \in 0..MaxRuns
    BY VerificationAssumption DEF Revisions
  <2>. QED BY <2>1, CommitLeads, VerificationAssumption DEF Init
<1>2. Unknown \in States
  BY DEF Unknown, States
<1>3. /\ cur = 0 /\ pc = "idle" /\ 0 \in 0..MaxRuns /\ 0 \in 0..MaxEdits /\ 0 \in 0..MaxCrashes
      /\ \A r \in Runs : 0 < r
  BY VerificationAssumption DEF Init, Runs
<1>4. TypeOK
  BY <1>1, <1>2, <1>3, VerificationAssumption DEF Init, TypeOK, Tasks
<1>5. ParentsFirst /\ Unborn /\ Begun
  BY <1>1, <1>3 DEF Init, ParentsFirst, Unborn, Begun
<1>. QED BY <1>4, <1>5 DEF Frame

\* A record keeps the types of the evidence.
LEMMA FrameVerify == ASSUME Frame, VerifyCriterion PROVE Frame'
<1>1. First(todo) \in Criteria
  BY FirstIsOne DEF VerifyCriterion, Frame, TypeOK
<1>. DEFINE c == First(todo)
<1>2. /\ cur \in Runs /\ status[cur] = "running"
      /\ UNCHANGED <<main, cur, pc, enforce, live, swept, guarded, checkout, meta, events, approved, decided,
                     waived, edits, crashes>>
  BY DEF VerifyCriterion, Frame, Begun, evidence
<1>3. PICK saw \in Outcomes \cup {"invalid"}, ask \in {"none", "manual", "approval", "investigation"} :
        /\ shown' \in {shown, [shown EXCEPT ![cur][c] = IF saw = "invalid" THEN "contradicts" ELSE saw]}
        /\ red' \in {red, [red EXCEPT ![cur][c] = saw]}
        /\ ever' \in {ever, [ever EXCEPT ![cur] = @ \cup {<<c, "green">>}],
                      [ever EXCEPT ![cur] = @ \cup {<<c, "red">>}],
                      [ever EXCEPT ![cur] = @ \cup {<<c, "invalid">>}]}
        /\ followup' \in {followup, [followup EXCEPT ![cur][c] = ask]}
  <2>1. CASE UNCHANGED <<evidence, followup>>
    BY <2>1 DEF evidence, Outcomes
  <2>2. CASE ~UNCHANGED <<evidence, followup>>
    <3>1. PICK o \in Observations(c) :
            /\ \/ ShowRed(cur, c, o.saw) /\ UNCHANGED shown
               \/ Show(cur, c, o.saw) /\ UNCHANGED red
            /\ followup' = [followup EXCEPT ![cur][c] = IF @ = "none" THEN o.ask ELSE @]
      BY <2>2 DEF VerifyCriterion
    <3>2. o.saw \in Outcomes \cup {"invalid"} /\ o.ask \in {"none", "manual", "approval", "investigation"}
      BY <3>1 DEF Observations, OfHuman, OfAgent, OfFile, OfCommand, Ran, Outcomes
    <3>3. followup' \in {followup, [followup EXCEPT ![cur][c] = o.ask]}
      BY <1>1, <1>2, <3>1 DEF Frame, TypeOK
    <3>4. ever' \in {ever, [ever EXCEPT ![cur] = @ \cup {<<c, "green">>}],
                     [ever EXCEPT ![cur] = @ \cup {<<c, "red">>}],
                     [ever EXCEPT ![cur] = @ \cup {<<c, "invalid">>}]}
      <4>1. CASE Show(cur, c, o.saw)
        <5>1. CASE o.saw = "supports"
          BY <4>1, <5>1 DEF Show
        <5>2. CASE o.saw # "supports"
          BY <1>2, <4>1, <5>2 DEF Show, Frame, TypeOK
        <5>. QED BY <5>1, <5>2
      <4>2. CASE ShowRed(cur, c, o.saw)
        <5>1. ever \in [Runs -> SUBSET (Criteria \X {"red", "invalid", "green"})] /\ cur \in Runs
          BY <1>2 DEF Frame, TypeOK
        <5>2. CASE o.saw = "contradicts"
          BY <4>2, <5>2 DEF ShowRed
        <5>3. CASE o.saw = "invalid"
          BY <4>2, <5>3 DEF ShowRed
        <5>4. CASE o.saw \notin {"contradicts", "invalid"}
          BY <4>2, <5>1, <5>4 DEF ShowRed
        <5>. QED BY <5>2, <5>3, <5>4
      <4>. QED BY <3>1, <4>1, <4>2
    <3>. QED BY <3>1, <3>2, <3>3, <3>4 DEF ShowRed, Show
  <2>. QED BY <2>1, <2>2
<1>4. TypeOK'
  <2>1. todo' \subseteq Criteria
    BY DEF VerifyCriterion, Frame, TypeOK
  <2>2. shown' \in [Runs -> [Criteria -> Outcomes \cup {"none"}]]
    BY <1>1, <1>2, <1>3 DEF Frame, TypeOK, Outcomes
  <2>3. red' \in [Runs -> [Criteria -> Outcomes \cup {"none", "invalid"}]]
    BY <1>1, <1>2, <1>3 DEF Frame, TypeOK
  <2>4. ever' \in [Runs -> SUBSET (Criteria \X {"red", "invalid", "green"})]
    BY <1>1, <1>2, <1>3 DEF Frame, TypeOK
  <2>5. followup' \in [Runs -> [Criteria -> {"none", "manual", "approval", "investigation"}]]
    BY <1>1, <1>2, <1>3 DEF Frame, TypeOK
  <2>. QED BY <1>2, <2>1, <2>2, <2>3, <2>4, <2>5 DEF Frame, TypeOK, checkout, meta, events
<1>5. ParentsFirst' /\ Begun'
  BY <1>2 DEF Frame, ParentsFirst, Begun, checkout, meta
<1>6. Unborn'
  BY <1>2, <1>3, VerificationAssumption DEF Frame, TypeOK, Unborn, meta, Runs
<1>. QED BY <1>4, <1>5, <1>6 DEF Frame

LEMMA FrameStart == ASSUME Frame, Start PROVE Frame'
<1>1. /\ cur' = cur + 1 /\ cur' \in Runs /\ pc = "idle" /\ cur \in 0..MaxRuns
      /\ parent' = [parent EXCEPT ![cur'] = DefaultParent] /\ base' = [base EXCEPT ![cur'] = main]
      /\ status' = [status EXCEPT ![cur'] = "running"]
      /\ tree' = TreeOf(main) /\ head' = main /\ dirt' \in BOOLEAN
      /\ live' = [t \in Tasks |-> "waiting"]
      /\ UNCHANGED <<main, swept, guarded, result, events, evidence, people, edits, crashes>>
  BY VerificationAssumption DEF Start, Frame, TypeOK
<1>2. \E must \in BOOLEAN : Drive(cur', must)
  BY <1>1, VerificationAssumption DEF Start
<1>3. enforce' \in BOOLEAN /\ pc' \in {"red", "tasks"} /\ todo' \subseteq Criteria
  BY <1>2, VerificationAssumption DEF Drive
<1>4. DefaultParent \in 0..MaxRuns /\ DefaultParent < cur' /\ cur' \in 0..MaxRuns
  BY <1>1, ParentIsPrior, VerificationAssumption DEF Runs
<1>5. tree' \in Trees
  BY <1>1, HistoryTree DEF Frame, TypeOK, Begun
<1>6. TypeOK'
  BY <1>1, <1>3, <1>4, <1>5 DEF Frame, TypeOK, events, evidence, people
<1>7. ParentsFirst' /\ Unborn'
  BY <1>1, <1>4, VerificationAssumption DEF Frame, TypeOK, ParentsFirst, Unborn, people, Runs
<1>8. Begun'
  BY <1>1, <1>3 DEF Frame, TypeOK, Begun, people, evidence
<1>. QED BY <1>6, <1>7, <1>8 DEF Frame

\* What Frame says of the order of runs stays while no run starts or is decided on.
LEMMA FrameOrder ==
    ASSUME Frame, UNCHANGED <<cur, parent, followup, waived, decided>>,
           main' # <<>>, head' # <<>>, pc' # "idle" => pc # "idle",
           \/ UNCHANGED status
           \/ pc = "finish" /\ pc' = "idle" /\ \E s : status' = [status EXCEPT ![cur] = s]
    PROVE  ParentsFirst' /\ Unborn' /\ Begun'
<1>1. ParentsFirst' /\ Begun'
  BY DEF Frame, ParentsFirst, Begun
<1>2. Unborn'
  BY VerificationAssumption DEF Frame, TypeOK, Unborn, Runs
<1>. QED BY <1>1, <1>2

\* Steps of the tasks.
LEMMA FrameTasks ==
    ASSUME Frame, Edit \/ TaskEnd \/ \E t \in Tasks : TaskReady(t) \/ TaskStart(t)
    PROVE  Frame'
<1>1. cur \in Runs
  BY DEF Frame, Begun, Edit, TaskEnd, TaskReady, TaskStart
<1>2. TypeOK'
  <2>1. CASE Edit
    BY <2>1, VerificationAssumption DEF Edit, Frame, TypeOK, driver, meta, events, evidence, people
  <2>2. CASE TaskEnd
    BY <1>1, <2>2 DEF TaskEnd, Frame, TypeOK, checkout, meta, evidence, people, Tasks
  <2>3. ASSUME NEW t \in Tasks, TaskReady(t) PROVE TypeOK'
    BY <1>1, <2>3 DEF TaskReady, Frame, TypeOK, checkout, meta, evidence, people
  <2>4. ASSUME NEW t \in Tasks, TaskStart(t) PROVE TypeOK'
    BY <1>1, <2>4 DEF TaskStart, Frame, TypeOK, checkout, meta, evidence, people
  <2>. QED BY <2>1, <2>2, <2>3, <2>4
<1>3. /\ UNCHANGED <<cur, parent, followup, waived, decided, status, main, head>>
      /\ pc' # "idle" => pc # "idle"
  BY DEF Edit, TaskEnd, TaskReady, TaskStart, driver, checkout, meta, evidence, people
<1>. QED BY <1>2, <1>3, FrameOrder DEF Frame, Begun

LEMMA FrameConclude ==
    ASSUME Frame, ConcludeRed \/ ConcludeVerify \/ ConcludeFinal \/ ConcludeGuard \/ Inherit
    PROVE  Frame'
<1>1. cur \in Runs
  BY DEF Frame, Begun, ConcludeRed, ConcludeVerify, ConcludeFinal, ConcludeGuard, Inherit
<1>2. \A f \in [Runs -> [Properties -> States]], now \in [Properties -> States] :
         [f EXCEPT ![cur] = now] \in [Runs -> [Properties -> States]]
  BY <1>1
<1>3. /\ swept \in [Properties -> States] /\ logged[cur] \in [Properties -> States]
      /\ state[cur] \in [Properties -> States]
  BY <1>1 DEF Frame, TypeOK
<1>4. logged' \in [Runs -> [Properties -> States]] /\ state' \in [Runs -> [Properties -> States]]
      /\ swept' \in [Properties -> States]
  <2>1. CASE ConcludeRed
    <3>. DEFINE now(old) == [p \in Properties |-> IF Marked(p) # {} THEN Evaluate(cur, Marked(p), enforce, {})
                                                                  ELSE old[p]]
    <3>1. now(logged[cur]) \in [Properties -> States] /\ now(state[cur]) \in [Properties -> States]
      BY <1>3, EvaluateState
    <3>2. /\ logged' = [logged EXCEPT ![cur] = now(logged[cur])]
          /\ state' = [state EXCEPT ![cur] = now(state[cur])] /\ swept' = swept
      BY <2>1 DEF ConcludeRed, LogStates
    <3>. HIDE DEF now
    <3>. QED BY <1>2, <3>1, <3>2 DEF Frame, TypeOK
  <2>2. CASE ConcludeVerify
    <3>. DEFINE now == [p \in Properties |-> Evaluate(cur, Acceptance(p), enforce, {})]
    <3>1. now \in [Properties -> States]
      BY EvaluateState
    <3>2. logged' = [logged EXCEPT ![cur] = now] /\ state' = [state EXCEPT ![cur] = now] /\ swept' = swept
      BY <2>2 DEF ConcludeVerify, LogStates
    <3>. HIDE DEF now
    <3>. QED BY <1>2, <3>1, <3>2 DEF Frame, TypeOK
  <2>3. CASE ConcludeFinal
    <3>. DEFINE now == [p \in Properties |-> Evaluate(cur, Acceptance(p), enforce, InheritedFlips(cur))]
    <3>1. now \in [Properties -> States]
      BY EvaluateState
    <3>2. logged' = [logged EXCEPT ![cur] = now] /\ swept' = now /\ state' = state
      BY <2>3 DEF ConcludeFinal, LogStates
    <3>. HIDE DEF now
    <3>. QED BY <1>2, <3>1, <3>2 DEF Frame, TypeOK
  <2>4. CASE ConcludeGuard
    <3>. DEFINE anew(p) == Evaluate(cur, Acceptance(p), FALSE, {})
                log == [p \in Properties |-> IF p \in Contaminated(swept) THEN anew(p) ELSE logged[cur][p]]
                kept == [p \in Properties |-> IF p \in Contaminated(swept) /\ anew(p).is \notin Good
                                              THEN anew(p) ELSE swept[p]]
    <3>1. log \in [Properties -> States] /\ kept \in [Properties -> States]
      BY <1>3, EvaluateState
    <3>2. logged' = [logged EXCEPT ![cur] = log] /\ swept' = kept /\ state' = state
      BY <2>4 DEF ConcludeGuard
    <3>. HIDE DEF log, kept
    <3>. QED BY <1>2, <3>1, <3>2 DEF Frame, TypeOK
  <2>5. CASE Inherit
    <3>. DEFINE now(old) == [p \in Properties |-> IF p \in Inheritable THEN [old[p] EXCEPT !.is = "satisfied"]
                                                                     ELSE old[p]]
    <3>1. ASSUME NEW old \in [Properties -> States] PROVE now(old) \in [Properties -> States]
      <4>1. \A p \in Properties : [old[p] EXCEPT !.is = "satisfied"] \in States
        BY DEF States
      <4>. QED BY <4>1
    <3>2. /\ logged' = [logged EXCEPT ![cur] = now(logged[cur])]
          /\ state' = [state EXCEPT ![cur] = now(swept)] /\ swept' = swept
      BY <2>5 DEF Inherit
    <3>3. now(logged[cur]) \in [Properties -> States] /\ now(swept) \in [Properties -> States]
      BY <1>3, <3>1
    <3>. HIDE DEF now
    <3>. QED BY <1>2, <3>2, <3>3 DEF Frame, TypeOK
  <2>. QED BY <2>1, <2>2, <2>3, <2>4, <2>5
<1>5. /\ UNCHANGED <<main, cur, enforce, checkout, meta, evidence, people, edits, crashes>>
      /\ recorded' \in {recorded, [recorded EXCEPT ![cur] = TRUE]}
      /\ live' \in {live, [live EXCEPT !["check"] = "completed"]}
      /\ tasks' \in {tasks, [tasks EXCEPT ![cur]["check"] = "completed"]}
      /\ todo' \in SUBSET Criteria /\ guarded' \in BOOLEAN
      /\ pc' \in {"dead", "tasks", "inherit", "guard", "finish"} /\ pc # "idle"
  BY DEF ConcludeRed, ConcludeVerify, ConcludeFinal, LookAgain, ConcludeGuard, Inherit, Frame, TypeOK
<1>6. /\ recorded' \in [Runs -> BOOLEAN]
      /\ live' \in [Tasks -> {"waiting", "ready", "working", "completed", "failed", "stuck"}]
      /\ tasks' \in [Runs -> [Tasks -> {"pending", "ready", "running", "completed", "failed"}]]
  <2>1. "check" \in Tasks
    BY DEF Tasks
  <2>2. recorded' \in [Runs -> BOOLEAN]
    BY <1>1, <1>5 DEF Frame, TypeOK
  <2>3. live' \in [Tasks -> {"waiting", "ready", "working", "completed", "failed", "stuck"}]
    BY <1>5, <2>1 DEF Frame, TypeOK
  <2>4. tasks' \in [Runs -> [Tasks -> {"pending", "ready", "running", "completed", "failed"}]]
    BY <1>1, <1>5, <2>1 DEF Frame, TypeOK
  <2>. QED BY <2>2, <2>3, <2>4
<1>7. TypeOK'
  BY <1>4, <1>5, <1>6 DEF Frame, TypeOK, checkout, meta, evidence, people
<1>. QED BY <1>5, <1>7, FrameOrder DEF Frame, Begun, checkout, meta, evidence, people

LEMMA FrameEnds ==
    ASSUME Frame, CommitResult \/ Finish \/ Crash \/ Resume
    PROVE  Frame'
<1>1. cur \in Runs
  BY DEF Frame, Begun, CommitResult, Finish, Crash, Resume
<1>2. Unknown \in States
  BY DEF Unknown, States
<1>3. CASE CommitResult
  <2>1. head' \in Revisions /\ head' # <<>>
    BY <1>3, CommitLeads DEF CommitResult, Frame, TypeOK, Begun
  <2>2. TypeOK'
    BY <1>3, <2>1 DEF CommitResult, Frame, TypeOK, meta, events, evidence, people
  <2>. QED BY <1>3, <2>1, <2>2, FrameOrder DEF CommitResult, Frame, Begun, meta, evidence, people
<1>4. CASE Finish
  <2>1. PICK s \in {"succeeded", "failed", "partially_satisfied"} : status' = [status EXCEPT ![cur] = s]
    BY <1>4 DEF Finish
  <2>2. TypeOK'
    BY <1>1, <1>2, <1>4, <2>1 DEF Finish, Forget, Frame, TypeOK, checkout, events, evidence, people
  <2>. QED BY <1>4, <2>1, <2>2, FrameOrder DEF Finish, Frame, Begun, checkout, evidence, people
<1>5. CASE Crash
  <2>1. /\ crashes' \in 0..MaxCrashes /\ enforce' \in BOOLEAN /\ guarded' \in BOOLEAN
        /\ live' \in [Tasks -> {"waiting", "ready", "working", "completed", "failed", "stuck"}]
        /\ swept' \in [Properties -> States] /\ todo' \subseteq Criteria
    <3>1. crashes' \in 0..MaxCrashes
      <4>1. crashes \in 0..MaxCrashes /\ crashes < MaxCrashes /\ crashes' = crashes + 1
        BY <1>5 DEF Crash, Frame, TypeOK
      <4>. QED BY <4>1, VerificationAssumption
    <3>2. /\ enforce' = FALSE /\ guarded' = FALSE /\ live' = [t \in Tasks |-> "waiting"]
          /\ swept' = [p \in Properties |-> Unknown] /\ todo' = {}
      BY <1>5 DEF Crash, Forget
    <3>. QED BY <1>2, <3>1, <3>2
  <2>2. TypeOK'
    BY <1>5, <2>1 DEF Crash, Frame, TypeOK, checkout, meta, events, evidence, people
  <2>3. /\ UNCHANGED <<cur, parent, followup, waived, decided, status, main, head>>
        /\ pc' # "idle" => pc # "idle"
    BY <1>5 DEF Crash, checkout, meta, evidence, people
  <2>. QED BY <2>2, <2>3, FrameOrder DEF Frame, Begun
<1>6. CASE Resume
  <2>1. PICK must \in BOOLEAN : Drive(cur, must)
    BY <1>6, VerificationAssumption DEF Resume
  <2>2. enforce' \in BOOLEAN /\ pc' \in {"red", "tasks"} /\ todo' \subseteq Criteria
    BY <2>1, VerificationAssumption DEF Drive
  <2>3. state' \in [Runs -> [Properties -> States]]
    BY <1>1, <1>6 DEF Resume, Replay, Frame, TypeOK
  <2>4. live' \in [Tasks -> {"waiting", "ready", "working", "completed", "failed", "stuck"}]
    BY <1>1, <1>6 DEF Resume, Frame, TypeOK
  <2>5. TypeOK'
    BY <1>6, <2>2, <2>3, <2>4 DEF Resume, Frame, TypeOK, checkout, meta, evidence, people
  <2>. QED BY <1>6, <2>2, <2>5, FrameOrder DEF Resume, Frame, Begun, checkout, meta, evidence, people
<1>. QED BY <1>3, <1>4, <1>5, <1>6

LEMMA FrameDecide ==
    ASSUME Frame, NEW r \in Runs, NEW c \in Criteria, NEW option, option \in OptionsOf(followup[r][c]),
           Decide(r, c, option)
    PROVE  Frame'
<1>. DEFINE p == PropertyOf[c]
            anew == Evaluate(r, Acceptance(p), FALSE, {})'
<1>1. p \in Properties /\ anew \in States
  BY EvaluateStateNext DEF Properties
<1>2. PICK says \in {"supports", "contradicts", "inconclusive"} : Show(r, c, says)
  BY DEF Decide
<1>3. /\ logged' = [logged EXCEPT ![r][p] = anew] /\ state' = [state EXCEPT ![r][p] = logged'[r][p]]
      /\ followup' = [followup EXCEPT ![r][c] = "none"] /\ decided' = [decided EXCEPT ![r] = @ \cup {p}]
      /\ \E cs \in SUBSET {c} : approved' = [approved EXCEPT ![r] = @ \cup cs]
      /\ \E ps \in SUBSET {p} : waived' = [waived EXCEPT ![r] = @ \cup ps]
      /\ UNCHANGED <<main, driver, checkout, meta, recorded, tasks, red, edits, crashes>>
  BY DEF Decide
<1>. HIDE DEF p, anew
<1>4. logged' \in [Runs -> [Properties -> States]]
  BY <1>1, <1>3 DEF Frame, TypeOK
<1>5. state' \in [Runs -> [Properties -> States]]
  BY <1>1, <1>3, <1>4 DEF Frame, TypeOK
<1>6. /\ shown' \in [Runs -> [Criteria -> Outcomes \cup {"none"}]]
      /\ ever' \in [Runs -> SUBSET (Criteria \X {"red", "invalid", "green"})]
  BY <1>2 DEF Show, Frame, TypeOK, Outcomes
<1>7. /\ followup' \in [Runs -> [Criteria -> {"none", "manual", "approval", "investigation"}]]
      /\ decided' \in [Runs -> SUBSET Properties] /\ waived' \in [Runs -> SUBSET Properties]
      /\ approved' \in [Runs -> SUBSET Criteria]
  BY <1>1, <1>3 DEF Frame, TypeOK
<1>8. TypeOK'
  BY <1>3, <1>4, <1>5, <1>6, <1>7 DEF Frame, TypeOK, driver, checkout, meta
<1>9. ParentsFirst' /\ Unborn'
  BY <1>3 DEF Frame, TypeOK, ParentsFirst, Unborn, driver, meta
<1>10. Begun'
  BY <1>3 DEF Frame, TypeOK, Begun, driver, meta, checkout
<1>. QED BY <1>8, <1>9, <1>10 DEF Frame

LEMMA FramePeople ==
    ASSUME Frame, (\E r \in Runs : Merge(r)) \/ (\E t \in Trees : HumanCommit(t)) \/ UNCHANGED vars
    PROVE  Frame'
<1>1. main' \in Revisions /\ main' # <<>> /\ edits' \in 0..MaxEdits
  <2>1. ASSUME NEW r \in Runs, Merge(r) PROVE <1>1
    BY <2>1 DEF Merge, Frame, TypeOK
  <2>2. ASSUME NEW t \in Trees, HumanCommit(t) PROVE <1>1
    BY <2>2, CommitLeads, VerificationAssumption DEF HumanCommit, Frame, TypeOK
  <2>3. CASE UNCHANGED vars
    BY <2>3 DEF vars, Frame, TypeOK, Begun
  <2>. QED BY <2>1, <2>2, <2>3
<1>2. UNCHANGED <<driver, checkout, meta, events, evidence, people, crashes>>
  BY DEF Merge, HumanCommit, vars
<1>3. TypeOK'
  BY <1>1, <1>2 DEF Frame, TypeOK, driver, checkout, meta, events, evidence, people
<1>. QED BY <1>1, <1>2, <1>3, FrameOrder DEF Frame, Begun, driver, checkout, meta, evidence, people

LEMMA FrameNext == ASSUME Frame, [Next]_vars PROVE Frame'
<1>1. CASE Driver
  BY <1>1, FrameVerify, FrameStart, FrameTasks, FrameConclude, FrameEnds DEF Driver
<1>2. CASE People
  BY <1>2, FramePeople, FrameDecide DEF People
<1>3. CASE Crash \/ UNCHANGED vars
  BY <1>3, FrameEnds, FramePeople
<1>. QED BY <1>1, <1>2, <1>3 DEF Next

\* Every variable of a chain of runs keeps its type.
THEOREM TypeCorrect == Spec => []TypeOK
<1>1. Frame => TypeOK
  BY DEF Frame
<1>. QED BY <1>1, FrameInit, FrameNext, PTL DEF Spec

-----------------------------------------------------------------------------
(* The state of a run is what its events replay to.                        *)

\* Who drives, and the types of the verdicts.
Verdicts ==
    /\ cur \in 0..MaxRuns /\ (pc # "idle" => cur \in Runs)
    /\ swept \in [Properties -> States]
    /\ logged \in [Runs -> [Properties -> States]] /\ state \in [Runs -> [Properties -> States]]

\* While the final sweep is being judged the log is what was swept.
SweptLogged == pc \in {"guard", "inherit"} => logged[cur] = swept

\* What the guard may take away was satisfied without doubt or waiver, so
\* a second opinion that does not take it away is the first one again.
GuardedPlain ==
    pc = "guard" => \A p \in Properties : swept[p].is = "satisfied" =>
        /\ swept[p] = [is |-> "satisfied", atBase |-> FALSE]
        /\ ~ \E c \in Acceptance(p) : PropertyOf[c] \in waived[cur]

ReplayInv == Verdicts /\ ReplayAgrees /\ SweptLogged /\ GuardedPlain

LEMMA ReplayInit == Init => ReplayInv
BY VerificationAssumption DEF Init, ReplayInv, Verdicts, ReplayAgrees, SweptLogged, GuardedPlain,
   Unknown,
   States, Runs

\* Steps that touch no verdict.
LEMMA ReplayQuiet ==
    ASSUME ReplayInv,
           VerifyCriterion \/ Edit \/ TaskEnd \/ CommitResult
           \/ (\E t \in Tasks : TaskReady(t) \/ TaskStart(t))
           \/ (\E r \in Runs : Merge(r)) \/ (\E t \in Trees : HumanCommit(t)) \/ UNCHANGED vars
    PROVE  ReplayInv'
<1>1. /\ UNCHANGED <<cur, swept, logged, state, waived>>
      /\ pc' = pc \/ (pc = "tasks" /\ pc' \in {"verify", "final"})
  BY DEF VerifyCriterion, Edit, TaskEnd, CommitResult, TaskReady, TaskStart, Merge, HumanCommit, vars,
     driver, checkout, meta, events, evidence, people
<1>2. Verdicts'
  BY <1>1 DEF ReplayInv, Verdicts
<1>3. ReplayAgrees' /\ SweptLogged'
  BY <1>1 DEF ReplayInv, ReplayAgrees, SweptLogged
<1>4. GuardedPlain'
  BY <1>1 DEF ReplayInv, GuardedPlain
<1>. QED BY <1>2, <1>3, <1>4 DEF ReplayInv

\* Who drives changes only when a run starts.
LEMMA ReplayStart == ASSUME ReplayInv, Start PROVE ReplayInv'
<1>1. /\ cur' = cur + 1 /\ cur' \in Runs /\ pc = "idle" /\ pc' \in {"red", "tasks"}
      /\ UNCHANGED <<swept, logged, state>>
  BY DEF Start, Drive, events
<1>2. Verdicts'
  BY <1>1, VerificationAssumption DEF ReplayInv, Verdicts, Runs
<1>3. ReplayAgrees'
  BY <1>1 DEF ReplayInv, ReplayAgrees
<1>. QED BY <1>1, <1>2, <1>3 DEF ReplayInv, SweptLogged, GuardedPlain

LEMMA ReplayStops ==
    ASSUME ReplayInv, Finish \/ Crash
    PROVE  ReplayInv'
<1>1. /\ UNCHANGED <<cur, logged, state>>
      /\ pc # "idle" /\ pc' \in {"idle", "dead"} /\ (pc' = "idle" => pc = "finish")
      /\ swept' = [p \in Properties |-> Unknown]
  BY DEF Finish, Crash, Forget, ReplayInv, events
<1>2. swept' \in [Properties -> States]
  BY <1>1 DEF Unknown, States
<1>3. Verdicts'
  BY <1>1, <1>2 DEF ReplayInv, Verdicts
<1>4. ReplayAgrees'
  BY <1>1 DEF ReplayInv, ReplayAgrees
<1>. QED BY <1>1, <1>3, <1>4 DEF ReplayInv, SweptLogged, GuardedPlain

LEMMA ReplayResume == ASSUME ReplayInv, Resume PROVE ReplayInv'
<1>1. /\ UNCHANGED <<cur, swept, logged>> /\ pc = "dead" /\ pc' \in {"red", "tasks"}
      /\ state' = [state EXCEPT ![cur] = logged[cur]]
  BY DEF Resume, Replay, Drive
<1>2. cur \in Runs
  BY <1>1 DEF ReplayInv, Verdicts
<1>3. Verdicts'
  BY <1>1, <1>2 DEF ReplayInv, Verdicts
<1>4. ReplayAgrees'
  BY <1>1, <1>2 DEF ReplayInv, ReplayAgrees, Verdicts
<1>. QED BY <1>1, <1>3, <1>4 DEF ReplayInv, SweptLogged, GuardedPlain

\* A sweep that writes the same verdicts to the log and to the state.
LEMMA ReplayBoth ==
    ASSUME ReplayInv, NEW now \in [Properties -> States],
           pc # "idle", pc' \in {"tasks", "finish", "dead"},
           UNCHANGED <<cur, swept>>,
           logged' = [logged EXCEPT ![cur] = now],
           state' = [state EXCEPT ![cur] = now]
    PROVE  ReplayInv'
<1>1. cur \in Runs
  BY DEF ReplayInv, Verdicts
<1>2. Verdicts'
  BY <1>1 DEF ReplayInv, Verdicts
<1>3. ReplayAgrees'
  BY <1>1 DEF ReplayInv, ReplayAgrees, Verdicts
<1>. QED BY <1>2, <1>3 DEF ReplayInv, SweptLogged, GuardedPlain

LEMMA ReplayConcludeRed == ASSUME ReplayInv, ConcludeRed PROVE ReplayInv'
<1>. DEFINE now == [p \in Properties |-> IF Marked(p) # {} THEN Evaluate(cur, Marked(p), enforce, {})
                                                            ELSE logged[cur][p]]
<1>1. cur \in Runs /\ state[cur] = logged[cur] /\ logged[cur] \in [Properties -> States]
  BY DEF ReplayInv, Verdicts, ReplayAgrees, ConcludeRed, LogStates
<1>2. now \in [Properties -> States]
  BY <1>1, EvaluateState
<1>3. /\ logged' = [logged EXCEPT ![cur] = now] /\ state' = [state EXCEPT ![cur] = now]
      /\ pc = "red" /\ pc' \in {"dead", "tasks"} /\ UNCHANGED <<cur, swept>>
  BY <1>1 DEF ConcludeRed, LogStates, ReplayInv, Verdicts
<1>. HIDE DEF now
<1>. QED BY <1>2, <1>3, ReplayBoth

LEMMA ReplayConcludeVerify == ASSUME ReplayInv, ConcludeVerify PROVE ReplayInv'
<1>. DEFINE now == [p \in Properties |-> Evaluate(cur, Acceptance(p), enforce, {})]
<1>1. now \in [Properties -> States]
  BY EvaluateState
<1>2. /\ logged' = [logged EXCEPT ![cur] = now] /\ state' = [state EXCEPT ![cur] = now]
      /\ pc = "verify" /\ pc' = "tasks" /\ UNCHANGED <<cur, swept>>
  BY DEF ConcludeVerify, LogStates
<1>. HIDE DEF now
<1>. QED BY <1>1, <1>2, ReplayBoth

LEMMA ReplayConcludeFinal == ASSUME ReplayInv, ConcludeFinal PROVE ReplayInv'
<1>. DEFINE now == [p \in Properties |-> Evaluate(cur, Acceptance(p), enforce, InheritedFlips(cur))]
<1>1. now \in [Properties -> States]
  BY EvaluateState
<1>2. \A p \in Properties : now[p].is = "satisfied" =>
        /\ now[p] = [is |-> "satisfied", atBase |-> FALSE]
        /\ ~ \E c \in Acceptance(p) : PropertyOf[c] \in waived[cur]
  BY EvaluateSatisfied
<1>3. /\ logged' = [logged EXCEPT ![cur] = now] /\ swept' = now
      /\ pc = "final" /\ pc' \in {"guard", "inherit"} /\ UNCHANGED <<cur, state, waived>>
  BY DEF ConcludeFinal, LogStates, LookAgain, evidence
<1>. HIDE DEF now
<1>4. cur \in Runs
  BY <1>3 DEF ReplayInv, Verdicts
<1>5. Verdicts' /\ SweptLogged'
  BY <1>1, <1>3, <1>4 DEF ReplayInv, Verdicts, SweptLogged
<1>6. ReplayAgrees'
  BY <1>3, <1>4 DEF ReplayInv, ReplayAgrees, Verdicts
<1>7. GuardedPlain'
  BY <1>2, <1>3 DEF GuardedPlain
<1>. QED BY <1>5, <1>6, <1>7 DEF ReplayInv

\* Where the guard agrees it repeats what was swept, so the event it writes
\* and the state it leaves alone say the same.
LEMMA ReplayConcludeGuard == ASSUME ReplayInv, ConcludeGuard PROVE ReplayInv'
<1>. DEFINE again == Contaminated(swept)
            anew(p) == Evaluate(cur, Acceptance(p), FALSE, {})
            log == [p \in Properties |-> IF p \in again THEN anew(p) ELSE logged[cur][p]]
            kept == [p \in Properties |-> IF p \in again /\ anew(p).is \notin Good THEN anew(p) ELSE swept[p]]
<1>1. cur \in Runs /\ logged[cur] = swept /\ swept \in [Properties -> States]
  BY DEF ConcludeGuard, ReplayInv, Verdicts, SweptLogged
<1>2. log = kept
  <2>1. SUFFICES ASSUME NEW p \in Properties, p \in again, anew(p).is \in Good
                 PROVE  anew(p) = swept[p]
    BY <1>1
  <2>2. /\ swept[p] = [is |-> "satisfied", atBase |-> FALSE]
        /\ ~ \E c \in Acceptance(p) : PropertyOf[c] \in waived[cur]
    BY <2>1 DEF ConcludeGuard, ReplayInv, GuardedPlain, Contaminated
  <2>3. anew(p).is # "waived"
    BY <2>2, EvaluateWaived
  <2>. QED BY <2>1, <2>2, <2>3, EvaluateSatisfied DEF Good
<1>3. log \in [Properties -> States]
  BY <1>1, EvaluateState
<1>4. /\ logged' = [logged EXCEPT ![cur] = log] /\ swept' = kept
      /\ pc = "guard" /\ pc' = "inherit" /\ UNCHANGED <<cur, state>>
  BY <1>1 DEF ConcludeGuard, ReplayInv, Verdicts
<1>. HIDE DEF log, kept
<1>5. Verdicts' /\ SweptLogged'
  BY <1>1, <1>2, <1>3, <1>4 DEF ReplayInv, Verdicts, SweptLogged
<1>6. ReplayAgrees'
  BY <1>1, <1>4 DEF ReplayInv, ReplayAgrees, Verdicts
<1>. QED BY <1>4, <1>5, <1>6 DEF ReplayInv, GuardedPlain

LEMMA ReplayInherit == ASSUME ReplayInv, Inherit PROVE ReplayInv'
<1>. DEFINE now == [p \in Properties |-> IF p \in Inheritable THEN [swept[p] EXCEPT !.is = "satisfied"]
                                                             ELSE swept[p]]
<1>1. cur \in Runs /\ logged[cur] = swept /\ swept \in [Properties -> States]
  BY DEF Inherit, ReplayInv, Verdicts, SweptLogged
<1>2. now \in [Properties -> States]
  <2>1. SUFFICES ASSUME NEW p \in Properties PROVE [swept[p] EXCEPT !.is = "satisfied"] \in States
    BY <1>1
  <2>. QED BY <1>1 DEF States
<1>3. /\ logged' = [logged EXCEPT ![cur] = now] /\ state' = [state EXCEPT ![cur] = now]
      /\ pc = "inherit" /\ pc' = "finish" /\ UNCHANGED <<cur, swept>>
  BY <1>1 DEF Inherit, ReplayInv, Verdicts
<1>. HIDE DEF now
<1>. QED BY <1>2, <1>3, ReplayBoth

\* A decision derives one property again, in the log and in the state.
LEMMA ReplayDecide ==
    ASSUME ReplayInv, NEW r \in Runs, NEW c \in Criteria, NEW option, Decide(r, c, option)
    PROVE  ReplayInv'
<1>. DEFINE p == PropertyOf[c]
            anew == Evaluate(r, Acceptance(p), FALSE, {})'
<1>1. /\ logged' = [logged EXCEPT ![r][p] = anew] /\ state' = [state EXCEPT ![r][p] = logged'[r][p]]
      /\ pc \in {"idle", "dead"} /\ UNCHANGED <<cur, pc, swept>>
  BY DEF Decide, driver
<1>2. p \in Properties /\ anew \in States
  BY EvaluateStateNext DEF Properties
<1>. HIDE DEF p, anew
<1>3. logged'[r][p] = anew /\ logged' \in [Runs -> [Properties -> States]]
  BY <1>1, <1>2 DEF ReplayInv, Verdicts
<1>4. state' \in [Runs -> [Properties -> States]]
  BY <1>1, <1>2, <1>3 DEF ReplayInv, Verdicts
<1>5. ReplayAgrees'
  BY <1>1, <1>2, <1>3 DEF ReplayInv, Verdicts, ReplayAgrees
<1>6. Verdicts'
  BY <1>1, <1>3, <1>4 DEF ReplayInv, Verdicts
<1>. QED BY <1>1, <1>5, <1>6 DEF ReplayInv, SweptLogged, GuardedPlain

LEMMA ReplayNext == ReplayInv /\ [Next]_vars => ReplayInv'
<1>. SUFFICES ASSUME ReplayInv, [Next]_vars PROVE ReplayInv'
  OBVIOUS
<1>1. CASE Driver
  BY <1>1, ReplayQuiet, ReplayStart, ReplayStops, ReplayResume, ReplayConcludeRed, ReplayConcludeVerify,
     ReplayConcludeFinal, ReplayConcludeGuard, ReplayInherit DEF Driver
<1>2. CASE People
  BY <1>2, ReplayQuiet, ReplayDecide DEF People
<1>3. CASE Crash \/ UNCHANGED vars
  BY <1>3, ReplayStops, ReplayQuiet
<1>. QED BY <1>1, <1>2, <1>3 DEF Next

\* What a run's events replay to are its requirements, whatever was swept,
\* downgraded, inherited or decided (apply.ts, queries.ts).
THEOREM ReplayIsState == Spec => []ReplayAgrees
<1>1. ReplayInv => ReplayAgrees
  BY DEF ReplayInv
<1>. QED BY <1>1, ReplayInit, ReplayNext, PTL DEF Spec

-----------------------------------------------------------------------------
(* The red phase describes the base, as long as requireRedPhase stays on.  *)

Fresh(r) == ~recorded[r] /\ \A t \in Tasks : tasks[r][t] = "pending"

Owed == Discriminating # {} /\ ~recorded[cur]

\* Who drives, and the types of the progress a resume reads.
Progress ==
    /\ cur \in 0..MaxRuns /\ (pc # "idle" => cur \in Runs)
    /\ DOMAIN recorded = Runs /\ DOMAIN base = Runs
    /\ tasks \in [Runs -> [Tasks -> {"pending", "ready", "running", "completed", "failed"}]]

\* No task starts, and nothing changes the checkout, while the red phase of
\* a run is owed; a run that has not begun owes it.
RedInv ==
    /\ Progress
    /\ \A r \in Runs : r > cur => Fresh(r)
    /\ pc = "red" => Owed
    /\ pc # "idle" /\ Owed => pc \in {"red", "dead"} /\ Fresh(cur) /\ tree = TreeOf(base[cur])

LEMMA RedInit == Init => RedInv
BY VerificationAssumption DEF Init, RedInv, Progress, Fresh, Runs

\* Steps that keep the progress: of the driver, within a phase or to its end,
\* and of people.
LEMMA RedQuiet ==
    ASSUME RedInv,
           VerifyCriterion \/ CommitResult \/ ConcludeFinal \/ ConcludeGuard \/ Inherit \/ Finish \/ Crash
           \/ People \/ UNCHANGED vars
    PROVE  RedInv'
<1>1. /\ UNCHANGED <<cur, recorded, tasks, base, tree>>
      /\ \/ pc' = pc
         \/ pc \notin {"idle", "red", "dead"} /\ pc' \notin {"red"}
         \/ pc \notin {"idle"} /\ pc' = "dead"
  <2>1. CASE VerifyCriterion  BY <2>1 DEF VerifyCriterion, checkout, meta, events
  <2>2. CASE CommitResult  BY <2>2 DEF CommitResult, meta, events
  <2>3. CASE ConcludeFinal  BY <2>3 DEF ConcludeFinal, LookAgain, checkout, meta
  <2>4. CASE ConcludeGuard  BY <2>4 DEF ConcludeGuard, checkout, meta
  <2>5. CASE Inherit  BY <2>5 DEF Inherit, checkout, meta
  <2>6. CASE Finish  BY <2>6 DEF Finish, checkout, events
  <2>7. CASE Crash  BY <2>7 DEF Crash, checkout, meta, events
  <2>8. CASE People
    <3>1. ASSUME NEW r, NEW c, NEW o, Decide(r, c, o)
          PROVE  UNCHANGED <<cur, recorded, tasks, base, tree, pc>>
      BY <3>1 DEF Decide, driver, checkout, meta
    <3>2. ASSUME NEW r, Merge(r) PROVE UNCHANGED <<cur, recorded, tasks, base, tree, pc>>
      BY <3>2 DEF Merge, driver, checkout, meta, events
    <3>3. ASSUME NEW t, HumanCommit(t) PROVE UNCHANGED <<cur, recorded, tasks, base, tree, pc>>
      BY <3>3 DEF HumanCommit, driver, checkout, meta, events
    <3> QED  BY <2>8, <3>1, <3>2, <3>3 DEF People
  <2>9. CASE UNCHANGED vars  BY <2>9 DEF vars, driver, checkout, meta, events
  <2> QED  BY <2>1, <2>2, <2>3, <2>4, <2>5, <2>6, <2>7, <2>8, <2>9
<1>2. Progress'
  BY <1>1 DEF RedInv, Progress
<1>3. \A r \in Runs : Fresh(r)' = Fresh(r)
  BY <1>1 DEF Fresh
<1>4. Owed' = Owed /\ TreeOf(base[cur])' = TreeOf(base[cur])
  BY <1>1 DEF Owed, TreeOf
<1>. QED BY <1>1, <1>2, <1>3, <1>4 DEF RedInv, Progress

\* A step of the tasks finds the red phase done.
LEMMA RedTasks ==
    ASSUME RedInv,
           Edit \/ TaskEnd \/ ConcludeVerify \/ (\E t \in Tasks : TaskReady(t) \/ TaskStart(t))
    PROVE  RedInv'
<1>1. pc \in {"tasks", "verify"} /\ cur \in Runs /\ ~Owed
  BY DEF Edit, TaskEnd, ConcludeVerify, LogStates, TaskReady, TaskStart, RedInv, Progress
<1>2. /\ UNCHANGED <<cur, recorded, base>> /\ pc' \in {"tasks", "verify"}
      /\ \A r \in Runs : r # cur => tasks'[r] = tasks[r]
      /\ tasks' \in [Runs -> [Tasks -> {"pending", "ready", "running", "completed", "failed"}]]
  <2>1. CASE Edit
    BY <1>1, <2>1 DEF Edit, RedInv, Progress, driver, meta, events
  <2>2. CASE TaskEnd
    BY <1>1, <2>2 DEF TaskEnd, RedInv, Progress, meta, Tasks
  <2>3. CASE ConcludeVerify
    BY <1>1, <2>3 DEF ConcludeVerify, LogStates, RedInv, Progress, meta, Tasks
  <2>4. ASSUME NEW t \in Tasks, TaskReady(t)
        PROVE  <1>2
    BY <1>1, <2>4 DEF TaskReady, RedInv, Progress, meta
  <2>5. ASSUME NEW t \in Tasks, TaskStart(t)
        PROVE  <1>2
    BY <1>1, <2>5 DEF TaskStart, RedInv, Progress, meta
  <2>. QED BY <2>1, <2>2, <2>3, <2>4, <2>5
<1>3. Progress' /\ ~Owed'
  BY <1>1, <1>2 DEF RedInv, Progress, Owed
<1>4. \A r \in Runs : r > cur => Fresh(r)'
  BY <1>2 DEF RedInv, Fresh, Progress, Runs
<1>. QED BY <1>2, <1>3, <1>4 DEF RedInv

LEMMA RedConcluded == ASSUME RedInv, ConcludeRed PROVE RedInv'
<1>1. /\ UNCHANGED <<cur, tasks, base>> /\ cur \in Runs /\ pc' \in {"dead", "tasks"}
      /\ recorded' = [recorded EXCEPT ![cur] = TRUE]
  BY DEF ConcludeRed, LogStates, RedInv, Progress, meta
<1>2. Progress' /\ ~Owed'
  BY <1>1 DEF RedInv, Progress, Owed
<1>3. \A r \in Runs : r > cur => Fresh(r)'
  BY <1>1 DEF RedInv, Fresh, Progress, Runs
<1>. QED BY <1>1, <1>2, <1>3 DEF RedInv

LEMMA RedStart == ASSUME Requires = {TRUE}, RedInv, Start PROVE RedInv'
<1>1. /\ cur' = cur + 1 /\ cur' \in Runs /\ UNCHANGED <<recorded, tasks>>
      /\ base' = [base EXCEPT ![cur'] = main] /\ tree' = TreeOf(main)
  BY DEF Start, events
<1>2. Fresh(cur') /\ cur' > cur
  BY <1>1 DEF RedInv, Progress
<1>3. pc' = IF Discriminating # {} THEN "red" ELSE "tasks"
  BY <1>1, <1>2 DEF Start, Drive, NeedsRed, Fresh
<1>4. Progress'
  BY <1>1, VerificationAssumption DEF RedInv, Progress, Runs
<1>5. TreeOf(base[cur])' = TreeOf(main)
  BY <1>1 DEF RedInv, Progress, TreeOf
<1>6. \A r \in Runs : r > cur' => Fresh(r)'
  BY <1>1 DEF RedInv, Progress, Runs, Fresh
<1>7. Owed' = (Discriminating # {})
  BY <1>1, <1>2 DEF Owed, Fresh
<1>8. Fresh(cur)'
  BY <1>1, <1>2 DEF Fresh
<1>. QED BY <1>1, <1>3, <1>4, <1>5, <1>6, <1>7, <1>8 DEF RedInv

LEMMA RedResume == ASSUME Requires = {TRUE}, RedInv, Resume PROVE RedInv'
<1>1. /\ UNCHANGED <<cur, recorded, tasks, base, tree>> /\ pc = "dead" /\ cur \in Runs
  BY DEF Resume, Replay, RedInv, Progress, checkout, meta
<1>2. Owed => Fresh(cur) /\ tree = TreeOf(base[cur])
  BY <1>1 DEF RedInv
<1>3. pc' = IF Owed THEN "red" ELSE "tasks"
  BY <1>2 DEF Resume, Replay, Drive, NeedsRed, Fresh, Owed
<1>4. Progress'
  BY <1>1 DEF RedInv, Progress
<1>5. (\A r \in Runs : Fresh(r)' = Fresh(r)) /\ Owed' = Owed /\ TreeOf(base[cur])' = TreeOf(base[cur])
  BY <1>1 DEF Fresh, Owed, TreeOf
<1>. QED BY <1>1, <1>2, <1>3, <1>4, <1>5 DEF RedInv

LEMMA RedNext == ASSUME Requires = {TRUE} PROVE RedInv /\ [Next]_vars => RedInv'
BY RedQuiet, RedTasks, RedConcluded, RedStart, RedResume DEF Next, Driver

\* With requireRedPhase on for every process of the project, the red phase of
\* a run (runRedPhaseSweep) only ever looks at the run's base tree, however
\* often the run crashes and is resumed.
THEOREM RedSeesBase == ASSUME Requires = {TRUE} PROVE Spec => []RedDescribesBase
<1>1. RedInv => RedDescribesBase
  BY DEF RedInv, RedDescribesBase
<1>. QED BY <1>1, RedInit, RedNext, PTL DEF Spec

-----------------------------------------------------------------------------
(* What the final sweep and the guard leave as satisfied holds.            *)

\* Criteria that look at the checkout.
Mechanical == {c \in Criteria : Kind[c] \in {"command", "suite", "file"}}

\* From the commit on the checkout holds what was committed.
OnCommit == pc \in {"final", "guard", "inherit", "finish"} => tree = TreeOf(head)

\* What the final sweep has shown to pass does so in the checkout.
SweptWorks ==
    pc = "final" => \A c \in Mechanical \ todo :
        shown[cur][c] = "supports" => tree \in Passes[c] \/ (dirt /\ c \in Lifted)

\* What is satisfied before the guard has looked passes in the checkout; what the
\* guard has shown to pass does so in the commit.
GuardWorks ==
    pc = "guard" => \A c \in Mechanical : swept[PropertyOf[c]].is = "satisfied" =>
        /\ tree \in Passes[c] \/ (dirt /\ c \in Lifted)
        /\ c \notin todo /\ shown[cur][c] = "supports" /\ PropertyOf[c] \in Contaminated(swept) =>
              tree \in Passes[c]

HoldsInv == OnCommit /\ SweptWorks /\ GuardWorks /\ SatisfiedHolds

LEMMA HoldsInit == Init => HoldsInv
BY DEF Init, HoldsInv, OnCommit, SweptWorks, GuardWorks, SatisfiedHolds

\* What a satisfied criterion shows: a pass, that the flip rule accepts.
LEMMA VerdictSupports ==
    ASSUME NEW r, NEW c, NEW must, NEW flips, NEW shows, shown[r][c] = shows
    PROVE  /\ shows # "supports" => Verdict(r, c, must, flips) = shows
           /\ shows = "supports" => Verdict(r, c, must, flips) \in {"supports", "passed at base", "no red"}
<1>1. CASE ~(must /\ c \in Enforced /\ shown[r][c] = "supports")
  BY <1>1 DEF Verdict
<1>2. CASE must /\ c \in Enforced /\ shown[r][c] = "supports"
  <2>1. Verdict(r, c, must, flips) =
           CASE red[r][c] = "supports" -> IF c \in flips THEN "supports" ELSE "passed at base"
             [] red[r][c] = "contradicts" -> "supports"
             [] OTHER -> "no red"
    BY <1>2 DEF Verdict
  <2>. QED BY <1>2, <2>1
<1>. QED BY <1>1, <1>2

LEMMA SatisfiedShown ==
    ASSUME Frame, NEW r \in Runs, NEW cs \in SUBSET Criteria, NEW must, NEW flips,
           Evaluate(r, cs, must, flips).is = "satisfied"
    PROVE  \A c \in cs : Verdict(r, c, must, flips) = "supports" /\ shown[r][c] = "supports"
<1>. SUFFICES ASSUME NEW c \in cs PROVE Verdict(r, c, must, flips) = "supports" /\ shown[r][c] = "supports"
  OBVIOUS
<1>. DEFINE says == Verdict(r, c, must, flips)
<1>1. says \notin {"contradicts", "inconclusive", "passed at base", "no red", "none"}
  BY DEF Evaluate
<1>2. shown[r][c] \in {"supports", "contradicts", "inconclusive", "none"}
  BY DEF Frame, TypeOK, Outcomes
<1>3. PICK shows : shows = shown[r][c]
  OBVIOUS
<1>4. /\ shows # "supports" => says = shows
      /\ shows = "supports" => says \in {"supports", "passed at base", "no red"}
  BY <1>3, VerdictSupports
<1>. HIDE DEF says
<1>5. says = "supports" /\ shown[r][c] = "supports"
  BY <1>1, <1>2, <1>3, <1>4
<1>. QED BY <1>5 DEF says

LEMMA RecordWorks ==
    ASSUME Frame, VerifyCriterion, pc # "red", First(todo) \in Mechanical,
           shown'[cur][First(todo)] = "supports"
    PROVE  Works(First(todo))
<1>. DEFINE c == First(todo)
<1>1. PICK o \in Observations(c) : Show(cur, c, o.saw)
  BY DEF VerifyCriterion, Mechanical
<1>2. cur \in Runs /\ c \in Criteria /\ o.saw = "supports"
  BY <1>1 DEF Show, Frame, TypeOK, Begun, VerifyCriterion, Mechanical
<1>3. Ran(c) = "supports"
  BY <1>1, <1>2 DEF Observations, OfFile, OfCommand, Mechanical
<1>. QED BY <1>3 DEF Ran

\* One more criterion of the final sweep or of the guard.
LEMMA HoldsVerify == ASSUME Frame, HoldsInv, VerifyCriterion PROVE HoldsInv'
<1>. DEFINE c == First(todo)
<1>1. /\ cur \in Runs /\ todo' = todo \ {c} /\ DOMAIN shown = Runs
      /\ pc \in {"red", "verify", "final", "guard"}
      /\ UNCHANGED <<cur, pc, swept, guarded, tree, dirt, head>>
  BY DEF VerifyCriterion, checkout, Frame, TypeOK, Begun
<1>2. \A d \in Criteria \ {c} : shown'[cur][d] = shown[cur][d]
  BY <1>1 DEF VerifyCriterion, Show, evidence, Frame, TypeOK
<1>3. OnCommit' /\ SatisfiedHolds'
  BY <1>1 DEF HoldsInv, OnCommit, TreeOf, SatisfiedHolds
<1>4. c \in Mechanical /\ shown'[cur][c] = "supports" /\ pc # "red" => Works(c)
  BY RecordWorks
<1>5. SweptWorks'
  <2>1. SUFFICES ASSUME pc = "final", NEW d \in Mechanical \ todo', shown'[cur][d] = "supports"
                 PROVE  tree \in Passes[d] \/ (dirt /\ d \in Lifted)
    BY <1>1 DEF SweptWorks
  <2>2. CASE d = c
    BY <1>4, <2>1, <2>2 DEF Works
  <2>3. CASE d # c
    BY <1>1, <1>2, <2>1, <2>3 DEF HoldsInv, SweptWorks, Mechanical
  <2>. QED BY <2>2, <2>3
<1>6. GuardWorks'
  <2>1. SUFFICES ASSUME pc = "guard", NEW d \in Mechanical, swept[PropertyOf[d]].is = "satisfied"
                 PROVE  /\ tree \in Passes[d] \/ (dirt /\ d \in Lifted)
                        /\ d \notin todo' /\ shown'[cur][d] = "supports"
                              /\ PropertyOf[d] \in Contaminated(swept) => tree \in Passes[d]
    BY <1>1 DEF GuardWorks, Contaminated
  <2>2. tree \in Passes[d] \/ (dirt /\ d \in Lifted)
    BY <2>1 DEF HoldsInv, GuardWorks
  <2>3. CASE d = c
    BY <1>4, <2>1, <2>2, <2>3 DEF Works, HoldsInv, OnCommit
  <2>4. CASE d # c
    BY <1>1, <1>2, <2>1, <2>2, <2>4 DEF HoldsInv, GuardWorks, Mechanical
  <2>. QED BY <2>3, <2>4
<1>. QED BY <1>3, <1>5, <1>6 DEF HoldsInv

\* The commit makes the checkout what the revision leads to.
LEMMA HoldsCommit == ASSUME Frame, HoldsInv, CommitResult PROVE HoldsInv'
<1>1. /\ pc' = "final" /\ todo' = Criteria /\ tree' = tree
      /\ head' = IF tree # TreeOf(head) THEN Commit(head, cur, tree) ELSE head
  BY DEF CommitResult
<1>2. TreeOf(head') = tree
  BY <1>1, CommitLeads DEF Frame, TypeOK
<1>3. OnCommit'
  BY <1>1, <1>2 DEF OnCommit, TreeOf
<1>. QED BY <1>1, <1>3 DEF HoldsInv, SweptWorks, GuardWorks, SatisfiedHolds, Mechanical

\* The final sweep is over: what it calls satisfied passes in the checkout, and
\* nothing of it is named dirt, or the guard is to look.
LEMMA HoldsFinal == ASSUME Frame, HoldsInv, ConcludeFinal PROVE HoldsInv'
<1>. DEFINE now == [p \in Properties |-> Evaluate(cur, Acceptance(p), enforce, InheritedFlips(cur))]
<1>1. /\ cur \in Runs /\ pc = "final" /\ todo = {} /\ swept' = now /\ UNCHANGED <<tree, dirt, head>>
      /\ pc' \in {"guard", "inherit"}
      /\ pc' = "guard" => todo' = {c \in Criteria : PropertyOf[c] \in Contaminated(now)}
      /\ pc' = "inherit" /\ guarded' => (dirt => Contaminated(now) = {})
  BY DEF ConcludeFinal, LookAgain, checkout, Frame, Begun
<1>2. ASSUME NEW c \in Mechanical, now[PropertyOf[c]].is = "satisfied"
      PROVE  tree \in Passes[c] \/ (dirt /\ c \in Lifted)
  <2>. DEFINE p == PropertyOf[c]
  <2>1. c \in Criteria /\ p \in Properties /\ c \in Acceptance(p) /\ Acceptance(p) \in SUBSET Criteria
    BY DEF Mechanical, Properties, Acceptance
  <2>2. Evaluate(cur, Acceptance(p), enforce, InheritedFlips(cur)).is = "satisfied"
    BY <1>2, <2>1
  <2>3. shown[cur][c] = "supports"
    BY <1>1, <2>1, <2>2, SatisfiedShown
  <2>. QED BY <1>1, <2>3 DEF HoldsInv, SweptWorks
<1>. HIDE DEF now
<1>3. OnCommit'
  BY <1>1 DEF HoldsInv, OnCommit, TreeOf
<1>4. GuardWorks'
  <2>1. ASSUME NEW c \in Mechanical, pc' = "guard", PropertyOf[c] \in Contaminated(now)
        PROVE  c \in todo'
    BY <1>1, <2>1 DEF Mechanical
  <2>2. Contaminated(swept)' = Contaminated(now)
    BY <1>1 DEF Contaminated
  <2>. QED BY <1>1, <1>2, <2>1, <2>2 DEF GuardWorks
<1>5. SatisfiedHolds'
  <2>1. SUFFICES ASSUME pc' = "inherit", guarded', NEW c \in Mechanical, now[PropertyOf[c]].is = "satisfied"
                 PROVE  tree \in Passes[c] \/ (dirt /\ c \in Lifted \ Names)
    BY <1>1, <1>3 DEF SatisfiedHolds, Mechanical, OnCommit, TreeOf
  <2>2. dirt => c \notin Names
    BY <1>1, <2>1, VerificationAssumption DEF Contaminated, Mechanical, Properties
  <2>. QED BY <1>2, <2>1, <2>2
<1>. QED BY <1>1, <1>3, <1>4, <1>5 DEF HoldsInv, SweptWorks

\* What the guard leaves as satisfied it has seen to pass, or names no dirt.
LEMMA HoldsGuard == ASSUME Frame, ReplayInv, HoldsInv, ConcludeGuard PROVE HoldsInv'
<1>. DEFINE anew(p) == Evaluate(cur, Acceptance(p), FALSE, {})
            kept == [p \in Properties |-> IF p \in Contaminated(swept) /\ anew(p).is \notin Good
                                          THEN anew(p) ELSE swept[p]]
<1>1. /\ cur \in Runs /\ pc = "guard" /\ todo = {} /\ swept' = kept /\ UNCHANGED <<tree, dirt, head>>
      /\ pc' = "inherit" /\ tree = TreeOf(head)
  BY DEF ConcludeGuard, checkout, Frame, Begun, HoldsInv, OnCommit
<1>2. ASSUME NEW c \in Mechanical, kept[PropertyOf[c]].is = "satisfied"
      PROVE  tree \in Passes[c] \/ (dirt /\ c \in Lifted \ Names)
  <2>. DEFINE p == PropertyOf[c]
  <2>1. c \in Criteria /\ p \in Properties /\ c \in Acceptance(p) /\ Acceptance(p) \in SUBSET Criteria
    BY DEF Mechanical, Properties, Acceptance
  <2>2. swept[p].is = "satisfied" /\ (p \in Contaminated(swept) => anew(p).is \in Good)
    BY <1>2, <2>1 DEF Good
  <2>3. CASE p \in Contaminated(swept)
    <3>1. ~ \E d \in Acceptance(p) : PropertyOf[d] \in waived[cur]
      BY <1>1, <2>1, <2>2 DEF ReplayInv, GuardedPlain
    <3>2. anew(p).is = "satisfied"
      BY <2>2, <2>3, <3>1, EvaluateWaived DEF Good
    <3>3. shown[cur][c] = "supports"
      <4>1. PICK must : must = FALSE
        OBVIOUS
      <4>2. Evaluate(cur, Acceptance(p), must, {}).is = "satisfied"
        BY <3>2, <4>1
      <4>. QED BY <1>1, <2>1, <4>2, SatisfiedShown
    <3>. QED BY <1>1, <2>2, <2>3, <3>3 DEF HoldsInv, GuardWorks
  <2>4. CASE p \notin Contaminated(swept)
    <3>1. c \notin Names
      BY <2>1, <2>2, <2>4 DEF Contaminated
    <3>. QED BY <1>1, <2>2, <3>1 DEF HoldsInv, GuardWorks
  <2>. QED BY <2>3, <2>4
<1>. HIDE DEF kept
<1>3. SatisfiedHolds'
  BY <1>1, <1>2 DEF SatisfiedHolds, Mechanical, TreeOf
<1>. QED BY <1>1, <1>3 DEF HoldsInv, OnCommit, SweptWorks, GuardWorks, TreeOf

\* Every other step is outside the sweeps or leaves what they saw.
LEMMA HoldsQuiet ==
    ASSUME HoldsInv,
           Start \/ ConcludeRed \/ ConcludeVerify \/ Inherit \/ Finish \/ Crash \/ Resume \/ Edit \/ TaskEnd
           \/ (\E t \in Tasks : TaskReady(t) \/ TaskStart(t)) \/ People \/ UNCHANGED vars
    PROVE  HoldsInv'
<1>1. CASE pc' \notin {"final", "guard", "inherit", "finish"}
  BY <1>1 DEF HoldsInv, OnCommit, SweptWorks, GuardWorks, SatisfiedHolds
<1>2. CASE pc' \in {"final", "guard", "inherit", "finish"}
  <2>1. CASE Inherit
    BY <2>1 DEF Inherit, checkout, HoldsInv, OnCommit, SweptWorks, GuardWorks, SatisfiedHolds, TreeOf
  <2>2. CASE UNCHANGED vars
    BY <2>2 DEF HoldsInv, OnCommit, SweptWorks, GuardWorks, SatisfiedHolds, TreeOf, Contaminated, vars, driver,
       checkout, evidence
  <2>6. CASE People
    <3>1. ASSUME NEW r, NEW c, NEW option, Decide(r, c, option) PROVE FALSE
      BY <1>2, <3>1 DEF Decide, driver
    <3>2. ASSUME NEW r, Merge(r) PROVE FALSE
      BY <1>2, <3>2 DEF Merge, driver
    <3>3. ASSUME NEW t, HumanCommit(t) PROVE FALSE
      BY <1>2, <3>3 DEF HumanCommit, driver
    <3>. QED BY <2>6, <3>1, <3>2, <3>3 DEF People
  <2>3. CASE Start \/ Resume
    BY <1>2, <2>3 DEF Start, Resume, Drive
  <2>4. CASE ConcludeRed \/ ConcludeVerify \/ Finish \/ Crash
    BY <1>2, <2>4 DEF ConcludeRed, ConcludeVerify, Finish, Crash
  <2>5. CASE Edit \/ TaskEnd \/ \E t \in Tasks : TaskReady(t) \/ TaskStart(t)
    BY <1>2, <2>5 DEF Edit, TaskEnd, TaskReady, TaskStart, driver
  <2>. QED BY <2>1, <2>2, <2>3, <2>4, <2>5, <2>6
<1>. QED BY <1>1, <1>2

LEMMA HoldsNext == ASSUME Frame, ReplayInv, HoldsInv, [Next]_vars PROVE HoldsInv'
BY HoldsVerify, HoldsCommit, HoldsFinal, HoldsGuard, HoldsQuiet DEF Next, Driver

\* A command, suite or file criterion of a property that finishRun leaves as satisfied
\* passes on the committed result, the dirt that the commit leaves out notwithstanding.
THEOREM SatisfiedIsTrue == Spec => []SatisfiedHolds
<1>1. HoldsInv => SatisfiedHolds
  BY DEF HoldsInv
<1>2. Init => Frame /\ ReplayInv /\ HoldsInv
  BY FrameInit, ReplayInit, HoldsInit
<1>3. (Frame /\ ReplayInv /\ HoldsInv) /\ [Next]_vars => (Frame /\ ReplayInv /\ HoldsInv)'
  BY FrameNext, ReplayNext, HoldsNext
<1>. QED BY <1>1, <1>2, <1>3, PTL DEF Spec

-----------------------------------------------------------------------------
(* A satisfied property was made to hold.                                  *)

\* What was made to hold failed first, at the base of the run or of an ancestor.
Earned(r, p) ==
    \A c \in Discriminating : PropertyOf[c] = p =>
        \E a \in {r} \cup Lineage(r) : FailedOn(c, TreeOf(base[a]))

Undecided(r, p) == \A a \in {r} \cup Lineage(r) : p \notin decided[a]

SawRed(r, c) == <<c, "red">> \in ever[r] \/ red[r][c] = "contradicts"

\* A process enforces the flip rule, and its red phase looks at marked criteria.
Enforces ==
    /\ pc \notin {"idle", "dead"} => enforce = TRUE
    /\ pc = "red" => todo \subseteq Discriminating

\* What was seen red failed at the base.
RedsFailed ==
    \A r \in Runs, c \in Discriminating : SawRed(r, c) => r <= cur /\ FailedOn(c, TreeOf(base[r]))

\* What is logged as satisfied, without a human's word, was made to hold.
LogEarned ==
    \A r \in Runs, p \in Properties : logged[r][p].is = "satisfied" =>
        r <= cur /\ (Undecided(r, p) => Earned(r, p))

SweptEarned ==
    pc \in {"guard", "inherit"} => \A p \in Properties : swept[p].is = "satisfied" => Earned(cur, p)

EarnedInv == Enforces /\ RedsFailed /\ LogEarned /\ SweptEarned

\* The flip rule is for marked criteria of every kind but suites.
Flippable == Requires = {TRUE} /\ \A c \in Discriminating : Kind[c] # "suite"

LEMMA EarnedInit == Init => EarnedInv
BY VerificationAssumption DEF Init, EarnedInv, Enforces, RedsFailed, SawRed, LogEarned,
   SweptEarned, Unknown

\* What a sweep under the flip rule calls satisfied is earned.
LEMMA SweepEarns ==
    ASSUME Flippable, Frame, EarnedInv, cur \in Runs, NEW p \in Properties,
           NEW cs \in SUBSET Criteria, Marked(p) \subseteq cs,
           NEW flips \in SUBSET InheritedFlips(cur), Evaluate(cur, cs, TRUE, flips).is = "satisfied"
    PROVE  Earned(cur, p)
<1>1. PICK must : must = TRUE
  OBVIOUS
<1>. SUFFICES ASSUME NEW c \in Discriminating, PropertyOf[c] = p
              PROVE  \E a \in {cur} \cup Lineage(cur) : FailedOn(c, TreeOf(base[a]))
  BY DEF Earned
<1>2. c \in cs /\ c \in Enforced
  BY VerificationAssumption DEF Marked, Acceptance, Flippable, Enforced
<1>3. Verdict(cur, c, must, flips) = "supports" /\ shown[cur][c] = "supports"
  <2>1. Evaluate(cur, cs, must, flips).is = "satisfied"
    BY <1>1
  <2>. QED BY <1>2, <2>1, SatisfiedShown
<1>4. red[cur][c] = "contradicts" \/ (red[cur][c] = "supports" /\ c \in flips)
  BY <1>1, <1>2, <1>3 DEF Verdict
<1>5. CASE red[cur][c] = "contradicts"
  BY <1>5 DEF EarnedInv, RedsFailed, SawRed
<1>6. CASE c \in flips
  <2>1. PICK a \in Lineage(cur) : <<c, "red">> \in ever[a]
    BY <1>6 DEF InheritedFlips
  <2>2. a \in Runs
    BY <2>1, LineageBefore DEF Frame
  <2>. QED BY <2>1, <2>2 DEF EarnedInv, RedsFailed, SawRed
<1>. QED BY <1>4, <1>5, <1>6

\* Who is whose parent, and where runs began, outlasts every other step.
LEMMA EarnedKept ==
    ASSUME UNCHANGED <<parent, base>>
    PROVE  \A r, p : Earned(r, p)' = Earned(r, p)
BY DEF Earned, Lineage, From, FailedOn, TreeOf

\* A record in the red phase is of what fails at the base.
LEMMA EarnedVerify ==
    ASSUME Flippable, Frame, RedInv, EarnedInv, VerifyCriterion PROVE EarnedInv'
<1>. DEFINE c == First(todo)
<1>1. /\ cur \in Runs /\ todo' = todo \ {c} /\ c \in todo /\ todo \subseteq Criteria
      /\ UNCHANGED <<cur, pc, enforce, swept, logged, parent, base, decided>>
  BY FirstIsOne DEF VerifyCriterion, checkout, events, meta, Frame, TypeOK, Begun
<1>2. Enforces'
  BY <1>1 DEF EarnedInv, Enforces
<1>3. LogEarned' /\ SweptEarned'
  <2>1. \A r, p : Undecided(r, p)' = Undecided(r, p)
    BY <1>1 DEF Undecided, Lineage, From
  <2>. QED BY <1>1, <2>1, EarnedKept DEF EarnedInv, LogEarned, SweptEarned
<1>4. RedsFailed'
  <2>1. SUFFICES ASSUME NEW r \in Runs, NEW d \in Discriminating, SawRed(r, d)', ~SawRed(r, d)
                 PROVE  r <= cur /\ FailedOn(d, TreeOf(base[r]))
    BY <1>1 DEF EarnedInv, RedsFailed, FailedOn, TreeOf
  <2>2. PICK o \in Observations(c) : pc = "red" /\ ShowRed(cur, c, o.saw)
    <3>1. CASE UNCHANGED evidence
      BY <2>1, <3>1 DEF evidence, SawRed
    <3>2. ASSUME NEW o \in Observations(c), Show(cur, c, o.saw), UNCHANGED red PROVE FALSE
      BY <2>1, <3>2, <1>1 DEF Show, SawRed, Frame, TypeOK
    <3>. QED BY <3>1, <3>2 DEF VerifyCriterion
  <2>3. r = cur /\ d = c /\ o.saw = "contradicts"
    BY <1>1, <2>1, <2>2 DEF ShowRed, SawRed, Frame, TypeOK
  <2>4. Ran(c) = "contradicts" /\ c \in Criteria
    BY <1>1, <2>2, <2>3, VerificationAssumption DEF Observations, OfFile, OfCommand, EarnedInv, Enforces
  <2>5. tree \notin Passes[c] /\ (Kind[c] = "file" \/ tree \notin Broken[c])
    BY <2>2, <2>4 DEF Ran, Works
  <2>6. tree = TreeOf(base[cur])
    BY <2>2 DEF RedInv
  <2>. QED BY <1>1, <2>3, <2>5, <2>6 DEF FailedOn, Runs
<1>. QED BY <1>2, <1>3, <1>4 DEF EarnedInv

\* The next run begins where no record is.
LEMMA EarnedStart == ASSUME Flippable, Frame, EarnedInv, Start, Frame' PROVE EarnedInv'
<1>. DEFINE n == cur + 1
<1>1. /\ cur' = n /\ n \in Runs /\ pc = "idle"
      /\ parent' = [parent EXCEPT ![n] = DefaultParent] /\ base' = [base EXCEPT ![n] = main]
      /\ UNCHANGED <<swept, logged, ever, red, decided>>
  BY DEF Start, events, evidence, people
<1>2. PICK must \in {TRUE} : Drive(n, must)
  BY DEF Start, Flippable
<1>3. Enforces' /\ pc' \notin {"guard", "inherit"}
  BY <1>1, <1>2 DEF Enforces, Drive
<1>4. \A r \in Runs : r # n => parent'[r] = parent[r] /\ base'[r] = base[r]
  BY <1>1 DEF Frame, TypeOK
<1>5. \A r \in Runs : r <= cur => r < n /\ r # n /\ r <= n
  BY <1>1, VerificationAssumption DEF Runs, Frame, TypeOK
<1>. HIDE DEF n
<1>6. RedsFailed'
  BY <1>1, <1>4, <1>5 DEF EarnedInv, RedsFailed, SawRed, FailedOn, TreeOf
<1>7. ASSUME NEW r \in Runs, r <= cur
      PROVE  /\ Lineage(r)' = Lineage(r)
             /\ \A a \in {r} \cup Lineage(r) : base'[a] = base[a]
  <2>1. Lineage(r)' = Lineage(r)
    BY <1>1, <1>4, <1>5, <1>7, LineageKept DEF Frame
  <2>2. \A a \in {r} \cup Lineage(r) : a \in Runs /\ a # n
    <3>1. \A a \in Lineage(r) : a \in Runs /\ a < r
      BY LineageBefore DEF Frame
    <3>2. r \in Nat /\ n \in Nat /\ r < n /\ \A a \in Runs : a \in Nat
      BY <1>1, <1>5, <1>7, VerificationAssumption DEF Runs
    <3>. QED BY <3>1, <3>2
  <2>. QED BY <1>4, <2>1, <2>2
<1>8. LogEarned'
  <2>1. SUFFICES ASSUME NEW r \in Runs, NEW p \in Properties, logged[r][p].is = "satisfied"
                 PROVE  r <= n /\ (Undecided(r, p)' => Earned(r, p)')
    BY <1>1 DEF LogEarned
  <2>2. r <= cur /\ (Undecided(r, p) => Earned(r, p))
    BY <2>1 DEF EarnedInv, LogEarned
  <2>3. Undecided(r, p)' => Undecided(r, p)
    BY <1>1, <1>7, <2>2 DEF Undecided
  <2>4. Earned(r, p) => Earned(r, p)'
    BY <1>7, <2>2 DEF Earned, FailedOn, TreeOf
  <2>. QED BY <1>5, <2>2, <2>3, <2>4
<1>. QED BY <1>3, <1>6, <1>8 DEF EarnedInv, SweptEarned

\* A step that writes verdicts for the current run.
LEMMA EarnedWrites ==
    ASSUME Frame, EarnedInv, cur \in Runs, NEW now, logged' = [logged EXCEPT ![cur] = now],
           \A p \in Properties : now[p].is = "satisfied" /\ Undecided(cur, p) => Earned(cur, p),
           UNCHANGED <<cur, parent, base, ever, red, decided>>
    PROVE  RedsFailed' /\ LogEarned'
<1>1. RedsFailed'
  BY DEF EarnedInv, RedsFailed, SawRed, FailedOn, TreeOf
<1>2. \A r, p : Undecided(r, p)' = Undecided(r, p)
  BY DEF Undecided, Lineage, From
<1>3. ASSUME NEW r \in Runs, NEW p \in Properties, logged'[r][p].is = "satisfied"
      PROVE  r <= cur /\ (Undecided(r, p) => Earned(r, p))
  <2>1. CASE r = cur
    BY <1>3, <2>1, VerificationAssumption DEF Frame, TypeOK, Runs
  <2>2. CASE r # cur
    BY <1>3, <2>2 DEF EarnedInv, LogEarned, Frame, TypeOK
  <2>. QED BY <2>1, <2>2
<1>. QED BY <1>1, <1>2, <1>3, EarnedKept DEF LogEarned

\* The sweeps, the guard and the inheritance, under the flip rule.
LEMMA EarnedConclude ==
    ASSUME Flippable, Frame, ReplayInv, EarnedInv,
           ConcludeRed \/ ConcludeVerify \/ ConcludeFinal \/ ConcludeGuard \/ Inherit
    PROVE  EarnedInv'
<1>1. /\ cur \in Runs /\ enforce = TRUE /\ enforce' = enforce
      /\ pc' \in {"dead", "tasks", "inherit", "guard", "finish"}
      /\ UNCHANGED <<cur, parent, base, ever, red, decided>>
  BY DEF ConcludeRed, ConcludeVerify, ConcludeFinal, LookAgain, ConcludeGuard, Inherit, Frame,
     Begun, EarnedInv, Enforces,
     meta, evidence, people
<1>2. Enforces'
  BY <1>1 DEF Enforces
<1>3. \A p : Earned(cur, p)' = Earned(cur, p)
  BY <1>1, EarnedKept
<1>4. CASE ConcludeRed
  <2>. DEFINE now == [p \in Properties |-> IF Marked(p) # {} THEN Evaluate(cur, Marked(p), enforce, {})
                                                            ELSE logged[cur][p]]
  <2>1. logged' = [logged EXCEPT ![cur] = now] /\ pc' \notin {"guard", "inherit"}
    BY <1>4 DEF ConcludeRed, LogStates
  <2>2. ASSUME NEW p \in Properties, now[p].is = "satisfied", Undecided(cur, p) PROVE Earned(cur, p)
    <3>1. CASE Marked(p) # {}
      <4>1. Evaluate(cur, Marked(p), TRUE, {}).is = "satisfied"
        BY <1>1, <2>2, <3>1
      <4>2. Marked(p) \in SUBSET Criteria /\ {} \in SUBSET InheritedFlips(cur)
        BY DEF Marked, Acceptance
      <4>. QED BY <1>1, <4>1, <4>2, SweepEarns
    <3>2. CASE Marked(p) = {}
      BY <1>1, <2>2, <3>2 DEF EarnedInv, LogEarned
    <3>. QED BY <3>1, <3>2
  <2>. HIDE DEF now
  <2>. QED BY <1>1, <1>2, <2>1, <2>2, EarnedWrites DEF EarnedInv, SweptEarned
<1>5. CASE ConcludeVerify
  <2>. DEFINE now == [p \in Properties |-> Evaluate(cur, Acceptance(p), enforce, {})]
  <2>1. logged' = [logged EXCEPT ![cur] = now] /\ pc' \notin {"guard", "inherit"}
    BY <1>5 DEF ConcludeVerify, LogStates
  <2>2. ASSUME NEW p \in Properties, now[p].is = "satisfied" PROVE Earned(cur, p)
    <3>1. Evaluate(cur, Acceptance(p), TRUE, {}).is = "satisfied"
      BY <1>1, <2>2
    <3>2. /\ Acceptance(p) \in SUBSET Criteria /\ Marked(p) \subseteq Acceptance(p)
          /\ {} \in SUBSET InheritedFlips(cur)
      BY DEF Marked, Acceptance
    <3>. QED BY <1>1, <3>1, <3>2, SweepEarns
  <2>. HIDE DEF now
  <2>. QED BY <1>1, <1>2, <2>1, <2>2, EarnedWrites DEF EarnedInv, SweptEarned
<1>6. CASE ConcludeFinal
  <2>. DEFINE now == [p \in Properties |-> Evaluate(cur, Acceptance(p), enforce, InheritedFlips(cur))]
  <2>1. logged' = [logged EXCEPT ![cur] = now] /\ swept' = now
    BY <1>6 DEF ConcludeFinal, LogStates
  <2>2. ASSUME NEW p \in Properties, now[p].is = "satisfied" PROVE Earned(cur, p)
    <3>1. Evaluate(cur, Acceptance(p), TRUE, InheritedFlips(cur)).is = "satisfied"
      BY <1>1, <2>2
    <3>2. Acceptance(p) \in SUBSET Criteria /\ Marked(p) \subseteq Acceptance(p)
      BY DEF Marked, Acceptance
    <3>. QED BY <1>1, <3>1, <3>2, SweepEarns
  <2>. HIDE DEF now
  <2>3. SweptEarned'
    BY <1>1, <1>3, <2>1, <2>2 DEF SweptEarned
  <2>. QED BY <1>1, <1>2, <2>1, <2>2, <2>3, EarnedWrites DEF EarnedInv
<1>7. CASE ConcludeGuard
  <2>. DEFINE anew(p) == Evaluate(cur, Acceptance(p), FALSE, {})
              log == [p \in Properties |-> IF p \in Contaminated(swept) THEN anew(p) ELSE logged[cur][p]]
              kept == [p \in Properties |-> IF p \in Contaminated(swept) /\ anew(p).is \notin Good
                                            THEN anew(p) ELSE swept[p]]
  <2>1. /\ logged' = [logged EXCEPT ![cur] = log] /\ swept' = kept /\ logged[cur] = swept
        /\ pc = "guard"
    BY <1>7 DEF ConcludeGuard, ReplayInv, SweptLogged
  <2>2. ASSUME NEW p \in Properties, swept[p].is = "satisfied" PROVE Earned(cur, p)
    BY <2>1, <2>2 DEF EarnedInv, SweptEarned
  <2>3. ASSUME NEW p \in Properties, log[p].is = "satisfied" \/ kept[p].is = "satisfied"
        PROVE  Earned(cur, p)
    <3>1. p \in Contaminated(swept) => swept[p].is = "satisfied"
      BY DEF Contaminated
    <3>2. kept[p].is = "satisfied" => swept[p].is = "satisfied"
      BY DEF Good
    <3>3. p \notin Contaminated(swept) => log[p] = swept[p]
      BY <2>1
    <3>. HIDE DEF log, kept
    <3>. QED BY <2>2, <2>3, <3>1, <3>2, <3>3
  <2>. HIDE DEF log, kept
  <2>4. SweptEarned'
    BY <1>1, <1>3, <2>1, <2>3 DEF SweptEarned
  <2>. QED BY <1>1, <1>2, <2>1, <2>3, <2>4, EarnedWrites DEF EarnedInv
<1>8. CASE Inherit
  <2>. DEFINE now == [p \in Properties |-> IF p \in Inheritable THEN [logged[cur][p] EXCEPT !.is = "satisfied"]
                                                               ELSE logged[cur][p]]
  <2>1. logged' = [logged EXCEPT ![cur] = now] /\ logged[cur] = swept /\ pc = "inherit" /\ pc' = "finish"
    BY <1>8 DEF Inherit, ReplayInv, SweptLogged
  <2>2. ASSUME NEW p \in Properties, now[p].is = "satisfied", Undecided(cur, p) PROVE Earned(cur, p)
    <3>1. CASE p \in Inheritable
      <4>1. PICK a \in Lineage(cur) : state[a][p].is = "satisfied"
        BY <3>1 DEF Inheritable
      <4>2. a \in Runs /\ a # cur /\ Lineage(a) \subseteq Lineage(cur)
        BY <1>1, <4>1, LineageBefore, LineageTransitive, VerificationAssumption DEF Frame, Runs
      <4>3. logged[a][p].is = "satisfied"
        BY <4>1, <4>2 DEF ReplayInv, ReplayAgrees
      <4>4. Undecided(a, p)
        BY <2>2, <4>1, <4>2 DEF Undecided
      <4>5. Earned(a, p)
        BY <4>2, <4>3, <4>4 DEF EarnedInv, LogEarned
      <4>. QED BY <4>1, <4>2, <4>5 DEF Earned
    <3>2. CASE p \notin Inheritable
      BY <2>1, <2>2, <3>2 DEF EarnedInv, SweptEarned
    <3>. QED BY <3>1, <3>2
  <2>. HIDE DEF now
  <2>. QED BY <1>1, <1>2, <2>1, <2>2, EarnedWrites DEF EarnedInv, SweptEarned
<1>. QED BY <1>4, <1>5, <1>6, <1>7, <1>8

\* A decision settles its property for the run and for those that descend from it.
LEMMA EarnedDecide ==
    ASSUME Frame, EarnedInv, NEW r \in Runs, NEW c \in Criteria, NEW option,
           option \in OptionsOf(followup[r][c]), Decide(r, c, option)
    PROVE  EarnedInv'
<1>. DEFINE p == PropertyOf[c]
            anew == Evaluate(r, Acceptance(p), FALSE, {})'
<1>1. /\ logged' = [logged EXCEPT ![r][p] = anew] /\ decided' = [decided EXCEPT ![r] = @ \cup {p}]
      /\ pc \in {"idle", "dead"} /\ UNCHANGED <<cur, pc, enforce, todo, swept, parent, base, red>>
      /\ p \in Properties
  BY DEF Decide, driver, meta, Properties
<1>2. \A q \in Runs : \A d : <<d, "red">> \in ever'[q] => <<d, "red">> \in ever[q]
  BY DEF Decide, Show, Frame, TypeOK
<1>. HIDE DEF p, anew
<1>3. Enforces' /\ SweptEarned'
  BY <1>1 DEF EarnedInv, Enforces, SweptEarned
<1>4. RedsFailed'
  BY <1>1, <1>2 DEF EarnedInv, RedsFailed, SawRed, FailedOn, TreeOf
<1>5. r <= cur
  <2>1. followup[r][c] # "none"
    BY DEF OptionsOf
  <2>. QED BY <2>1, VerificationAssumption DEF Frame, TypeOK, Unborn, Runs
<1>6. LogEarned'
  <2>1. SUFFICES ASSUME NEW q \in Runs, NEW s \in Properties, logged'[q][s].is = "satisfied"
                 PROVE  q <= cur /\ (Undecided(q, s)' => Earned(q, s))
    BY <1>1, EarnedKept DEF LogEarned
  <2>2. CASE q = r /\ s = p
    <3>1. ~Undecided(q, s)'
      BY <1>1, <2>2 DEF Undecided, Frame, TypeOK
    <3>. QED BY <1>5, <2>2, <3>1
  <2>3. CASE ~(q = r /\ s = p)
    <3>1. logged'[q][s] = logged[q][s]
      BY <1>1, <2>3 DEF Frame, TypeOK
    <3>2. Undecided(q, s)' => Undecided(q, s)
      <4>1. Lineage(q)' = Lineage(q) /\ Lineage(q) \subseteq Runs
        BY <1>1 DEF Lineage, From
      <4>2. \A a \in Runs : decided[a] \subseteq decided'[a]
        BY <1>1 DEF Frame, TypeOK
      <4>. QED BY <4>1, <4>2 DEF Undecided
    <3>. QED BY <2>1, <3>1, <3>2 DEF EarnedInv, LogEarned
  <2>. QED BY <2>2, <2>3
<1>. QED BY <1>3, <1>4, <1>6 DEF EarnedInv

\* Every other step leaves the log and the evidence.
LEMMA EarnedQuiet ==
    ASSUME Flippable, Frame, EarnedInv,
           CommitResult \/ Finish \/ Crash \/ Resume \/ Edit \/ TaskEnd
           \/ (\E t \in Tasks : TaskReady(t) \/ TaskStart(t))
           \/ (\E r \in Runs : Merge(r)) \/ (\E t \in Trees : HumanCommit(t)) \/ UNCHANGED vars
    PROVE  EarnedInv'
<1>1. UNCHANGED <<cur, parent, base, logged, ever, red, decided>>
  BY DEF CommitResult, Finish, Crash, Resume, Edit, TaskEnd, TaskReady, TaskStart, Merge,
     HumanCommit, vars,
     driver, meta, events, evidence, people
<1>2. RedsFailed' /\ LogEarned'
  <2>1. \A r, p : Undecided(r, p)' = Undecided(r, p)
    BY <1>1 DEF Undecided, Lineage, From
  <2>. QED BY <1>1, <2>1, EarnedKept DEF EarnedInv, RedsFailed, SawRed, LogEarned, FailedOn, TreeOf
<1>3. Enforces' /\ (pc' \in {"guard", "inherit"} => pc' = pc /\ swept' = swept)
  <2>1. CASE Resume
    <3>1. PICK must \in {TRUE} : Drive(cur, must)
      BY <2>1 DEF Resume, Flippable
    <3>. QED BY <3>1 DEF Drive, Enforces
  <2>2. CASE Finish \/ Crash
    BY <2>2 DEF Finish, Crash, Enforces
  <2>3. CASE CommitResult \/ Edit \/ TaskEnd \/ (\E t \in Tasks : TaskReady(t) \/ TaskStart(t))
    BY <2>3 DEF CommitResult, Edit, TaskEnd, TaskReady, TaskStart, driver, EarnedInv, Enforces
  <2>4. CASE (\E r \in Runs : Merge(r)) \/ (\E t \in Trees : HumanCommit(t)) \/ UNCHANGED vars
    BY <2>4 DEF Merge, HumanCommit, vars, driver, EarnedInv, Enforces
  <2>. QED BY <2>1, <2>2, <2>3, <2>4
<1>. QED BY <1>1, <1>2, <1>3, EarnedKept DEF EarnedInv, SweptEarned

LEMMA EarnedNext ==
    ASSUME Flippable, Frame, RedInv, ReplayInv, EarnedInv, [Next]_vars, Frame' PROVE EarnedInv'
<1>1. CASE Driver
  BY <1>1, EarnedVerify, EarnedStart, EarnedConclude, EarnedQuiet DEF Driver
<1>2. CASE People
  BY <1>2, EarnedDecide, EarnedQuiet DEF People
<1>3. CASE Crash \/ UNCHANGED vars
  BY <1>3, EarnedQuiet
<1>. QED BY <1>1, <1>2, <1>3 DEF Next

\* What is not running is through with its sweeps, and its state is its log.
LEMMA EarnedMeans == ASSUME Frame, ReplayInv, EarnedInv PROVE FlipsEarned
<1>. SUFFICES ASSUME NEW r \in Runs, NEW p \in Properties, Closed(r), state[r][p].is = "satisfied",
                     \A a \in {r} \cup Lineage(r) : p \notin decided[a]
              PROVE  \A c \in Discriminating : PropertyOf[c] = p =>
                        \E a \in {r} \cup Lineage(r) : FailedOn(c, TreeOf(base[a]))
  BY DEF FlipsEarned
<1>1. r # cur \/ pc = "idle"
  BY DEF Closed, Frame, Begun
<1>2. logged[r][p].is = "satisfied"
  BY <1>1 DEF ReplayInv, ReplayAgrees
<1>. QED BY <1>2 DEF EarnedInv, LogEarned, Undecided, Earned

\* With requireRedPhase on throughout and no suite marked as discriminating, whose mark
\* normalizeSuiteCriteria drops, a property that a closed run calls satisfied without a
\* human's word failed before: at the base of the run or of one of its ancestors.
THEOREM SatisfiedIsEarned == ASSUME Flippable PROVE Spec => []FlipsEarned
<1>1. (Frame /\ RedInv /\ ReplayInv /\ EarnedInv) => FlipsEarned
  BY EarnedMeans
<1>2. Init => (Frame /\ RedInv /\ ReplayInv /\ EarnedInv)
  BY FrameInit, RedInit, ReplayInit, EarnedInit
<1>3. (Frame /\ RedInv /\ ReplayInv /\ EarnedInv) /\ [Next]_vars
         => (Frame /\ RedInv /\ ReplayInv /\ EarnedInv)'
  BY FrameNext, RedNext, ReplayNext, EarnedNext DEF Flippable
<1>. QED BY <1>1, <1>2, <1>3, PTL DEF Spec

-----------------------------------------------------------------------------
(* A continuation keeps what its parent established.                       *)

\* A property that agents alone speak of, and may not.
AgentOnly(p) ==
    LET kinds == {Kind[c] : c \in Acceptance(p)} IN
    "agent" \in kinds /\ kinds \subseteq {"agent", "human"} /\ ~AllowAgentOnly

\* Every criterion passes, having failed or passed at the base.
Passing(r, p) ==
    /\ \A c \in Acceptance(p) : shown[r][c] = "supports"
    /\ \A c \in Marked(p) : red[r][c] \in {"supports", "contradicts"}

\* The guard looks again at what it may take away, and at nothing else.
GuardLooks == pc = "guard" => todo \subseteq {c \in Criteria : PropertyOf[c] \in Contaminated(swept)}

NoAgentsAlone ==
    \A r \in Runs, p \in Properties :
        AgentOnly(p) => logged[r][p].is # "satisfied" /\ state[r][p].is # "satisfied"

\* What passes is satisfied, or in doubt for having passed at the base.
SweptKept ==
    pc \in {"guard", "inherit"} => \A p \in Properties :
        p \notin decided[cur] /\ Passing(cur, p) /\ ~AgentOnly(p) =>
            swept[p].is = "satisfied" \/ (swept[p].is = "indeterminate" /\ swept[p].atBase)

\* A run is through with its sweeps.
Through(r) == r < cur \/ (r = cur /\ pc \in {"finish", "idle"})

\* What a parent established is kept by a run that is through.
Kept ==
    \A r \in Runs, p \in Properties :
        /\ Through(r) /\ parent[r] # 0 /\ p \notin decided[r] \cup decided[parent[r]]
        /\ state[parent[r]][p].is = "satisfied" /\ Passing(r, p)
        => state[r][p].is = "satisfied"

KeptInv == GuardLooks /\ NoAgentsAlone /\ SweptKept /\ Kept

LEMMA KeptInit == Init => KeptInv
BY VerificationAssumption DEF Init, KeptInv, GuardLooks, NoAgentsAlone, SweptKept, Kept, Through,
   Unknown, Runs

\* Satisfied is never said of agents alone, by all criteria or by the marked ones.
LEMMA EvaluateAgents ==
    ASSUME NEW r, NEW p \in Properties, NEW must, NEW flips,
           \/ Evaluate(r, Acceptance(p), must, flips).is = "satisfied"
           \/ Marked(p) # {} /\ Evaluate(r, Marked(p), must, flips).is = "satisfied"
    PROVE  ~AgentOnly(p)
<1>1. CASE Evaluate(r, Acceptance(p), must, flips).is = "satisfied"
  BY <1>1 DEF Evaluate, AgentOnly
<1>2. CASE Marked(p) # {}
  BY <1>2, VerificationAssumption DEF Marked, AgentOnly
<1>. QED BY <1>1, <1>2

LEMMA EvaluateAgentsNext ==
    ASSUME NEW r, NEW p \in Properties, NEW must, NEW flips,
           Evaluate(r, Acceptance(p), must, flips)'.is = "satisfied"
    PROVE  ~AgentOnly(p)
BY DEF Evaluate, AgentOnly

\* What passes and is not waived is satisfied or in doubt for the base.
LEMMA EvaluatePassing ==
    ASSUME NEW r, NEW p \in Properties, NEW must, NEW flips,
           Passing(r, p), ~AgentOnly(p), p \notin waived[r]
    PROVE  LET e == Evaluate(r, Acceptance(p), must, flips) IN
           e.is = "satisfied" \/ (e.is = "indeterminate" /\ e.atBase)
<1>. DEFINE says == [c \in Acceptance(p) |-> Verdict(r, c, must, flips)]
            doubts == {c \in Acceptance(p) : says[c] \in {"inconclusive", "passed at base", "no red"}}
<1>1. \A c \in Acceptance(p) : says[c] \in {"supports", "passed at base"}
  <2>1. SUFFICES ASSUME NEW c \in Acceptance(p)
                 PROVE  Verdict(r, c, must, flips) \in {"supports", "passed at base"}
    OBVIOUS
  <2>2. shown[r][c] = "supports" /\ (c \in Enforced => red[r][c] \in {"supports", "contradicts"})
    BY DEF Passing, Enforced, Marked
  <2>. QED BY <2>2 DEF Verdict
<1>2. ~Waived(r, Acceptance(p))
  BY DEF Waived, Acceptance
<1>3. CASE doubts = {}
  BY <1>1, <1>2, <1>3 DEF Evaluate, AgentOnly
<1>4. CASE doubts # {}
  <2>1. First(doubts) \in doubts
    BY <1>4, FirstIsOne DEF Acceptance
  <2>2. says[First(doubts)] = "passed at base"
    BY <1>1, <2>1
  <2>3. PICK s : s = says[First(doubts)]
    OBVIOUS
  <2>4. Evaluate(r, Acceptance(p), must, flips) = [is |-> "indeterminate", atBase |-> s = "passed at base"]
    BY <1>1, <1>2, <1>4, <2>3 DEF Evaluate
  <2>5. s = "passed at base"
    BY <2>2, <2>3
  <2>. HIDE DEF doubts, says
  <2>6. Evaluate(r, Acceptance(p), must, flips) = [is |-> "indeterminate", atBase |-> TRUE]
    BY <2>4, <2>5
  <2>. QED BY <2>6
<1>. QED BY <1>3, <1>4

\* Without the flip rule, what passes is satisfied.
LEMMA EvaluatePlain ==
    ASSUME NEW r, NEW p \in Properties, Passing(r, p), ~AgentOnly(p), p \notin waived[r]
    PROVE  Evaluate(r, Acceptance(p), FALSE, {}).is = "satisfied"
<1>1. \A c \in Acceptance(p) : Verdict(r, c, FALSE, {}) = "supports"
  BY DEF Passing, Verdict
<1>2. ~Waived(r, Acceptance(p))
  BY DEF Waived, Acceptance
<1>. QED BY <1>1, <1>2 DEF Evaluate, AgentOnly

\* What is kept stays while states, evidence and decisions do.
LEMMA KeptStays ==
    ASSUME KeptInv, UNCHANGED <<cur, parent, state, shown, red, decided>>,
           pc' \in {"finish", "idle"} => pc \in {"finish", "idle"}
    PROVE  Kept'
BY DEF KeptInv, Kept, Through, Passing

LEMMA KeptQuiet ==
    ASSUME Frame, KeptInv,
           CommitResult \/ Finish \/ Crash \/ Edit \/ TaskEnd
           \/ (\E t \in Tasks : TaskReady(t) \/ TaskStart(t))
           \/ (\E r \in Runs : Merge(r)) \/ (\E t \in Trees : HumanCommit(t)) \/ UNCHANGED vars
    PROVE  KeptInv'
<1>1. /\ UNCHANGED <<cur, parent, state, logged, shown, red, decided>>
      /\ pc' \in {"finish", "idle"} => pc \in {"finish", "idle"}
      /\ pc' \in {"guard", "inherit"} => pc' = pc /\ swept' = swept /\ todo' = todo
  BY DEF CommitResult, Finish, Crash, Edit, TaskEnd, TaskReady, TaskStart, Merge, HumanCommit,
     vars, driver,
     meta, events, evidence, people
<1>2. Kept'
  BY <1>1, KeptStays
<1>3. GuardLooks' /\ NoAgentsAlone'
  BY <1>1 DEF KeptInv, GuardLooks, NoAgentsAlone, Contaminated
<1>4. SweptKept'
  BY <1>1 DEF KeptInv, SweptKept, Passing
<1>. QED BY <1>2, <1>3, <1>4 DEF KeptInv

\* The next run is not through, and nobody's parent.
LEMMA KeptStart == ASSUME Frame, KeptInv, Start PROVE KeptInv'
<1>. DEFINE n == cur + 1
<1>1. /\ cur' = n /\ n \in Runs /\ pc = "idle" /\ pc' \in {"red", "tasks"} /\ cur \in Nat
      /\ parent' = [parent EXCEPT ![n] = DefaultParent]
      /\ UNCHANGED <<logged, state, shown, red, decided>>
  BY VerificationAssumption DEF Start, Drive, events, evidence, people, Frame, TypeOK
<1>2. NoAgentsAlone' /\ GuardLooks' /\ SweptKept'
  BY <1>1 DEF KeptInv, NoAgentsAlone, GuardLooks, SweptKept
<1>3. ASSUME NEW r \in Runs, Through(r)' PROVE Through(r) /\ parent'[r] = parent[r]
  <2>1. r \in Nat /\ r < n
    BY <1>1, <1>3, VerificationAssumption DEF Through, Runs
  <2>. QED BY <1>1, <2>1 DEF Through, Frame, TypeOK
<1>4. Kept'
  <2>1. \A r, p : Passing(r, p)' = Passing(r, p)
    BY <1>1 DEF Passing
  <2>. QED BY <1>1, <1>3, <2>1 DEF KeptInv, Kept
<1>. QED BY <1>2, <1>4 DEF KeptInv

\* The guard looks at criteria of properties that are satisfied, and the other
\* sweeps come before the verdict.
LEMMA KeptVerify == ASSUME Frame, KeptInv, VerifyCriterion PROVE KeptInv'
<1>. DEFINE c == First(todo)
<1>1. /\ cur \in Runs /\ todo' = todo \ {c} /\ c \in todo /\ c \in Criteria
      /\ pc \in {"red", "verify", "final", "guard"}
      /\ UNCHANGED <<cur, pc, swept, logged, state, parent, decided>>
  BY FirstIsOne DEF VerifyCriterion, events, meta, Frame, TypeOK, Begun
<1>2. /\ \A r \in Runs : r # cur => shown'[r] = shown[r] /\ red'[r] = red[r]
      /\ \A d \in Criteria \ {c} : shown'[cur][d] = shown[cur][d]
      /\ pc # "red" => red' = red
  BY <1>1 DEF VerifyCriterion, Show, ShowRed, evidence, Frame, TypeOK
<1>3. GuardLooks' /\ NoAgentsAlone'
  BY <1>1 DEF KeptInv, GuardLooks, NoAgentsAlone, Contaminated
<1>4. SweptKept'
  <2>1. SUFFICES ASSUME pc = "guard", NEW p \in Properties, p \notin Contaminated(swept), Passing(cur, p)'
                 PROVE  Passing(cur, p)
    BY <1>1 DEF KeptInv, SweptKept, Contaminated
  <2>2. PropertyOf[c] # p
    BY <1>1, <2>1 DEF KeptInv, GuardLooks
  <2>. QED BY <1>1, <1>2, <2>1, <2>2 DEF Passing, Acceptance, Marked
<1>5. Kept'
  <2>1. SUFFICES ASSUME NEW r \in Runs, NEW p \in Properties, Through(r)', Passing(r, p)'
                 PROVE  Through(r) /\ Passing(r, p)
    BY <1>1 DEF KeptInv, Kept
  <2>2. Through(r) /\ r # cur
    BY <1>1, <2>1, VerificationAssumption DEF Through, Runs
  <2>. QED BY <1>2, <2>1, <2>2 DEF Passing
<1>. QED BY <1>3, <1>4, <1>5 DEF KeptInv

\* A resume takes the state from the log, before the run is through.
LEMMA KeptResume == ASSUME Frame, KeptInv, Resume PROVE KeptInv'
<1>1. /\ cur \in Runs /\ pc' \in {"red", "tasks"}
      /\ state' = [state EXCEPT ![cur] = logged[cur]]
      /\ UNCHANGED <<cur, parent, logged, shown, red, decided>>
  BY DEF Resume, Replay, Drive, meta, evidence, people, Frame, Begun
<1>2. NoAgentsAlone' /\ GuardLooks' /\ SweptKept'
  BY <1>1 DEF KeptInv, NoAgentsAlone, GuardLooks, SweptKept, Frame, TypeOK
<1>3. ASSUME NEW r \in Runs, Through(r)'
      PROVE  Through(r) /\ state'[r] = state[r] /\ (parent[r] # 0 => state'[parent[r]] = state[parent[r]])
  <2>1. r \in Nat /\ cur \in Nat /\ r < cur
    BY <1>1, <1>3, VerificationAssumption DEF Through, Runs
  <2>2. parent[r] \in Nat /\ parent[r] < r
    BY VerificationAssumption DEF Frame, ParentsFirst
  <2>. QED BY <1>1, <2>1, <2>2 DEF Through, Frame, TypeOK
<1>4. Kept'
  <2>1. \A r, p : Passing(r, p)' = Passing(r, p)
    BY <1>1 DEF Passing
  <2>. QED BY <1>1, <1>3, <2>1 DEF KeptInv, Kept
<1>. QED BY <1>2, <1>4 DEF KeptInv

\* A step that writes the current run's verdicts, before or as it gets through.
LEMMA KeptWrites ==
    ASSUME Frame, KeptInv, cur \in Runs, NEW log, logged' = [logged EXCEPT ![cur] = log],
           NEW now, state' = [state EXCEPT ![cur] = now],
           \A p \in Properties : AgentOnly(p) => log[p].is # "satisfied" /\ now[p].is # "satisfied",
           UNCHANGED <<cur, parent, shown, red, decided>>, pc' # "idle",
           pc' = "finish" => \A p \in Properties :
              /\ parent[cur] # 0 /\ p \notin decided[cur]
              /\ state[parent[cur]][p].is = "satisfied" /\ Passing(cur, p)
              => now[p].is = "satisfied"
    PROVE  NoAgentsAlone' /\ Kept'
<1>1. NoAgentsAlone'
  BY DEF KeptInv, NoAgentsAlone, Frame, TypeOK
<1>2. \A r, p : Passing(r, p)' = Passing(r, p)
  BY DEF Passing
<1>3. ASSUME NEW r \in Runs, Through(r)' PROVE parent[r] # 0 => state'[parent[r]] = state[parent[r]]
  <2>1. r \in Nat /\ cur \in Nat /\ r <= cur
    BY <1>3, VerificationAssumption DEF Through, Runs
  <2>2. parent[r] \in Nat /\ parent[r] < r
    BY VerificationAssumption DEF Frame, ParentsFirst
  <2>. QED BY <2>1, <2>2 DEF Frame, TypeOK
<1>4. Kept'
  <2>1. SUFFICES ASSUME NEW r \in Runs, NEW p \in Properties, Through(r)', parent[r] # 0,
                        p \notin decided[r] \cup decided[parent[r]],
                        state'[parent[r]][p].is = "satisfied", Passing(r, p)
                 PROVE  state'[r][p].is = "satisfied"
    BY <1>2 DEF Kept
  <2>2. state[parent[r]][p].is = "satisfied"
    BY <1>3, <2>1
  <2>3. CASE r = cur
    BY <2>1, <2>2, <2>3, VerificationAssumption DEF Through, Frame, TypeOK, Runs
  <2>4. CASE r # cur
    BY <2>1, <2>2, <2>4 DEF Through, KeptInv, Kept, Frame, TypeOK
  <2>. QED BY <2>3, <2>4
<1>. QED BY <1>1, <1>4

LEMMA KeptConclude ==
    ASSUME Frame, ReplayInv, KeptInv,
           ConcludeRed \/ ConcludeVerify \/ ConcludeFinal \/ ConcludeGuard \/ Inherit
    PROVE  KeptInv'
<1>1. /\ cur \in Runs /\ UNCHANGED <<cur, parent, shown, red, decided>>
      /\ pc' \in {"dead", "tasks", "inherit", "guard", "finish"}
      /\ logged[cur] \in [Properties -> States] /\ state[cur] \in [Properties -> States]
      /\ swept \in [Properties -> States]
  BY DEF ConcludeRed, ConcludeVerify, ConcludeFinal, LookAgain, ConcludeGuard, Inherit, Frame,
     TypeOK, Begun, meta,
     evidence, people
<1>2. \A p \in Properties : AgentOnly(p) => logged[cur][p].is # "satisfied" /\ state[cur][p].is # "satisfied"
  BY <1>1 DEF KeptInv, NoAgentsAlone
<1>3. \A p : Passing(cur, p)' = Passing(cur, p)
  BY <1>1 DEF Passing
<1>4. \A p : p \notin decided[cur] => p \notin waived[cur]
  BY <1>1 DEF Frame, Begun
<1>5. CASE ConcludeRed
  <2>. DEFINE now(old) == [p \in Properties |-> IF Marked(p) # {} THEN Evaluate(cur, Marked(p), enforce, {})
                                                                ELSE old[p]]
  <2>1. /\ logged' = [logged EXCEPT ![cur] = now(logged[cur])]
        /\ state' = [state EXCEPT ![cur] = now(state[cur])] /\ pc' \in {"dead", "tasks"}
    BY <1>5 DEF ConcludeRed, LogStates
  <2>2. \A p \in Properties : AgentOnly(p) =>
           now(logged[cur])[p].is # "satisfied" /\ now(state[cur])[p].is # "satisfied"
    BY <1>2, EvaluateAgents
  <2>. HIDE DEF now
  <2>3. NoAgentsAlone' /\ Kept'
    <3>1. PICK log, new : log = now(logged[cur]) /\ new = now(state[cur])
      OBVIOUS
    <3>2. logged' = [logged EXCEPT ![cur] = log] /\ state' = [state EXCEPT ![cur] = new]
      BY <2>1, <3>1
    <3>3. \A p \in Properties : AgentOnly(p) => log[p].is # "satisfied" /\ new[p].is # "satisfied"
      BY <2>2, <3>1
    <3>4. cur \in Runs /\ UNCHANGED <<cur, parent, shown, red, decided>> /\ pc' # "idle" /\ pc' # "finish"
      BY <1>1, <2>1
    <3>. QED BY <3>2, <3>3, <3>4, KeptWrites
  <2>. QED BY <2>1, <2>3 DEF KeptInv, GuardLooks, SweptKept
<1>6. CASE ConcludeVerify
  <2>. DEFINE now == [p \in Properties |-> Evaluate(cur, Acceptance(p), enforce, {})]
  <2>1. logged' = [logged EXCEPT ![cur] = now] /\ state' = [state EXCEPT ![cur] = now] /\ pc' = "tasks"
    BY <1>6 DEF ConcludeVerify, LogStates
  <2>2. \A p \in Properties : AgentOnly(p) => now[p].is # "satisfied"
    BY EvaluateAgents
  <2>. HIDE DEF now
  <2>3. NoAgentsAlone' /\ Kept'
    BY <1>1, <2>1, <2>2, KeptWrites
  <2>. QED BY <2>1, <2>3 DEF KeptInv, GuardLooks, SweptKept
<1>7. CASE ConcludeFinal
  <2>. DEFINE now == [p \in Properties |-> Evaluate(cur, Acceptance(p), enforce, InheritedFlips(cur))]
  <2>1. /\ logged' = [logged EXCEPT ![cur] = now] /\ state' = state /\ swept' = now
        /\ pc' \in {"guard", "inherit"}
        /\ pc' = "guard" => todo' = {c \in Criteria : PropertyOf[c] \in Contaminated(now)}
    BY <1>7 DEF ConcludeFinal, LogStates, LookAgain
  <2>2. \A p \in Properties : AgentOnly(p) => now[p].is # "satisfied"
    BY EvaluateAgents
  <2>3. ASSUME NEW p \in Properties, p \notin decided[cur], Passing(cur, p), ~AgentOnly(p)
        PROVE  now[p].is = "satisfied" \/ (now[p].is = "indeterminate" /\ now[p].atBase)
    BY <1>4, <2>3, EvaluatePassing
  <2>. HIDE DEF now
  <2>4. NoAgentsAlone' /\ Kept'
    <3>1. PICK old : old = state[cur]
      OBVIOUS
    <3>2. logged' = [logged EXCEPT ![cur] = now] /\ state' = [state EXCEPT ![cur] = old]
      BY <1>1, <2>1, <3>1 DEF Frame, TypeOK
    <3>3. \A p \in Properties : AgentOnly(p) => now[p].is # "satisfied" /\ old[p].is # "satisfied"
      BY <1>2, <2>2, <3>1
    <3>4. cur \in Runs /\ UNCHANGED <<cur, parent, shown, red, decided>> /\ pc' # "idle" /\ pc' # "finish"
      BY <1>1, <2>1
    <3>. QED BY <3>2, <3>3, <3>4, KeptWrites
  <2>5. SweptKept'
    BY <1>1, <1>3, <2>1, <2>3 DEF SweptKept
  <2>6. GuardLooks'
    BY <2>1 DEF GuardLooks, Contaminated
  <2>. QED BY <2>4, <2>5, <2>6 DEF KeptInv
<1>8. CASE ConcludeGuard
  <2>. DEFINE anew(p) == Evaluate(cur, Acceptance(p), FALSE, {})
              log == [p \in Properties |-> IF p \in Contaminated(swept) THEN anew(p) ELSE logged[cur][p]]
              kept == [p \in Properties |-> IF p \in Contaminated(swept) /\ anew(p).is \notin Good
                                            THEN anew(p) ELSE swept[p]]
  <2>1. /\ logged' = [logged EXCEPT ![cur] = log] /\ state' = state /\ swept' = kept
        /\ pc' = "inherit" /\ pc = "guard"
    BY <1>8 DEF ConcludeGuard
  <2>2. \A p \in Properties : AgentOnly(p) => log[p].is # "satisfied"
    BY <1>2, EvaluateAgents
  <2>3. ASSUME NEW p \in Properties, p \notin decided[cur], Passing(cur, p), ~AgentOnly(p)
        PROVE  kept[p].is = "satisfied" \/ (kept[p].is = "indeterminate" /\ kept[p].atBase)
    <3>1. anew(p).is = "satisfied"
      BY <1>4, <2>3, EvaluatePlain
    <3>2. kept[p] = swept[p]
      BY <3>1 DEF Good
    <3>. HIDE DEF kept
    <3>. QED BY <2>1, <2>3, <3>2 DEF KeptInv, SweptKept
  <2>. HIDE DEF log, kept
  <2>4. NoAgentsAlone' /\ Kept'
    <3>1. PICK old : old = state[cur]
      OBVIOUS
    <3>2. logged' = [logged EXCEPT ![cur] = log] /\ state' = [state EXCEPT ![cur] = old]
      BY <1>1, <2>1, <3>1 DEF Frame, TypeOK
    <3>3. \A p \in Properties : AgentOnly(p) => log[p].is # "satisfied" /\ old[p].is # "satisfied"
      BY <1>2, <2>2, <3>1
    <3>4. cur \in Runs /\ UNCHANGED <<cur, parent, shown, red, decided>> /\ pc' # "idle" /\ pc' # "finish"
      BY <1>1, <2>1
    <3>. QED BY <3>2, <3>3, <3>4, KeptWrites
  <2>5. SweptKept'
    BY <1>1, <1>3, <2>1, <2>3 DEF SweptKept
  <2>. QED BY <2>1, <2>4, <2>5 DEF KeptInv, GuardLooks
<1>9. CASE Inherit
  <2>. DEFINE now == [p \in Properties |-> IF p \in Inheritable THEN [swept[p] EXCEPT !.is = "satisfied"]
                                                               ELSE swept[p]]
  <2>1. /\ logged' = [logged EXCEPT ![cur] = now] /\ state' = [state EXCEPT ![cur] = now]
        /\ pc = "inherit" /\ pc' = "finish" /\ logged[cur] = swept
    BY <1>9 DEF Inherit, ReplayInv, SweptLogged
  <2>2. ASSUME NEW p \in Properties, AgentOnly(p) PROVE now[p].is # "satisfied"
    <3>1. p \notin Inheritable
      <4>1. \A a \in Lineage(cur) : a \in Runs
        BY <1>1, LineageBefore DEF Frame
      <4>. QED BY <2>2, <4>1 DEF Inheritable, KeptInv, NoAgentsAlone
    <3>. QED BY <1>2, <2>1, <2>2, <3>1
  <2>3. ASSUME NEW p \in Properties, parent[cur] # 0, p \notin decided[cur],
               state[parent[cur]][p].is = "satisfied", Passing(cur, p)
        PROVE  now[p].is = "satisfied"
    <3>1. parent[cur] \in Runs /\ parent[cur] \in Lineage(cur)
      <4>1. parent[cur] \in Runs
        BY <1>1, <2>3, VerificationAssumption DEF Frame, ParentsFirst, Runs
      <4>. QED BY <1>1, <2>3, <4>1, LineageParent
    <3>2. ~AgentOnly(p)
      BY <2>3, <3>1 DEF KeptInv, NoAgentsAlone
    <3>3. swept[p].is = "satisfied" \/ (swept[p].is = "indeterminate" /\ swept[p].atBase)
      BY <2>1, <2>3, <3>2 DEF KeptInv, SweptKept
    <3>4. swept[p].is = "satisfied" \/ p \in Inheritable
      BY <2>3, <3>1, <3>3 DEF Inheritable
    <3>. QED BY <1>1, <3>4 DEF States
  <2>. HIDE DEF now
  <2>4. NoAgentsAlone' /\ Kept'
    <3>1. \A p \in Properties : AgentOnly(p) => now[p].is # "satisfied" /\ now[p].is # "satisfied"
      BY <2>2
    <3>2. pc' # "idle"
      BY <2>1
    <3>3. \A p \in Properties :
             /\ parent[cur] # 0 /\ p \notin decided[cur]
             /\ state[parent[cur]][p].is = "satisfied" /\ Passing(cur, p)
             => now[p].is = "satisfied"
      BY <2>3
    <3>. QED BY <1>1, <2>1, <3>1, <3>2, <3>3, KeptWrites
  <2>. QED BY <2>1, <2>4 DEF KeptInv, GuardLooks, SweptKept
<1>. QED BY <1>5, <1>6, <1>7, <1>8, <1>9

\* What a human decides of a property is no longer compared.
LEMMA KeptDecide ==
    ASSUME Frame, KeptInv, NEW r \in Runs, NEW c \in Criteria, NEW option, Decide(r, c, option)
    PROVE  KeptInv'
<1>. DEFINE p == PropertyOf[c]
            anew == Evaluate(r, Acceptance(p), FALSE, {})'
<1>1. /\ logged' = [logged EXCEPT ![r][p] = anew] /\ state' = [state EXCEPT ![r][p] = logged'[r][p]]
      /\ decided' = [decided EXCEPT ![r] = @ \cup {p}]
      /\ pc \in {"idle", "dead"} /\ UNCHANGED <<cur, pc, swept, todo, parent, red>> /\ p \in Properties
  BY DEF Decide, driver, meta, Properties
<1>2. /\ \A q \in Runs : q # r => shown'[q] = shown[q]
      /\ \A d \in Criteria \ {c} : shown'[r][d] = shown[r][d]
  BY DEF Decide, Show, Frame, TypeOK
<1>3. AgentOnly(p) => anew.is # "satisfied"
  BY <1>1, EvaluateAgentsNext
<1>4. p = PropertyOf[c]
  OBVIOUS
<1>. HIDE DEF p, anew
<1>5. logged'[r][p] = anew /\ state'[r][p] = anew
  BY <1>1 DEF Frame, TypeOK
<1>6. /\ \A q \in Runs, s \in Properties : ~(q = r /\ s = p) =>
            logged'[q][s] = logged[q][s] /\ state'[q][s] = state[q][s]
      /\ \A q \in Runs : decided[q] \subseteq decided'[q]
      /\ p \in decided'[r]
  BY <1>1 DEF Frame, TypeOK
<1>7. NoAgentsAlone'
  BY <1>3, <1>5, <1>6 DEF KeptInv, NoAgentsAlone
<1>8. Kept'
  <2>1. SUFFICES ASSUME NEW q \in Runs, NEW s \in Properties, Through(q), parent[q] # 0,
                        s \notin decided'[q] \cup decided'[parent[q]],
                        state'[parent[q]][s].is = "satisfied", Passing(q, s)'
                 PROVE  state'[q][s].is = "satisfied"
    BY <1>1 DEF Kept, Through
  <2>2. parent[q] \in Runs
    BY <2>1, VerificationAssumption DEF Frame, ParentsFirst, Runs
  <2>3. ~(q = r /\ s = p) /\ ~(parent[q] = r /\ s = p)
    BY <1>6, <2>1
  <2>4. Passing(q, s)
    <3>1. \A d \in Acceptance(s) : shown'[q][d] = shown[q][d]
      BY <1>2, <1>4, <2>3 DEF Acceptance
    <3>. QED BY <1>1, <2>1, <3>1 DEF Passing
  <2>. QED BY <1>6, <2>1, <2>2, <2>3, <2>4 DEF KeptInv, Kept
<1>. QED BY <1>1, <1>7, <1>8 DEF KeptInv, GuardLooks, SweptKept

LEMMA KeptNext == ASSUME Frame, ReplayInv, KeptInv, [Next]_vars PROVE KeptInv'
<1>1. CASE Driver
  BY <1>1, KeptVerify, KeptStart, KeptConclude, KeptResume, KeptQuiet DEF Driver
<1>2. CASE People
  BY <1>2, KeptDecide, KeptQuiet DEF People
<1>3. CASE Crash \/ UNCHANGED vars
  BY <1>3, KeptQuiet
<1>. QED BY <1>1, <1>2, <1>3 DEF Next

LEMMA KeptMeans == ASSUME Frame, KeptInv PROVE ContinuationKeeps
<1>. SUFFICES ASSUME NEW r \in Runs, NEW p \in Properties, Closed(r), parent[r] # 0,
                     p \notin decided[r] \cup decided[parent[r]], state[parent[r]][p].is = "satisfied",
                     Passing(r, p)
              PROVE  state[r][p].is = "satisfied"
  BY DEF ContinuationKeeps, Passing
<1>1. Through(r)
  BY VerificationAssumption DEF Closed, Through, Frame, TypeOK, Unborn, Begun, Runs
<1>. QED BY <1>1 DEF KeptInv, Kept

\* A continuation run ends with what its parent had satisfied, as long as every criterion
\* passes again: the flip rule takes nothing away that finishRun does not inherit.
THEOREM ContinuationIsKept == Spec => []ContinuationKeeps
<1>1. (Frame /\ ReplayInv /\ KeptInv) => ContinuationKeeps
  BY KeptMeans
<1>2. Init => (Frame /\ ReplayInv /\ KeptInv)
  BY FrameInit, ReplayInit, KeptInit
<1>3. (Frame /\ ReplayInv /\ KeptInv) /\ [Next]_vars => (Frame /\ ReplayInv /\ KeptInv)'
  BY FrameNext, ReplayNext, KeptNext
<1>. QED BY <1>1, <1>2, <1>3, PTL DEF Spec
=============================================================================
