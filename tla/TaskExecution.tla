--------------------------- MODULE TaskExecution ---------------------------
(***************************************************************************)
(* One executor task over its attempts: executeTask and the part of        *)
(* executeTaskInRun around it.  A worker composes an answer while it has   *)
(* the checkout at hand, and hands it in through the doors of spc agent,   *)
(* which predict what the run would refuse.  The run checks the answer     *)
(* against what is in the checkout, stages it, applies it, runs its        *)
(* commands and checks the delta of the attempt again before it counts.    *)
(* Refused answers are asked for again, failed attempts are retried, and   *)
(* the process may die between any two durable steps.                      *)
(*                                                                         *)
(* A path holds one of Contents; content digests are compared as contents. *)
(***************************************************************************)
EXTENDS Naturals, Sequences, FiniteSets, SequencesExt

CONSTANTS
    Paths,           \* the paths of the checkout
    Targets,         \* those the task's write targets match
    Protected,       \* those verification.protectedPaths matches
    Contents,        \* contents of a path, "gone" among them
    Answers,         \* the change sets a worker may propose: sequences of Changes
    HandEdits,       \* the edits a worker may make by hand: paths with contents
    TouchSets,       \* the touch-sets a command may declare
    MaxTaskRetries, CommitPerTask, ProceedOnClarifications, InPlace,  \* config.execution
    Ahead,           \* whether an earlier task of the run has been committed
    MaxAttempts,     \* bound: attempts, after retries and resumes
    MaxCommands,     \* bound: commands of one answer
    MaxEdits,        \* bound: direct edits, git adds and commits of workers
    MaxCrashes       \* bound: crashes of the coordinator

\* A change writes a path whole, deletes it, or patches it: the patch names
\* the content it was made against, and its anchor may not be unique there.
Changes ==
    [op : {"write"}, path : Paths, to : Contents \ {"gone"}]
    \cup [op : {"delete"}, path : Paths]
    \cup [op : {"patch"}, path : Paths, base : Contents, unique : BOOLEAN,
          to : Contents \ {"gone"}]

ASSUME ExecutionAssumption ==
    /\ Targets \subseteq Paths /\ Protected \subseteq Paths
    /\ "gone" \in Contents
    /\ Answers \subseteq Seq(Changes)
    /\ HandEdits \subseteq Paths \X Contents
    /\ TouchSets \subseteq SUBSET Paths
    /\ MaxTaskRetries \in Nat /\ CommitPerTask \in BOOLEAN
    /\ ProceedOnClarifications \in BOOLEAN /\ InPlace \in BOOLEAN
    /\ Ahead \in BOOLEAN /\ (Ahead => CommitPerTask)
    /\ MaxAttempts \in Nat /\ MaxCommands \in Nat /\ MaxEdits \in Nat /\ MaxCrashes \in Nat

STAGE_ROUND_BOUND == 3

Steps == {"idle", "composing", "answered", "submitted", "applying", "commanding", "returned",
          "logged", "checking", "over"}
TaskStatuses == {"completed", "failed", "blocked", "needs_replan"}

VARIABLES
    pc, attempt,
    tree, index, head,  \* what each path holds, in the checkout, in git's index and in HEAD
    moved, strayed,   \* HEAD is off the dispatch baseline, off the run's base revision
    before,           \* contentSnapshot at the start of the attempt
    answer,           \* the proposed changes, until they are staged
    staged, todo,     \* what staging made of them for each path, and the paths still to write
    ran, touched,     \* commands run, and the union of their touch-sets
    status,           \* of the attempt's outcome, once it has one
    refusals,         \* submissionRefusals
    writes,           \* attributionWrites: the paths this attempt accounts for
    records,          \* attribution.json: for each path the digests on record, in order
    fileChanges,      \* the paths of the log's FILE_CHANGED events
    rounds,           \* the log's TASK_STAGE_REJECTED events of this attempt
    dispatches, dispatched, smuggled, mediated, edits, crashes
        \* history: dispatches of this attempt and what HEAD held at its start; what
        \* workers had committed in attempts that are over; what the applicator and
        \* declared commands wrote, or left of what they name; bounds

execution == <<staged, todo, ran, touched>>
memory == <<moved, before, answer, execution, status, refusals, writes>>
store == <<records, fileChanges, rounds>>
history == <<dispatches, dispatched, smuggled, mediated, edits, crashes>>
repository == <<tree, index, head, strayed>>
vars == <<pc, attempt, repository, memory, store, history>>

\* What contentSnapshot tells apart of a path: nothing of one as HEAD has it.
Clean == <<>>
Identities == {Clean} \cup Contents \X BOOLEAN

Attempts == 0..MaxAttempts

TypeOK ==
    /\ pc \in Steps /\ attempt \in Attempts
    /\ {tree, index, head} \subseteq [Paths -> Contents]
    /\ before \in [Paths -> Identities]
    /\ answer \in Answers \cup {<<>>}
    /\ DOMAIN staged \subseteq Paths /\ \A p \in DOMAIN staged : staged[p] \in Contents
    /\ todo \subseteq DOMAIN staged
    /\ ran \in 0..MaxCommands /\ touched \subseteq Paths
    /\ status \in TaskStatuses \cup {"none"}
    /\ refusals \in 0..(STAGE_ROUND_BOUND + 1)
    /\ writes \subseteq Paths
    /\ \A p \in Paths : records[p] \in Seq(Contents \ {"gone"})
    /\ moved \in BOOLEAN /\ strayed \in BOOLEAN /\ fileChanges \subseteq Paths
    /\ rounds \in 0..(STAGE_ROUND_BOUND + 1)
    /\ smuggled \subseteq Paths \X Contents /\ mediated \subseteq Paths \X Contents

\* The run's base revision.
BaseTree == [p \in Paths |-> "base"]

Init ==
    /\ pc = "idle" /\ attempt = 0
    /\ head = BaseTree /\ tree = head /\ index = head /\ strayed = Ahead
    /\ moved = FALSE /\ before = [p \in Paths |-> Clean]
    /\ answer = <<>> /\ staged = <<>> /\ todo = {} /\ ran = 0 /\ touched = {} /\ status = "none"
    /\ refusals = 0 /\ writes = {}
    /\ records = [p \in Paths |-> <<>>] /\ fileChanges = {}
    /\ rounds = 0
    /\ dispatches = 0 /\ dispatched = head /\ smuggled = {} /\ mediated = {} /\ edits = 0 /\ crashes = 0

-----------------------------------------------------------------------------
(* An attempt begins; the worker composes. *)

\* The identity of a path that holds c, and i in the index: none as HEAD has it,
\* else git's own if it is in the index like that, a digest of the file if not.
Identity(p, c, i) ==
    IF c = head[p] /\ (c = "gone" \/ i # "gone") THEN Clean ELSE <<c, c \in {i, "gone"}>>

\* contentSnapshot: the identity of every path that differs from HEAD.
Snapshot == [p \in Paths |-> Identity(p, tree[p], index[p])]

\* No attempt number is used twice, so the log has no round of a new one.
Begin ==
    /\ pc = "idle" /\ attempt + 1 \in Attempts
    /\ attempt' = attempt + 1
    /\ before' = Snapshot
    /\ moved' = FALSE /\ dispatched' = head
    /\ smuggled' = smuggled \cup {<<p, head[p]>> : p \in {q \in Paths : head[q] # dispatched[q]}}
    /\ UNCHANGED <<answer, staged, todo, ran, touched, status>>
    /\ refusals' = 0 /\ rounds' = 0 /\ writes' = {}
    /\ pc' = "composing" /\ dispatches' = 1
    /\ UNCHANGED <<repository, records, fileChanges, mediated, edits, crashes>>

-----------------------------------------------------------------------------
(* Staging. *)

\* One change over what the earlier ones left.  A patch is made against the
\* overlay, or else the disk, even when an earlier change deletes the path.
StageOne(overlay, change, disk) ==
    LET p == change.path
        base == IF p \in DOMAIN overlay.writes THEN overlay.writes[p] ELSE disk[p] IN
    IF ~overlay.fits THEN overlay
    ELSE CASE change.op = "delete" ->
            [overlay EXCEPT !.writes = [q \in DOMAIN @ \ {p} |-> @[q]],
                            !.deletes = @ \cup {p}]
      [] change.op = "patch" /\ (base = "gone" \/ base # change.base \/ ~change.unique) ->
            [overlay EXCEPT !.fits = FALSE, !.missing = base = "gone"]
      [] OTHER ->
            [overlay EXCEPT !.writes = [q \in DOMAIN @ \cup {p} |-> IF q = p THEN change.to ELSE @[q]],
                            !.deletes = @ \ {p}]

Staging(changes, disk) ==
    LET overlay[i \in 0..Len(changes)] ==
          IF i = 0 THEN [fits |-> TRUE, missing |-> FALSE, writes |-> <<>>, deletes |-> {}]
          ELSE StageOne(overlay[i - 1], changes[i], disk)
    IN  overlay[Len(changes)]

ProposedPaths(changes) == {change.path : change \in ToSet(changes)}

\* enforceWriteScope and enforceProtectedPaths, of the paths of a set.
Outside(P) == P \ Targets
Guarded(P) == P \cap Protected

-----------------------------------------------------------------------------
(* The submission guard. *)

\* statusPorcelain: what differs between checkout, index and HEAD.
Dirty == {p \in Paths : index[p] # head[p] \/ tree[p] # index[p]}

\* Broken: a path with a record is covered whatever it holds now.
CoveredByPath(p) == records[p] # <<>>

\* The first record of the path has the digest of what it holds now.
Covered(p) == records[p] # <<>> /\ Head(records[p]) = tree[p]

Unattributed == {p \in Dirty \cap Targets : ~Covered(p)}

\* The run asks from HEAD as the attempt found it and knows no author territory.
Refused == moved \/ Unattributed # {}

\* The paths committed since the run began; with Ahead there are others.
Committed == {p \in Paths : head[p] # BaseTree[p]}
AuthorTerritory == ~Ahead /\ Committed # {} /\ Committed \subseteq Protected

\* The doors ask from the run's base revision, in their own checkout.
DoorRefuses == (strayed /\ ~AuthorTerritory) \/ Unattributed # {}

\* A chain that would not compose; what lacks a base is left to the run.
ChainInvalid(changes) ==
    LET staging == Staging(changes, tree) IN ~staging.fits /\ ~staging.missing

-----------------------------------------------------------------------------
(* The rehearsal: the draft is staged over the run's base revision. *)

\* Broken: work in flight is not told from drift.
DivergesNever(changes) == ProposedPaths(changes) = {} /\ Staging(changes, tree).fits

\* A draft that fits the checkout and only changes paths the log has changes
\* of is composed against work in flight: it is not judged.
Diverges(changes) ==
    Staging(changes, tree).fits /\ ProposedPaths(changes) \subseteq fileChanges

RehearsalRefuses(changes) ==
    LET staging == Staging(changes, BaseTree)
        paths == DOMAIN staging.writes \cup staging.deletes IN
    IF staging.fits THEN Outside(paths) \cup Guarded(paths) # {} ELSE ~Diverges(changes)

-----------------------------------------------------------------------------
(* The worker. *)

Composing == pc \in {"composing", "answered"}

\* The worker edits the checkout instead of proposing a change.
EditDirectly ==
    /\ Composing /\ edits < MaxEdits
    /\ \E e \in HandEdits : tree' = [tree EXCEPT ![e[1]] = e[2]]
    /\ edits' = edits + 1
    /\ UNCHANGED <<pc, attempt, index, head, strayed, memory, store, dispatches, dispatched, smuggled, mediated,
                   crashes>>

\* It stages a path, takes it out of the index, or puts it back there as HEAD has it.
StageDirectly ==
    /\ Composing /\ edits < MaxEdits
    /\ \E p \in Paths : \E c \in {tree[p], head[p], "gone"} :
          c # index[p] /\ index' = [index EXCEPT ![p] = c]
    /\ edits' = edits + 1
    /\ UNCHANGED <<pc, attempt, tree, head, strayed, memory, store, dispatches, dispatched,
                   smuggled, mediated, crashes>>

\* It commits what is staged, or all there is in the checkout.
CommitDirectly ==
    /\ Composing /\ edits < MaxEdits
    /\ index' \in {index, tree} /\ head' = index' /\ head' # head
    /\ moved' = TRUE /\ strayed' = TRUE
    /\ edits' = edits + 1
    /\ UNCHANGED <<pc, attempt, tree, before, answer, execution, status, refusals, writes,
                   store, dispatches, dispatched, smuggled, mediated, crashes>>

HandIn ==
    /\ pc' = "answered"
    /\ UNCHANGED <<attempt, repository, moved, before, execution, status, refusals,
                   writes, store, history>>

\* submit rehearses, unless told not to, and responds; of a run in a worktree
\* the doors see another checkout, whatever it holds.
Submit ==
    /\ pc = "composing"
    /\ \E changes \in Answers, rehearsed \in BOOLEAN :
          /\ InPlace => ~DoorRefuses /\ ~ChainInvalid(changes)
          /\ rehearsed /\ InPlace => ~RehearsalRefuses(changes)
          /\ answer' = changes
    /\ HandIn

\* A saved candidate is claimed into the request, through no door.
SubmitCandidate ==
    /\ pc = "composing"
    /\ answer' \in Answers
    /\ HandIn

\* The waiting call returns the answer.
Collect ==
    /\ pc = "answered"
    /\ pc' = "submitted"
    /\ UNCHANGED <<attempt, repository, memory, store, history>>

\* The attempt is over and nothing looks at the checkout.
EndUnchecked(s) == status' = s /\ pc' = "over"

\* The call throws: the task fails, or is blocked when its request was
\* retired with the run.
ProviderFails ==
    /\ Composing
    /\ EndUnchecked("failed") \/ EndUnchecked("blocked")
    /\ answer' = <<>>
    /\ UNCHANGED <<attempt, repository, moved, before, execution, refusals, writes,
                   store, history>>

-----------------------------------------------------------------------------
(* The answer is checked: scope, submission, staging.  None of it waits.  *)

Return(s) == status' = s /\ pc' = "returned"

RefuseScope ==
    /\ pc = "submitted" /\ Outside(ProposedPaths(answer)) # {}
    /\ Return("failed")
    /\ answer' = <<>>
    /\ UNCHANGED <<attempt, repository, moved, before, execution, refusals, writes,
                   store, history>>

\* The round is lost: the worker composes again, told why.
Redispatch ==
    pc' = "composing" /\ answer' = <<>> /\ dispatches' = dispatches + 1 /\ UNCHANGED status

GiveUp == Return("failed") /\ answer' = <<>> /\ UNCHANGED dispatches

\* Broken: a refused submission is asked for again and again.
RefuseSubmissionUncounted ==
    /\ pc = "submitted" /\ Outside(ProposedPaths(answer)) = {} /\ Refused
    /\ dispatches <= 2 * STAGE_ROUND_BOUND + 1
    /\ Redispatch
    /\ UNCHANGED <<attempt, repository, moved, before, execution, refusals, writes,
                   store, dispatched, smuggled, mediated, edits, crashes>>

RefuseSubmission ==
    /\ pc = "submitted" /\ Outside(ProposedPaths(answer)) = {} /\ Refused
    /\ refusals' = refusals + 1
    /\ IF rounds + refusals' > STAGE_ROUND_BOUND THEN GiveUp ELSE Redispatch
    /\ UNCHANGED <<attempt, repository, moved, before, execution, writes, store,
                   dispatched, smuggled, mediated, edits, crashes>>

Accepted == pc = "submitted" /\ Outside(ProposedPaths(answer)) = {} /\ ~Refused

\* The round is recorded before the worker is asked again.
RejectStaging ==
    /\ Accepted /\ ~Staging(answer, tree).fits
    /\ rounds' = rounds + 1
    /\ IF rounds' > STAGE_ROUND_BOUND THEN GiveUp ELSE Redispatch
    /\ UNCHANGED <<attempt, repository, moved, before, execution, refusals,
                   writes, records, fileChanges, dispatched, smuggled, mediated, edits, crashes>>

Stage ==
    /\ Accepted /\ Staging(answer, tree).fits
    /\ LET staging == Staging(answer, tree) IN
          staged' = staging.writes @@ [p \in staging.deletes |-> "gone"]
    /\ todo' = DOMAIN staged'
    /\ answer' = <<>>
    /\ pc' = "applying"
    /\ UNCHANGED <<attempt, repository, moved, before, ran, touched, status,
                   refusals, writes, store, history>>

Written == {p \in DOMAIN staged : staged[p] # "gone"}

\* Writes come before deletions.
Apply ==
    /\ pc = "applying"
    /\ \E p \in todo :
          /\ staged[p] = "gone" => todo \cap Written = {}
          /\ tree' = [tree EXCEPT ![p] = staged[p]]
          /\ todo' = todo \ {p}
          /\ mediated' = mediated \cup {<<p, staged[p]>>}
    /\ UNCHANGED <<pc, attempt, index, head, strayed, moved, before, answer, staged, ran,
                   touched, status, refusals, writes, store, dispatches, dispatched,
                   smuggled, edits, crashes>>

\* A deleted path leaves nothing to account for.
Applied ==
    /\ pc = "applying" /\ todo = {}
    /\ writes' = Written
    /\ pc' = "commanding"
    /\ UNCHANGED <<attempt, repository, moved, before, answer, execution, status,
                   refusals, store, history>>

-----------------------------------------------------------------------------
(* runDeclaredCommands, one command after the other. *)

\* revertPaths: a path in the index i is checked out of it, another is removed.
Reverted(P, t, i) == [p \in Paths |-> IF p \in P THEN i[p] ELSE t[p]]

\* What a command may leave: at most one path changed, and perhaps staged.
Effects ==
    {[tree |-> [tree EXCEPT ![p] = c], index |-> index] : p \in Paths, c \in Contents}
    \cup {[tree |-> [tree EXCEPT ![p] = c], index |-> [index EXCEPT ![p] = c]] :
          p \in Paths, c \in Contents}

\* changedPathsSince: by content identity.
ChangedBy(e) ==
    {p \in Paths : Identity(p, e.tree[p], e.index[p]) # Identity(p, tree[p], index[p])}

\* What of that it wrote.
WrittenBy(e) == {<<p, e.tree[p]>> : p \in {q \in ChangedBy(e) : e.tree[q] # tree[q]}}

\* The policy keeps the command from running.
DenyCommand ==
    /\ pc = "commanding" /\ ran < MaxCommands
    /\ Return("failed")
    /\ UNCHANGED <<attempt, repository, moved, before, answer, execution,
                   refusals, writes, store, history>>

\* The command keeps to its touch-set and succeeds.
RunCommand ==
    /\ pc = "commanding" /\ ran < MaxCommands
    /\ \E touch \in TouchSets, e \in Effects :
          /\ ChangedBy(e) \subseteq touch
          /\ tree' = e.tree /\ index' = e.index
          /\ mediated' = mediated \cup WrittenBy(e)
          /\ touched' = touched \cup touch
    /\ ran' = ran + 1
    /\ UNCHANGED <<pc, attempt, head, strayed, moved, before, answer, staged, todo,
                   status, refusals, writes, store, dispatches, dispatched, smuggled, edits,
                   crashes>>

\* It exits with a failure, or writes outside its touch-set: those writes are
\* reverted, the others stay and nobody accounts for them.
FailCommands ==
    /\ pc = "commanding" /\ ran < MaxCommands
    /\ \E touch \in TouchSets, e \in Effects :
          /\ tree' = Reverted(ChangedBy(e) \ touch, e.tree, e.index) /\ index' = e.index
          /\ mediated' = mediated \cup {w \in WrittenBy(e) : w[1] \in touch}
    /\ Return("failed")
    /\ UNCHANGED <<attempt, head, strayed, moved, before, answer, execution, refusals,
                   writes, store, dispatches, dispatched, smuggled, edits, crashes>>

\* Only after all of them succeeded are the touched paths accounted for.
CommandsOver ==
    /\ pc = "commanding"
    /\ writes' = writes \cup {p \in touched : tree[p] # "gone"}
    /\ mediated' = mediated \cup {<<p, tree[p]>> : p \in touched}
    /\ \E s \in TaskStatuses : Return(s)
    /\ UNCHANGED <<attempt, repository, moved, before, answer, execution,
                   refusals, store, dispatches, dispatched, smuggled, edits, crashes>>

-----------------------------------------------------------------------------
(* The rest of executeTaskInRun. *)

\* A blocked task whose follow-ups, which are left out here, are some and all of them
\* clarifications is retried with their defaults, and nothing of the attempt is recorded.
ProceedOnDefault ==
    /\ pc = "returned" /\ status = "blocked" /\ ProceedOnClarifications
    /\ EndUnchecked("failed")
    /\ UNCHANGED <<attempt, repository, moved, before, answer, execution,
                   refusals, writes, store, history>>

\* contentDelta and taskScopeDelta: content identities are compared, never
\* the status a path has.
DeltaSince(snapshot) == {p \in Paths : Snapshot[p] # snapshot[p]}

Delta == DeltaSince(before)

\* The log learns what changed before attribution.json does.
LogChanges ==
    /\ pc = "returned"
    /\ fileChanges' = fileChanges \cup Delta
    /\ pc' = "logged"
    /\ UNCHANGED <<attempt, repository, memory, records, rounds, history>>

\* The digest of an applied path is that of what the applicator wrote, of a
\* declared one that of what the commands left.
Digest(p) == IF p \in Written THEN staged[p] ELSE tree[p]

InRecord(p, c) == \E i \in DOMAIN records[p] : records[p][i] = c

Attribute ==
    /\ pc = "logged"
    /\ records' = [p \in Paths |->
                     IF p \in writes /\ ~InRecord(p, Digest(p))
                     THEN Append(records[p], Digest(p)) ELSE records[p]]
    /\ pc' = "checking"
    /\ UNCHANGED <<attempt, repository, memory, fileChanges, rounds, history>>

Violations == Guarded(Delta) \cup Outside(Delta)

\* Broken: only a task that would complete is reverted.
CheckCompletedOnly ==
    /\ pc = "checking"
    /\ LET V == IF status = "completed" THEN Violations ELSE {} IN
          /\ tree' = Reverted(V, tree, index)
          /\ LET commit == CommitPerTask /\ status = "completed" /\ V = {} IN
                /\ head' = IF commit THEN tree ELSE head
                /\ index' = IF commit THEN tree ELSE index
          /\ strayed' = (strayed \/ head' # head)
          /\ status' = IF V # {} THEN "failed" ELSE status
    /\ pc' = "over"
    /\ UNCHANGED <<attempt, moved, before, answer, execution, refusals, writes, store, history>>

\* Whatever the attempt reports, a path it may not change is reverted; a
\* completed one is committed with all that is in the checkout.
Check ==
    /\ pc = "checking"
    /\ tree' = Reverted(Violations, tree, index)
    /\ LET commit == CommitPerTask /\ status = "completed" /\ Violations = {} /\ Delta # {} IN
          /\ head' = IF commit THEN tree ELSE head
          /\ index' = IF commit THEN tree ELSE index
    /\ strayed' = (strayed \/ head' # head)
    /\ status' = IF status = "completed" /\ Violations # {} THEN "failed" ELSE status
    /\ pc' = "over"
    /\ UNCHANGED <<attempt, moved, before, answer, execution, refusals, writes, store, history>>

\* What the process knew of the attempt is gone.
Forget ==
    /\ pc' = "idle"
    /\ moved' = FALSE /\ before' = [p \in Paths |-> Clean]
    /\ answer' = <<>> /\ staged' = <<>> /\ todo' = {} /\ ran' = 0 /\ touched' = {}
    /\ status' = "none" /\ refusals' = 0 /\ writes' = {}
    /\ dispatches' = 0

\* The scheduler retries a failed task.
Retry ==
    /\ pc = "over" /\ status = "failed" /\ attempt <= MaxTaskRetries
    /\ Forget
    /\ UNCHANGED <<attempt, repository, store, dispatched, smuggled, mediated, edits, crashes>>

\* The process dies; a resume makes another attempt.
Crash ==
    /\ pc \notin {"idle", "over"} /\ crashes < MaxCrashes
    /\ crashes' = crashes + 1
    /\ Forget
    /\ UNCHANGED <<attempt, repository, store, dispatched, smuggled, mediated, edits>>

Runtime ==
    \/ Begin \/ Collect \/ RefuseScope \/ RefuseSubmission \/ RejectStaging \/ Stage \/ Apply \/ Applied
    \/ DenyCommand \/ RunCommand \/ FailCommands \/ CommandsOver \/ ProceedOnDefault \/ LogChanges
    \/ Attribute \/ Check \/ Retry

Worker == EditDirectly \/ StageDirectly \/ CommitDirectly \/ Submit \/ SubmitCandidate

Next == Runtime \/ Worker \/ ProviderFails \/ Crash

Spec == Init /\ [][Next]_vars
-----------------------------------------------------------------------------
(* What the submission guard and the delta check promise together. *)

Completed == pc = "over" /\ status = "completed"

\* Whatever workers edit, stage and commit while they compose, in this attempt or an
\* earlier one, what a completed task has changed under its write targets since it
\* was first dispatched was written by the applicator or by a declared command, or was
\* there when a command that names the path was over (UCG-001).  Not so of what a
\* worker committed in an attempt that is over: the next one takes HEAD as it finds
\* it for its baseline (execute.ts:195).
OnlyMediatedWorkCompletes ==
    Completed => \A p \in Targets :
        tree[p] = BaseTree[p] \/ <<p, tree[p]>> \in mediated \cup smuggled

\* An attempt asks the provider a bounded number of times, in whatever order
\* submissions are refused and stagings rejected.
DispatchesBounded == dispatches <= 2 * STAGE_ROUND_BOUND + 1

\* A checked attempt, completed or not, leaves every path it may not change as it
\* found it, or as the last commit has it: "the violation STICKS" (touchset.ts:44).
\* Not so of a path that somebody staged, or took out of the index: the code restores
\* what the index has of it, so that the change stays and the next attempt starts from it.
StagedByHand(p) == index[p] # head[p]
KeepsScope ==
    pc = "checking" /\ pc' = "over" =>
        \A p \in Protected \cup Outside(Paths) :
            Snapshot'[p] = before[p] \/ tree'[p] = head'[p] \/ StagedByHand(p)
ScopeKept == [][KeepsScope]_vars

\* What the run would do with a draft now: refuse it, ask again, or undo it.
WouldRefuse(changes) ==
    LET staging == Staging(changes, tree) IN
    \/ Refused \/ ~staging.fits
    \/ Outside(ProposedPaths(changes)) # {}
    \/ Guarded(DOMAIN staging.writes \cup staging.deletes) # {}

\* A rehearsal stages over the run's base revision and tells work in flight
\* from drift by the log, the run stages over the checkout and tells them apart
\* by attribution.json; whatever attempts and crashes have left in both, a
\* rehearsal turns no draft away that the run would take (runAgentDryRun: "a refusal
\* here costs a local command instead of a task retry"), as long as
\*  - nothing was committed since the run began,
\*  - the log has a change of every path on record: it has none where the change was
\*    undone before the attempt was over,
\*  - the draft does not change both paths that git calls dirty and others.
Logged == \A p \in Paths : records[p] # <<>> => p \in fileChanges
Mixed(changes) ==
    ProposedPaths(changes) \cap Dirty # {} /\ ~(ProposedPaths(changes) \subseteq Dirty)
RehearsalRefusesRightly ==
    Composing /\ ~strayed /\ Logged =>
        \A changes \in Answers :
            RehearsalRefuses(changes) => WouldRefuse(changes) \/ Mixed(changes)

-----------------------------------------------------------------------------
(* What the repository's texts say and the code does not do. *)

\* "agent submit applies the same predicate" as the run (UCG-003): a door turns
\* nobody away whom the run would hear.
DoorsRefuseAlike == Composing /\ DoorRefuses => Refused

=============================================================================
