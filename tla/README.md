# Formal models of spec-as-code

`spc` compiles a specification into a plan, has a model provider execute the
plan task by task in a git checkout, verifies the specification's properties
with evidence, and keeps an append-only record of every run. This directory
holds TLA+ models of the parts of it whose correctness depends on order,
interleaving, failure and restart, the TLC configurations that check them on
small instances, and TLAPS proofs of what holds for every instance. Paths below
are relative to `src/packages/` unless they start with another directory of the
repository.

`PROJECT.json` lists every component, run, mutant, mapped definition, finding,
hazard and theorem; this file explains them.

## The system

| part | state it keeps | operations | what makes it correct |
|---|---|---|---|
| Workspace ownership (`runtime/src/apply-ownership.ts`, `platform-lock.ts`, `lock.ts`) | the flock `.spc/apply.lock`, `execution.lock` of a run | acquire, take over, release, report | one process works in a checkout |
| Execution intent (`runtime/src/execution-intent.ts`) | `.spc/execution-intent.json`, its arbitration flock | initialise, name the run, advance the cause, clear | a crash is noticed by the next coordinator |
| Cancellation (`cancel.ts`), recovery (`recovery.ts`) | the records of a run they do not drive | request, wait, escalate, kill, finalise; recover | a run ends once, and says why |
| Run driver (`runtime/src/apply.ts`) | `RunState` in memory, `state.json`, the plan file | start, resume, execute, replan, finish | crashes and amendments repeat and lose nothing |
| Scheduler (`executor/src/scheduler.ts`) | task statuses | block, launch, complete, retry, fail, park | dependencies first; it stops |
| State projection (`runtime/src/state.ts`) | none: a fold over the events | replay | the fold agrees with what was live |
| Task execution (`executor/src/execute.ts` and around) | the checkout, `attribution.json` | dispatch, check, stage, apply, run commands, revert, commit | only mediated work counts |
| Harness queue (`llm-harness`) | request and answer files | ask, answer, requeue, expire, retire | an answer reaches the request it answers |
| Records (`events.ts`, `stores.ts`) | `events.jsonl`, evidence, observations, follow-ups | append, load, merge, create | nothing is lost, ids are unique |
| Verification (`verify.ts`, `verifier`) | evidence, the command cache | run criteria, evaluate properties | a status follows from the latest evidence |
| Parallel driver (`runtime/src/apply.ts`, `repo/src/worktree.ts`) | tasks in flight, a worktree each, the integration branch | launch, merge, discard, drain | the branch holds completed work, all of it |
| Standalone verify (`cli/src/commands/verify.ts`, `command-cache.ts`, `freshness.ts`, `posture.ts`) | the cache file, the records of runs | sweep, reuse, skip, report | what is reused or skipped would pass now |
| Attestation and replay (`attestation.ts`, `replay.ts`) | `attestation.json`, anchor commits | anchor, attest, compare | an honest record replays |
| Core (`core/src`) | none | load, normalise, lint, validate, amend | plans and specs are acyclic and complete |
| Planner, providers, renderers, CLI | none of their own | plan, amend, call, format | bounded repair; the rest is I/O |

They interact through files: the driver calls the scheduler with callbacks, the
scheduler calls `executeTaskInRun`, which calls the executor, which calls a
provider and touches the checkout; every transition is appended to the event
log before the next one starts. Cancellers, recoverers, reports and agents are
other processes that see only the files and the two kernel locks.

What is hard: a process may die between any two writes and another may act
there; a resume works from what the log says, not from what the dead process
knew; a worker is an agent with a shell in the same checkout and need not keep
to the protocol; amendments change the plan under a half-executed run; counters
live partly in memory and partly in the log.

## Modules

- `ApplyOwnership` — coordinators (`spc apply`, `--resume`), cancellers,
  recoverers and owner reports over one checkout. An action is the code between
  two accesses to something shared; a process may die at any point (`Die`), and
  the machine may lose power under a record that was never synced (`LosePower`).
  `intent` is the safety block, `lock` and `arb` the kernel locks, `state`,
  `log`, `attest`, `execLock` the files of each run.
  `WorkspaceLease` is the abstract promise: at most one owner, and a block that
  only an owner lifts. `MCApplyOwnership` gives it instances.
- `PlanRules` — plans as operators on sequences of tasks: the cycle search and
  reachability of `graph.ts`, globs as sequences of segments with the overlap
  test of `glob.ts`, the errors of `validatePlan`, the operations of
  `applyPlanAmendment` and the risk tiers. It has no state of its own; the two
  drivers extend it, so every plan they run went through it, and `PlanSound`,
  `HistoryKept` and `ConflictFree` compare what it let pass with definitions
  that search nothing (a cycle is a set of tasks each of which has a dependency
  in the set; two patterns collide when a path matches both).
- `RunDriver` — one run through the sequential scheduler and its driver, from the
  preflight (plan errors, dirty paths) over amendments, crashes and resumes to
  its end. The event log is represented by the fold
  `applyEvent` makes of it (`logged`, `loggedReplans`, `loggedCalls`), because
  that is all a resume reads; appending an event is an action, since the process
  may die between two appends. `WorkLedger` is the abstract promise about the
  work itself: what is done stays done. `MCRunDriver` holds plans and amendments,
  some of which validation must refuse.
- `ParallelDriver` — a run with `execution.parallelism` above one: the planner's
  bounded repair of a plan (at most three proposals), the launch loop, tasks in
  worktrees cut from the branch, the cherry-pick of each patch, and the
  processes that drive the run one after another. Node runs one piece of code at
  a time: `turn` names it, and only an await gives it to another. `branch` is the
  sequence of patches on the integration branch, `logged` the fold of the events.
- `TaskExecution` — one task over its attempts: the dispatch rounds of
  `executeTask`, the submission guard, staging, application, declared commands,
  the delta check, attribution and commit of `executeTaskInRun`, a worker that
  edits, stages or commits in the checkout while it composes, and a crash; and the
  doors of `spc agent` as predicates (`DoorRefuses`, the rehearsal of a dry run),
  since they decide over an answer before the run sees it.
  A path holds one of a few contents, in the checkout (`tree`), in git's `index` and
  in `head`: reverting restores what the index has (`Reverted`), a snapshot has git's
  content id of what is in the index and a digest of the file otherwise (`Identity`),
  and a command may stage what it writes.
- `HarnessQueue` — the calls that wait for an agent's answer, the agents that
  respond, refuse and claim candidates, cancellers, the sweep of stale requests,
  and the directory lock with its age. Time
  is counted in polls: `left` is what a call still waits, `stamp` the deadline
  written in its request, `age` the age of the file. A mutation of the store
  under its lock is one action, except where something without the lock can come
  between: a response truncates the answer and fills it later, and a rejection
  and a refusal read the request and write it back later, since `spc run cancel`
  renames requests away without the lock (`Snatch`, `cancel.ts:210`). Checks the
  code makes outside the lock are actions of
  their own. Invocation ids are distinct per call, and a living holder of the
  lock is taken to finish within the five seconds after which others break it.
  `MCHarnessQueue` gives it two calls whose requests have equal premises, so that
  a candidate fits both.
- `Verification` — what becomes of a property over a chain of runs: the red sweep,
  a verify task, the commit, the final sweep, the contamination guard,
  inheritance along `parentRunId`, resumes, and the decisions people make
  between runs or while one is interrupted. A tree is a value and a criterion
  the set of trees it passes on (`Passes`); a revision is the sequence of commits
  behind it, so git ancestry is `IsPrefix`. The evidence log is represented by
  what the evaluator takes from it (`shown`, `red`, `ever`), the events by what
  they replay to (`logged`). One task writes and one verifies; how often a task is
  tried is `RunDriver`'s business, and commands are taken not to write.
  `MCVerification` holds the instances.
- `VerifyCache` — `spc verify` as a command of its own: over all specs, over the
  result of a run, and against a diff, by several processes that share the cache
  file and the records of runs and take no lock. A package has the version of
  its sources and the version it was last built from; a command passes when all
  it reads is good, and a criterion may read more than its filter names. The policy
  may deny a command, and a slow one may run into its timeout. A run keeps what its
  criteria gave, the questions it left open (those of denied commands; a criterion
  for a person is as a command that every config denies) and, as `green`, the
  properties that its `state.json` calls satisfied or waived; when it is over,
  somebody may answer (`Resolve`), which rewrites that property there. Edits,
  commits, checkouts and apply runs, in place or on a branch, are the
  environment. A full sweep may pass a fresh spec over or verify it, which is
  what it does with and without `--all`. What the code cannot
  know is kept in history variables (`touched`, `torn`, `sound`): whether the
  tree changed during a sweep, and where its evidence was collected.
- `RunRecords` — the files of a run's record, written by the owner, which ends by
  attesting it, and by `spc followup resolve` processes. A write yields a whole
  line, and the death of its process a fragment or a line without its newline;
  what is appended next is glued to it. `memory` is what a process has of each file.
  `Loads`, `EvidenceLoads` and `FollowupsLoad` are the loaders, `Verdict` and
  `AnchorVerdict` what replay says of the result.
- `ApplyOwnershipProofs`, `RunDriverProofs`, `ParallelDriverProofs`,
  `TaskExecutionProofs`, `HarnessQueueProofs`, `VerificationProofs`,
  `VerifyCacheProofs` and `RunRecordsProofs` hold the theorems about the modules
  they are named for.

The modules meet in what one takes from another: `RunDriver` and `ParallelDriver`
take an attempt of a task as one step with any outcome, `TaskExecution` opens
that step; both take verification as a step, `Verification` opens it;
`ApplyOwnership` takes a driven run as one step and opens what is around it;
`HarnessQueue` is behind the answer that `TaskExecution` waits for; and all of
them append to a log that `RunRecords` opens line by line.

Operators whose comment starts with "Broken:" are not part of any specification.
Each is the form a plausible bug would give a definition, and `PROJECT.json`
names the property that notices it.

## Runs

Passing runs:

| run | instance | what it shows |
|---|---|---|
| `cancel` | two coordinators with plans of their own, a canceller, a recoverer | the lock is held through every ownership region; a readable block covers the work; no record says finished before the log does; a run that no canceller ends behind its owner ends once and stays ended; an interrupted run keeps the workspace blocked; the protocol implements `WorkspaceLease` |
| `cancel_race` | one coordinator, two cancellers, a recoverer, a report, power loss | the recorded cause of one ownership never goes back |
| `driver` | five first plans of which two are sound, seven amendments, five kinds of dirt; two crashes | a resume remembers every attempt and outcome; dependencies complete first; attempts, calls and amendments are bounded over all lives of the run; the plan in force is acyclic, ordered and complete, and completed tasks stay in it as they were; a living driver ends its run; the ledger is implemented |
| `parallel` | four plans the planner may answer with, three tasks, two at a time; two processes, one after another | the branch holds completed work and all of it; patches conflict only where the overlap test is blind; the run ends |
| `execution` | two paths the task may write and a protected one, two attempts, one crash, two direct edits, git adds or commits | a completed task holds only mediated work under its targets, or what an earlier attempt committed; dispatches are bounded; a rehearsal turns away nothing the run would take; a checked attempt leaves what it may not change, unless it is staged |
| `queue` | two calls, two agents, one candidate, two commands of agents or cancellers without the lock, a canceller, one death | a response reaches a live request; a request that was retired, expired or consumed stays dead; a stamp never promises more than the call waits; every call ends |
| `verification_chain` | two runs, three trees, a command and a file that discriminate, a human, dirt that lifts the command, two edits or commits | a satisfied property was seen to fail first; it holds on the commit; a continuation keeps it; events and state agree through downgrades and inheritance |
| `verification_run` | one run of four criteria (awaiting approval, denied, agent, human), one commit by hand, one crash | the red phase describes the base |
| `verify_cache` | two invocations or apply runs, three packages of which one needs another, two specs that share an id, a config that denies a command, one edit or checkout, one commit after the first, one death or timeout, any answers to open questions | what is reused, passed over as fresh, shown as standing or skipped against a diff is what the tracked files would give now, unless somebody vouched for it |
| `records` | an owner, a resolver, two follow-ups, four lines at which an operation may start, one death | evidence stays loadable; the follow-ups file agrees with the log; an honest record replays |

Runs that are expected to fail show where the code does something else than
the repository's own texts say. The findings in `PROJECT.json` quote the texts.

| run | what happens |
|---|---|
| `doors` | with `execution.inPlace` and `commitPerTask`, from the second task of a run on, `spc agent submit` and `respond` refuse every answer in a clean checkout: they compare HEAD with the run's base revision, the runtime with the revision at which the task was dispatched |
| `parallel_replan` | under `execution.parallelism` > 1 a task that asks for a replan waits for all tasks in flight, and it is one of them: nothing is amended and the run never ends |

Some properties carry a condition, and each names what the code does not
promise: `RespondsToLive`, `EndedLeavesQueue` and `StaysDead` except the requests
that a canceller takes without the lock (each is violated without the exception);
`AddsKeepEvidence` excepts two adds that overlap and one that falls onto a torn
line; `HonestRunReplays` is about writers that come one after another, with no
evidence after the attestation; `ReuseIsSound` excepts a repository that changed
while the command ran and a command that reads more than its scope;
`CachedHolds` and `StandingHolds` except evidence collected in another tree than
the one on record, and what somebody has waived or answered for (`Vouched`);
`PartialIsHonest` is about a clean tree, ids that occur once and scopes that take in
what the command reads;
`OnlyMediatedWorkCompletes` excepts what a worker committed in an attempt that is over
(`smuggled`), and `ScopeKept` a path whose index is not HEAD's (`StagedByHand`). These
last exceptions are needed (TLC refutes each property without its own), and the divergences say where the code promises
more;
`OneTerminalEvent` and
`FinishedStaysFinished` except a run that a canceller finalises, which takes no lock, and
`InterruptedRunBlocks` a canceller that read the record before it named the run, and
a resume by another coordinator;
`ConflictFree` is about plans whose overlaps the overlap test sees; and
`RehearsalRefusesRightly` about a run without commits whose log knows every
changed path, and drafts that do not mix work in flight with other paths. The divergences below
tell what happens otherwise.

Bounds. Two coordinators suffice for exclusion, takeover and a resume of what the
other left; every process may die at every step, so more deaths add
nothing but more processes. In `RunDriver` two crashes let a resume be
interrupted again; `MaxCalls` (2) caps the provider calls of one step, enough to
differ from the one reservation. In `ParallelDriver` a third task depends on two
that run at once and goes over the files of one of them; two lives are one crash
anywhere and a resume. `TaskExecution` lets a worker act twice per behaviour, so that
it may edit a path and then commit or stage it, or stage in one attempt and commit in
the next; `HandEdits` names the edits that differ for the guard (new work on a target,
the base or a removal put back over attributed work, a protected path), and `MaxAttempts`
(2) lets one attempt inherit what another left. In `VerifyCache` the one commit after
the first is that of an edit or of an apply run, before or behind a recorded run, and
the one edit may instead be a checkout, a build or another config; `MaxStarts` (2) is
the number of invocations and apply runs of a behaviour, by whichever process, so that
one reads what the other left or is in the middle of; its invocations are symmetric.
At first one package is bad: an apply run mends it and breaks another, which tells the
result of that run from its base, and a commit that only mends it leaves a command with
an id of its own to skip over a diff that is not empty. In `RunRecords` four
lines let either process begin behind the other, and an operation that begins
under the bound always finishes. Crashes and edits are capped by guards on
`crashes`, `deaths`, `life` and `edits` only; every other bound is one of the
program's own configuration or named in the module.

`queue` has one refresh per call (`MAX_REQUEUE_REFRESHES`, 5 in `harness.ts:16`; the
theorems are about any number),
a first window of two polls, a refreshed one of one, and requests that are
stale at age two: two commands are enough for a saved and claimed candidate, two
responses to one request, a refusal beside a response, and a request taken
without the lock under one of them, each with a call
that polls, expires or is retired in between.

In the chain two runs have one parent link, which is where flips and statuses are
inherited; two edits let a first run start from a tree whose test does not parse,
or a second from one that passes already. That instance is without crashes, and
`verification_run` has one instead of a second run: its crash may fall in any sweep,
with decisions before the resume. `Requires` is `{TRUE}` in both: see the
divergence about a red phase that is switched on later.

Deadlock is not checked in these runs because all of them stop: commands
return, runs end, tasks finish.

Fairness. `RunDriver` assumes weak fairness of the driver's next step as a whole:
it is one async function in one process, and each await ends, since a provider
answers or gives up within its window. `ParallelDriver` assumes it of the loop and
of the code of each task: Node resumes every promise that is settled. Crashes and
resumes are not fair: nobody is obliged to resume a run, so both `RunEnds` promise
an end only to a driver that lives; `parallel_replan` runs without crashes, so that
its counterexample is the code's own. `HarnessQueue` assumes weak fairness of each
call's next step (a poll loop), the
passing of time, the breaking of an abandoned lock and each agent's next step (a
command that was started); that anybody starts one is not assumed. The other
specifications state safety only.

Other divergences met while modelling, which no run is spent on.

Ownership, driver, queue and verification:
- `finalize` clears the block before the terminal event, the state and the
  attestation, while `execution-intent.ts` says it is called ONLY after the full
  finalization boundary.
- a FILE_CHANGED without an `attribution.json`, left by a command that failed, is
  called GUARD_VERSION_SKEW (`unmediated-guard.ts:145`) in a run of one binary.
- `acquireOwnership` refuses only over a record that reads as ok, so a torn record
  passes the gate, while `execution-intent.ts:157` calls it UNSAFE.
- `clearIntent` and `initializeIntent` do not take the arbitration lock, so a
  cause transition can write back a record that was removed or replaced meanwhile:
  the record of a finished run, or one without a run, then stands for a later run,
  whose recovery finds nothing to do and lifts the block of an interrupted run. A
  resume resets a recorded cause to NONE.
- `writeTerminalEvent` of recovery can append after a canceller did.
- `cooperativeCancel` reports success as soon as `state.json` stops saying
  running; `finalizeCancelled` does not look at the owner.
- `writeIntent` opens and closes its file where the comment has it synced.
- resuming a finished run leaves its safety block behind.
- recovery writes `cancelled` into `state.json` and `recovered` into the log.
- the failure of an attempt is in no event until the task is given up, so a resume
  retries without it (`docs/usage/workflows.md:179` says otherwise).
- one blocking pass in plan order leaves a task pending behind a dead end when
  the plan lists it before its dependency.
- staging rounds, replanning and agent criteria call the provider without
  reserving budget, so more than `maxModelCalls` calls are made.
- after a rejected change set `executeTaskInRun` may return before the delta check
  (`apply.ts:1488`, against the text at `1585`), and a cancellation that escalated
  may still be followed by a cooperative terminal event.
- `STAGE_ROUND_BOUND` bounds two counters separately once a submission was
  refused first: seven dispatches are possible where the comment says four.
- an invalid answer file is read and counted again at every poll, so one invalid
  answer uses up every refresh (`harness.ts:14`, `170`).
- the stale age equals the executor's window, so another process's sweep in the
  last poll makes a call that timed out look retired.
- the check for an unconsumed answer in `recordRefusalFeedback` (`agent.ts:243`)
  is outside the lock, and after a rejected answer no refusal is recorded at all.
- a claim can commit into a request that was retired or answered since its checks
  (`candidates.ts:178`), and a call that reads a half-written answer throws.
- after one invalid answer a call no longer notices that it was retired, because
  it looks for its request only when there is no answer file (`harness.ts:144`),
  while `harness.ts:145-148` has it stop waiting immediately.
- an amendment that replaces a blocked task leaves a task blocked behind it blocked
  (`apply.ts:911` resets only what needs a replan; see the comment at `904`).
- the guard compares a dirty path with its first attribution record
  (`unmediated-guard.ts:135`), while later digests are appended behind it, so a third
  attempt is refused over what the second applied.
- a status inherited from an ancestor replaces the whole property's doubt, so a
  property is satisfied although another of its criteria (a human's, a timeout) is
  inconclusive; `evaluate.ts:8` has uncertain evidence never dressed up as certainty.
- `resolveFollowup` evaluates without the flip rule: confirming a human criterion
  satisfies a property whose command passed at the base, and a later run inherits
  that "established by prior run - flip evidence lives in that run's record".
- ORACLE_INVALID is thrown after RED_PHASE_RECORDED, so a resume skips the red phase
  and executes the tasks that `apply.ts:554` means to refuse.
- with `requireRedPhase` switched on while a run is interrupted, a task replayed as
  ready counts as never run, and the red phase runs on a changed tree.
- the record of a command that awaits approval has no phase in the red sweep; an
  approval is lost to `spc verify`, which starts with an empty follow-up store; a
  confirmed human criterion is asked again by every later sweep; rejecting an
  approval contradicts the property where `criteria.ts:171` keeps it indeterminate.
- an agent's judgment is reused by revision, although the checkout may have changed
  without a commit since.
- a resolution is persisted before its evidence and events; dying in between loses
  the evidence, because a resolved follow-up returns early. `Decide` is one step.
- a suite loses the mark that it discriminates on the way into its criterion
  (`suites.ts:52`), so it does not gate the flip as `schema/src/spec.ts:60` has it.
- cancelling a run renames its requests away without the queue's lock
  (`cancel.ts:210`): an answer may be written to a dead request, feedback that was
  read before puts the request back, and an expiry may throw instead of timing out.
- a quick run commits everything in the checkout before it owns the workspace.

Execution:
- a file that a worker edits and commits in an attempt that fails passes in the retry:
  each attempt takes HEAD as it finds it for its baseline (`execute.ts:195`), the
  checkout is clean, and the task completes with it, while UCG-001
  (`specs/unmediated-change-guard.yaml:59`) has it that a directly-committed edit
  must not pass on a clean status.
- `revertPaths` restores what the index has (`touchset.ts:56`), so a protected path or
  one outside the targets that a worker or a command has staged is still there after
  the check, the next attempt's delta is empty, and the task completes with it, where
  the comment (`touchset.ts:44`) has the violation stick; and one that was taken out of
  the index counts as untracked and is removed.
- an author's protected commit passes the doors (the carve-out) and not the run,
  which threads no protected patterns into the guard.
- the dirt that a config allows is checked against the targets of the first plan
  only, not on a resume nor when an amendment changes targets, although it "must
  never override task scope" (`apply.ts:186`).
- a touch-set vouches for content that the command left as it was
  (`execute.ts:408`), so an old content written back by hand passes later.
- a patch of a path that an earlier change of the same answer deletes is made
  against the disk.
- proceeding on default clarifications returns before the delta check.
- `claim` and `--from-candidate` return before the door's guard is asked.
- a rehearsal turns away a draft over a path whose change was undone before its
  attempt ended: it is attributed, and the log has no FILE_CHANGED of it.
- a repair that patches work in flight and also changes a file the run has not
  touched yet (a new test, say) is refused with a base mismatch: `inFlightRecordedWork`
  wants a FILE_CHANGED of every path the draft names (`agent.ts:326`), also of those
  that are written whole, while VSG-002 (`specs/version-skew-guard.yaml:59`) promises
  the named divergence to every draft that stages in the checkout and not over the
  base. The run takes the draft. An instance with one writable path cannot show this.

Parallel runs:
- a process that dies leaves a task's worktree behind; the next one cannot create
  it, and the rejected promise ends the driver while other tasks go on after the
  lock is released.
- dying between TASK_READY and TASK_STARTED leaves a task "ready", which neither
  driver launches again; dying between the merge and TASK_COMPLETED has the task
  done again over its own patch, and its patch may stay when it fails then.
- `patternsOverlap` is said to be conservative and does not see that `src/**`
  and `src/*` overlap, so conflicts are not "structurally prevented"
  (`apply.ts:1997`); on plans that validation accepts, the overlap test of the
  launch loop decides nothing that SPC2007 has not decided.
- the risk of an amendment ignores `changeTarget`; an approval is kept by plan id
  through amendments; `addDependency` does not ask whether the task was executed.

Verification on its own:
- `spc verify --run` evaluates the run's result in a worktree and records the
  repository's HEAD and dirt (`queries.ts:309`), so a later `spc verify` passes
  HEAD over as cached though it was never verified; its digests for the command
  cache are the repository's too.
- digests are taken after the command ran, so an edit meanwhile files the old
  result under the new content; a filter without `...` leaves out the packages
  whose built files it reads; the prefix of a repository of one package is "/",
  which no path has; a hit is used before the command policy is asked; what
  git ignores (`dist`) is invisible to freshness.
- a sweep against a diff compares committed trees and evaluates a dirty one, and
  skips by criterion id, which is unique within a spec only (this repository's own
  specs share eleven).
- an answer to a question that a run has left open rewrites its `state.json` when it is
  over (`queries.ts:216`), and is bound to no revision ("post-run-resolution"): a denied
  command that somebody confirms or waives, at whatever tree, makes the spec fresh and
  standing at the run's, though the command would fail there; `freshness.ts` counts it
  like evidence. An answer given while the run is on is lost when the run writes its own
  `state.json`.
- `createVerifyRun` closes its run only after a harness timeout; any other error
  leaves it running.

Records:
- a torn last line is tolerated by load, and the next append is glued to it, which
  load refuses for good; `followups.json` is rewritten in place, and half of it
  makes load throw.
- two live writers break the event chain; `EvidenceStore` adopts the last record on
  disk only, so ids repeat and earlier records of another writer stay unseen.
- replay compares the attested evidence head with all evidence, so a decision
  after the attestation makes it "broken", though `attestation.ts:11` calls an
  extension fine; dying between the anchor commit and `attestation.json` leaves
  the anchor without a record for good.

## Proofs

Everything proved holds for every value of the constants under their named
assumptions: any number of processes, calls, tasks, paths, crashes and retries.

`ApplyOwnershipProofs` proves `TypeCorrect`,
`LockSafety`, `BlockSafety` and `EventOrder`, and `Implementation`: without power
loss every step is a step of `WorkspaceLease` or a stutter. The lock argument
is that a process in an ownership region holds the lock and that only its own
death or its own release frees it; block safety needs in addition that the
processes which may overwrite or remove the record (coordinators and recoverers)
hold the same lock, and that what a canceller writes back is again a readable
record. Event order needs that every step which marks a run follows one that
appended to its log, so the invariant relates the program counter of each
process to the log of its job.
`CauseAdvances` holds because the arbitration lock makes the record a canceller
holds as advanced as the one on disk whenever both belong to the same ownership.
`RunEndsOnce` and `EndIsFinal` say that a run gets one terminal event and that a
`state.json` which shows an end never says running again, unless a canceller
finalised the run behind its owner. Three parties may end a run, and `EndInv` says
why they do not meet: the run of a coordinator that has yet to write its end is open
(`OwnedOpen`), that of a recoverer about to write one is (`RecoveredOpen`), both are
alive in an ownership region and so hold the one lock, and a run that is not named
yet is in no record that anybody could act on (`Unnamed`, `OwnNames`).
`InterruptionBlocks`, without power loss, is about the record that names a run whose
last coordinator died before it finalized. Either the record is there (`Guarded`):
then no other coordinator is past the door and whoever recovers works on that run,
whose log must show an end before the block is lifted. Or a canceller overwrote it
(`Overwritten`): then it had read another record, and nobody writes the first one
back, since the arbitration lock admits one writer and that one read something else.
A second coordinator that resumes the run takes over its execution lock, which is why
the property speaks of the coordinator that the lock names. Of the one it superseded
it would be false: with four coordinators and three cancellers, the canceller that
put back the older record may meanwhile have read a newer one.

`HarnessQueueProofs` proves `TypeCorrect`, `LiveResponses`, `EndedCallsLeave`,
`DeadStaysDead` and `StampsHonest`. Whoever is in the middle of a mutation holds
the lock (`Holds`), so at most one is, and what it read is still so unless a
canceller took the request (`Safe`); an agent keeps the lock from its check to
the last byte of its answer. The stamp bound rests on the invariant that a
call which is about to refresh its request has already been given the window it
will stamp.

`RunDriverProofs` proves all its run's safety properties, for any plans and
amendments. `Limits`: attempts, reserved
calls and amendments stay within `config.execution` over all lives of a run. No
counter is enough by itself, because a resume takes its counters from the log. The
inductive invariant `IInv` says what the log may lack: of the calls one per crash and
the one under way (`Calls`); of the amendments none, since REPLAN_REQUESTED is
appended before the plan file is written (`Replans`); and a task that is pending, in
memory or in the log, has an attempt to spare (`Attempts`). For `Remembers`,
`InOrder`, `Immutable` and `LogIsLedger` its part `Steady` says how far memory, log
and plan file may be apart between two appends: a task under way is running in memory
and at least ready in the log, and its dependencies are met (`Working`); of a planned
task both know the same attempt and whether it is completed, failed or blocked
(`Synced`); the plan file is the plan, or the amended plan that is about to be adopted
and keeps what was completed (`Filed`); and what the log calls completed is in the
plan (`DonePlanned`). That amendments keep the last is
`AmendmentKeeps`, about the operators of `PlanRules`: the operations are applied by a
recursion over their positions, and its result is characterised by an induction over
the natural numbers that `Least`, `Induct` and `Recursion` derive from the
well-foundedness of finite sets, since the library's induction theorems cannot be
instantiated here. All of this holds whatever validation says of the plans.

`PlansSound` is what validation adds. That every plan on the way has passed it
(`Checked`) is the easy half; the other is that `FindCycle` and `ReachableFrom`, the
searches of `graph.ts` with their path and their queue spelled out, answer to
definitions that search nothing. A search is a function on its own states, which
exists because a measure falls at every turn (`SearchExists`: nodes not yet seen,
then the length of the path; or nodes not yet out, then the queue) and whose value
has what every state reached keeps (`SearchStays`). For the cycle search that is: the
nodes done depend only on nodes done, and every set of them has a member that
depends on none of the set (`NoCycle`); for reachability: whatever holds the start and
is closed under dependencies holds what is found (`ReachesOnly`). The converse (a
search misses nothing that is ordered, reports no cycle that is none) is not
needed for it, and no theorem states it.

`ParallelDriverProofs` proves `TypeCorrect`, `MergesCompleted`, `Delivers` and
`NeverConflicts`, for any number of tasks, lives and any parallelism. For the branch,
`Work` follows a patch: only a completed outcome is merged (`MergedFirst`), it is on
the branch before its worktree goes, and its completion is logged after that, so that
whatever the log calls completed has its changes on the branch in this life or an
earlier one (`Dated`). For conflicts, `Clear` says that tasks in flight do not overlap
by the test of the launch loop (`Apart`) and that the branch between the base of a
worktree and its merge holds only patches of tasks whose targets do not overlap its
own (`Beside`), each within the targets (`InTargets`).

`VerifyCacheProofs` proves that what `spc verify` does not do again would give the
same now: `ReusesSoundly`, `FreshHolds`, `StandsFirm` and `ReportsHonestly`, for any
number of invocations over any repository. All four say something of the present
tree, and `Inv` carries it there: the entries of the cache, in the file and in every
copy of it, hold what their command read (`CacheSound`); as long as nothing is touched,
what an invocation saw, remembers or found is in the tree (`Witnessed`, `Remembered`,
`Found`) and the tree is the commit that its run names or that its sweep compares
(`Based`, `Compared`); hence what the evidence of a run supports holds in a
commit (`RunsTell`), which no later step changes, and freshness and posture compare that
commit with the tree. That a property is green says less: each of its criteria is
supported or answered for, or the property is waived (`GreenTells`), whatever people
decide after the run and in whatever order; the exception `Vouched` of the two theorems
is the rest. Invocations do not disturb each other's runs because a run is
recorded by one of them only (`Apart`).

`TaskExecutionProofs` proves `DispatchBound`, by an invariant that every dispatch
but the first follows a round or a refusal (`Counted`); `ScopeEnforced`, that the
step which ends an attempt leaves every path it may not change as it was found or
as HEAD has it, unless it is staged; and `OnlyMediated`. For the last, `Traced` says
that what an attempt finds in HEAD is the base or was committed by a worker before it,
and `Mediation` follows content from the staged answer over the applied paths and the commands to attribution.json:
whatever is recorded there was written by the applicator or vouched for by a command,
and from the submission check on nothing else differs under the targets.
`RehearsalAgrees` compares two stagings of one draft, over the base revision and over
the checkout. Staging looks at no path but those the changes name (`StagingLooks`) and,
where it fits, takes account of each of them (`StagingEnters`); both are inductions
over the changes. So a draft over untouched paths is staged alike, one over work in
flight has a FILE_CHANGED of every path, since the guard wants a record of each, and
`AtBase` keeps HEAD at the base until something is committed.

`RunRecordsProofs` proves `TypeCorrect` and `EvidenceSurvives`: while no two adds
overlap and none falls onto a torn line, the evidence is a chain that load accepts.
`Chained` relates the memory of each process to the file: what it has adopted is the
last record on disk, and at most one process is between its adoption and its append.
`FilesAgree` says that the log and the follow-ups file tell of the same follow-ups
as long as nobody dies: a writer rewrites the file from its memory before it appends
the event, so the file tells what the log tells and what a process underway is about
to (`FileTells`), and whoever knows the last event knows the file (`Current`); both
only of a log that load would accept (`Clean`).
`HonestReplays` is about writers that come one after another (`Lone`): what the one
at work remembers is what is on disk (`Knowing`), the files are well formed
(`Intact`), and from the attestation on its digests and the commitments in git are of
the run as it now is (`Sealed`).

`VerificationProofs` proves, for any specification, trees, number of runs, edits
and crashes, `ReplayIsState`: the requirements of a run are what its events replay
to. All sweeps but the last write both; the final one keeps its verdicts in memory
while the guard logs a second opinion over them and may leave the first in place.
That is harmless only because the guard asks again about nothing but plainly
satisfied properties without a waiver, so a second opinion that does not take away
repeats the first (`GuardedPlain`, from two lemmas on the evaluator).
`RedSeesBase` says that the red phase describes the base, under the assumption
`Requires = {TRUE}`: while a run owes its red phase no task of it is past
`pending`, so its checkout is still the base, and only a completed red sweep pays
the debt. Without that assumption it is false, see the divergences.

The other two thirds of that module are about what a status means. `Frame` is
`TypeCorrect` with the order in which runs come to be: parents before children,
nothing recorded of a run that has not begun. `SatisfiedIsTrue` follows the final
sweep criterion by criterion (`SweptWorks`: what has been shown to pass passes in the
checkout) and then the guard's (`GuardWorks`), which looks in the commit alone;
`SatisfiedIsEarned` carries two facts along the chain of runs: a criterion that was
seen red failed at the base of its run (`RedsFailed`, from `RedSeesBase`), and
what is logged as satisfied, undecided by humans, failed at the base of a run of the
lineage (`LogEarned`). It assumes, as `Flippable`, that every process loads
`requireRedPhase` and that no suite is marked discriminating, since normalisation drops
that mark. `ContinuationIsKept` is the converse (`SweptKept`, `Kept`): where every
criterion passes, the flip rule leaves a property satisfied or in doubt for the base
only, and the latter is what a lineage can lend. `Lineage` is defined as what every set
closed under parents contains, so that walks along the chain need no induction;
`First` and `DefaultParent` need a least element (`Least`).

Assumptions are the constants' own: of ownership, that the kinds of processes are
disjoint, `NoProc` and `NoRun` are not among them, and outcomes are outcomes; of the
queue, the windows' types and that its markers for nothing, its agents and its calls
are different things; of the records, that the owner is not a resolver; of the
others, the types of what they are given.

Only model-checked:
- liveness (`CallEnds` and both `RunEnds`), which needs ENABLED.

## Not modelled, and the plan

`PROJECT.json` lists the components without a module and why. Hazards known to be
in the code that no property covers: a pid that the system gives to another process
makes a dead owner look alive (`lock.ts:41`, the models identify a process with its
pid); a cancellation infers from `state.json` that the owner stopped
(`cancel.ts:107`); a declared command may leave a process behind that writes later
(`commands.ts:222`); two processes may draw one invocation number (`store.ts:140`,
the calls of the model have ids of their own); a claim checks without the lock
(`candidates.ts:178`) and so does the check for an unconsumed answer (`agent.ts:243`),
which `HarnessQueue` has as interleavings that no promise covers; one blocking
pass in plan order (`scheduler.ts:50`); two tasks over one checkout (`touchset.ts:50`).

What would come next, in this order:

1. two tasks over one checkout, with both attributions and a commit between them;
2. drift and reconciliation, which read the records of finished runs;
3. the imports of specification loading, as a graph algorithm.

Text (prompts, parsing, rendering, canonical forms, the matching of command policies)
is left to unit tests.
