--------------------------- MODULE ApplyOwnership ---------------------------
(***************************************************************************)
(* Who may work in a workspace, and what a crash leaves behind.            *)
(*                                                                         *)
(* The processes of one checkout - coordinators (`spc apply`, and          *)
(* `spc apply --resume`), cancellers (`spc run cancel`), recoverers        *)
(* (`spc apply recover`) and owner reports (`spc apply owner`) - share     *)
(* four things on disk:                                                    *)
(*   lock    the kernel flock .spc/apply.lock, released when its holder    *)
(*           dies                                                          *)
(*   intent  .spc/execution-intent.json, the workspace safety block        *)
(*   arb     the flock .spc/execution-intent.lock around cause changes     *)
(*   state, log, attest, execLock   state.json, the terminal events of     *)
(*           events.jsonl, attestation.json and execution.lock of each run *)
(*                                                                         *)
(* An action is the code between two accesses to what is shared.  A        *)
(* process runs one command in its life, so a process is also a pid, and   *)
(* the run a fresh apply creates has the name of its process.              *)
(***************************************************************************)
EXTENDS Naturals, Sequences

CONSTANTS
    Coordinators,     \* processes that run `spc apply` or `spc apply --resume`
    Cancellers,       \* processes that run `spc run cancel`
    Recoverers,       \* processes that run `spc apply recover`
    Reporters,        \* processes that run `spc apply owner`
    NoProc,           \* no process: a free lock
    NoRun,            \* the empty run id
    PlanOf,           \* the plan a fresh apply executes
    Outcomes,         \* the statuses finishRun may settle a run with
    HardEscalation,   \* the platform is Linux
    PowerLoss         \* the machine may lose power under an unsynced record

Runs == Coordinators
RunIds == Runs \cup {NoRun}
Procs == Coordinators \cup Cancellers \cup Recoverers \cup Reporters

ASSUME OwnershipAssumption ==
    /\ NoProc \notin Procs
    /\ NoRun \notin Coordinators
    /\ Coordinators \cap (Cancellers \cup Recoverers \cup Reporters) = {}
    /\ Cancellers \cap (Recoverers \cup Reporters) = {}
    /\ Recoverers \cap Reporters = {}
    /\ Outcomes \subseteq {"succeeded", "failed", "blocked", "partially_satisfied"}
    /\ HardEscalation \in BOOLEAN
    /\ PowerLoss \in BOOLEAN

Causes == {"NONE", "CANCEL_REQUESTED", "CANCEL_ESCALATED"}

\* ORDER: a cause may only advance.
Rank == [NONE |-> 0, CANCEL_REQUESTED |-> 1, CANCEL_ESCALATED |-> 2]

\* What readIntent makes of the file: no file, a file it cannot accept
\* (not JSON, no cause, no coordinator...), or a record.
Intents == [kind: {"absent", "malformed", "ok"}, cause: Causes,
            run: RunIds, pid: Procs \cup {NoProc}]

Absent == [kind |-> "absent", cause |-> "NONE", run |-> NoRun, pid |-> NoProc]
Malformed == [Absent EXCEPT !.kind = "malformed"]
Record(r, p) == [kind |-> "ok", cause |-> "NONE", run |-> r, pid |-> p]

Terminal == Outcomes \cup {"blocked", "cancelled"}

CoordinatorSteps ==
    {"locked", "gated", "intending", "naming", "prepared", "replaying", "driving",
     "clearing", "completing", "persisting", "attesting", "unlocking", "releasing"}
CancelSteps ==
    {"inspecting", "requesting", "writing request", "waiting", "deciding",
     "escalating", "writing escalation", "killing", "ending", "ending state",
     "ending attestation"}
RecoverSteps ==
    {"recovering", "loading", "terminating", "marking", "re-attesting",
     "unblocking", "leaving"}
Ends == {"idle", "refused", "unsafe", "failed", "returned", "cancelled", "incomplete",
         "no block", "recovered", "reported"}
Steps == CoordinatorSteps \cup CancelSteps \cup RecoverSteps \cup Ends \cup {"probing"}

VARIABLES
    pc,        \* where each process is in its command; kept when it dies
    alive,     \* the processes that exist (kill(pid, 0) succeeds)
    lock, arb, intent,
    state,     \* state.json: "absent", "created" (metadata, no state.json), a status
    log,       \* the statuses of the RUN_COMPLETED events, oldest first
    attest,    \* the status attestation.json commits to
    execLock,  \* the pid in execution.lock
    job,       \* the run a process works on
    result,    \* the status a coordinator computed for its run
    drove,     \* coordinators that reached the scheduler
    held,      \* the intent record a process read and still acts on
    target     \* the pid a canceller will signal

ownVars == <<lock, intent>>
runVars == <<state, log, attest, execLock>>
ctlVars == <<job, result, drove>>
cancelVars == <<arb, held, target>>
vars == <<pc, alive, lock, arb, intent, state, log, attest, execLock, job, result,
          drove, held, target>>

TypeOK ==
    /\ pc \in [Procs -> Steps]
    /\ alive \subseteq Procs
    /\ lock \in Procs \cup {NoProc}
    /\ arb \in Procs \cup {NoProc}
    /\ intent \in Intents
    /\ state \in [Runs -> {"absent", "created", "running"} \cup Terminal]
    /\ log \in [RunIds -> Seq(Terminal \cup {"recovered"})]
    /\ attest \in [RunIds -> Terminal \cup {"none", "recovered"}]
    /\ execLock \in [Runs -> Procs \cup {NoProc}]
    /\ job \in [Procs -> RunIds]
    /\ result \in [Coordinators -> Outcomes \cup {"none", "blocked"}]
    /\ drove \subseteq Coordinators
    /\ held \in [Procs -> Intents]
    /\ target \in [Procs -> Procs \cup {NoProc}]

Init ==
    /\ pc = [p \in Procs |-> "idle"]
    /\ alive = {}
    /\ lock = NoProc
    /\ arb = NoProc
    /\ intent = Absent
    /\ state = [r \in Runs |-> "absent"]
    /\ log = [r \in RunIds |-> <<>>]
    /\ attest = [r \in RunIds |-> "none"]
    /\ execLock = [r \in Runs |-> NoProc]
    /\ job = [p \in Procs |-> NoRun]
    /\ result = [p \in Coordinators |-> "none"]
    /\ drove = {}
    /\ held = [p \in Procs |-> Absent]
    /\ target = [p \in Procs |-> NoProc]

At(p, step) == p \in alive /\ pc[p] = step
Goto(p, step) == pc' = [pc EXCEPT ![p] = step]
Begin(p) == pc[p] = "idle" /\ p \notin alive /\ alive' = alive \cup {p}
Free(l, p) == IF l = p THEN NoProc ELSE l

-----------------------------------------------------------------------------
(* Coordinators. *)

\* acquireOwnership up to the flock: a held lock refuses with
\* APPLY_ALREADY_RUNNING.  A fresh apply works on its own run; --resume on
\* one whose directory and metadata exist.
Acquire(p, r) ==
    /\ Begin(p)
    /\ r # p => state[r] # "absent"
    /\ job' = [job EXCEPT ![p] = r]
    /\ \/ lock = NoProc /\ lock' = p /\ Goto(p, "locked")
       \/ lock # NoProc /\ UNCHANGED lock /\ Goto(p, "refused")
    /\ UNCHANGED <<intent, result, drove, runVars, cancelVars>>

\* Broken: the record read after the flock is not looked at.
CheckBlockIgnored(p) ==
    /\ At(p, "locked")
    /\ Goto(p, "gated")
    /\ UNCHANGED <<alive, lock, intent, runVars, ctlVars, cancelVars>>

\* The safety block gates execution.  Only a record that reads as ok refuses.
CheckBlock(p) ==
    /\ At(p, "locked")
    /\ \/ intent.kind = "ok" /\ lock' = NoProc /\ Goto(p, "unsafe")
       \/ intent.kind # "ok" /\ UNCHANGED lock /\ Goto(p, "gated")
    /\ UNCHANGED <<alive, intent, runVars, ctlVars, cancelVars>>

\* A fresh apply: preflight, no run of the same plan marked running, a new
\* run with its execution lock, and the block with an empty run id.
StartRun(p) ==
    /\ At(p, "gated") /\ job[p] = p
    /\ \A r \in Runs : PlanOf[r] = PlanOf[p] => state[r] # "running"
    /\ execLock' = [execLock EXCEPT ![p] = p]
    /\ intent' = Record(NoRun, p)
    /\ Goto(p, "intending")
    /\ UNCHANGED <<alive, lock, state, log, attest, ctlVars, cancelVars>>

\* The block is read back and rewritten with the run's id, without the
\* arbitration lock; a record that cannot be read is left as it is.
NameRun(p) ==
    /\ At(p, "intending")
    /\ intent' = IF intent.kind = "ok" THEN [intent EXCEPT !.run = p] ELSE intent
    /\ Goto(p, "naming")
    /\ UNCHANGED <<alive, lock, runVars, ctlVars, cancelVars>>

\* metadata.json and the RUN_CREATED prefix of the event log.
CreateRun(p) ==
    /\ At(p, "naming")
    /\ state' = [state EXCEPT ![p] = "created"]
    /\ Goto(p, "prepared")
    /\ UNCHANGED <<alive, ownVars, log, attest, execLock, ctlVars, cancelVars>>

\* A missing secret or an open blocking follow-up ends the run before any
\* task is dispatched.
BlockEarly(p) ==
    /\ At(p, "prepared")
    /\ result' = [result EXCEPT ![p] = "blocked"]
    /\ Goto(p, "clearing")
    /\ UNCHANGED <<alive, ownVars, runVars, job, drove, cancelVars>>

\* Broken: a promise returned without await reaches the finally, and with it
\* the release of the flock, the moment the scheduler is dispatched.
DispatchUnlocked(p) ==
    /\ At(p, "prepared")
    /\ drove' = drove \cup {p}
    /\ lock' = Free(lock, p)
    /\ Goto(p, "driving")
    /\ UNCHANGED <<alive, intent, runVars, job, result, cancelVars>>

\* Worktree or run branch ready: the scheduler takes over.
Dispatch(p) ==
    /\ At(p, "prepared")
    /\ drove' = drove \cup {p}
    /\ Goto(p, "driving")
    /\ UNCHANGED <<alive, ownVars, runVars, job, result, cancelVars>>

\* Broken: a resumed run forgets to write its block.
ResumeUnblocked(p) ==
    LET r == job[p] IN
    /\ At(p, "gated") /\ r # p
    /\ execLock[r] \notin alive
    /\ execLock' = [execLock EXCEPT ![r] = p]
    /\ Goto(p, "replaying")
    /\ UNCHANGED <<alive, lock, intent, state, log, attest, ctlVars, cancelVars>>

\* --resume: the execution lock is refused while its holder lives (the
\* caller throws, see Throw), taken over otherwise; then the block.
ResumeRun(p) ==
    LET r == job[p] IN
    /\ At(p, "gated") /\ r # p
    /\ execLock[r] \notin alive
    /\ execLock' = [execLock EXCEPT ![r] = p]
    /\ intent' = Record(r, p)
    /\ Goto(p, "replaying")
    /\ UNCHANGED <<alive, lock, state, log, attest, ctlVars, cancelVars>>

\* Broken: the replayed status is not looked at.
ReplayUnchecked(p) ==
    /\ At(p, "replaying")
    /\ drove' = drove \cup {p}
    /\ Goto(p, "driving")
    /\ UNCHANGED <<alive, ownVars, runVars, job, result, cancelVars>>

\* The event log is replayed; only a run without a terminal event goes on.
Replay(p) ==
    /\ At(p, "replaying")
    /\ log[job[p]] = <<>>
    /\ drove' = drove \cup {p}
    /\ Goto(p, "driving")
    /\ UNCHANGED <<alive, ownVars, runVars, job, result, cancelVars>>

\* A task changes status: the driver persists its in-memory state.
Transition(p) ==
    /\ At(p, "driving")
    /\ state' = [state EXCEPT ![job[p]] = "running"]
    /\ UNCHANGED <<pc, alive, ownVars, log, attest, execLock, ctlVars, cancelVars>>

\* The scheduler returned (also after it observed a cancellation):
\* finishRun computes a status from the properties and follow-ups.
FinishRun(p) ==
    /\ At(p, "driving")
    /\ \E s \in Outcomes : result' = [result EXCEPT ![p] = s]
    /\ Goto(p, "clearing")
    /\ UNCHANGED <<alive, ownVars, runVars, job, drove, cancelVars>>

\* finalize, in its order: the block is cleared first...
ClearIntent(p) ==
    /\ At(p, "clearing")
    /\ intent' = Absent
    /\ Goto(p, "completing")
    /\ UNCHANGED <<alive, lock, runVars, ctlVars, cancelVars>>

\* Broken: state.json is written before the event.
CompleteStateFirst(p) ==
    /\ At(p, "completing")
    /\ state' = [state EXCEPT ![job[p]] = result[p]]
    /\ Goto(p, "persisting")
    /\ UNCHANGED <<alive, ownVars, log, attest, execLock, ctlVars, cancelVars>>

\* ...then RUN_COMPLETED is appended, whatever else the log holds...
Complete(p) ==
    /\ At(p, "completing")
    /\ log' = [log EXCEPT ![job[p]] = Append(@, result[p])]
    /\ Goto(p, "persisting")
    /\ UNCHANGED <<alive, ownVars, state, attest, execLock, ctlVars, cancelVars>>

\* ...then state.json...
PersistFinal(p) ==
    /\ At(p, "persisting")
    /\ state' = [state EXCEPT ![job[p]] = result[p]]
    /\ Goto(p, "attesting")
    /\ UNCHANGED <<alive, ownVars, log, attest, execLock, ctlVars, cancelVars>>

\* ...then the attestation.  A run blocked early has no more to do.
Attest(p) ==
    /\ At(p, "attesting")
    /\ attest' = [attest EXCEPT ![job[p]] = result[p]]
    /\ Goto(p, IF p \in drove THEN "unlocking" ELSE "releasing")
    /\ UNCHANGED <<alive, ownVars, state, log, execLock, ctlVars, cancelVars>>

\* finishRun after finalize: the execution lock goes, the branch is restored.
ReleaseExecution(p) ==
    /\ At(p, "unlocking")
    /\ execLock' = [execLock EXCEPT ![job[p]] = NoProc]
    /\ Goto(p, "releasing")
    /\ UNCHANGED <<alive, ownVars, state, log, attest, ctlVars, cancelVars>>

\* The finally of applyPlan and resumeRun: the flock, and nothing else.
ReleaseLock(p) ==
    /\ At(p, "releasing")
    /\ lock' = Free(lock, p)
    /\ Goto(p, "returned")
    /\ UNCHANGED <<alive, intent, runVars, ctlVars, cancelVars>>

\* Any exception under ownership (preflight, replay of a finished run, a
\* worktree that is gone, I/O...) reaches that same finally.
Throw(p) ==
    /\ p \in alive /\ p \in Coordinators
    /\ pc[p] \in CoordinatorSteps \ {"locked", "releasing"}
    /\ lock' = Free(lock, p)
    /\ Goto(p, "failed")
    /\ UNCHANGED <<alive, intent, runVars, ctlVars, cancelVars>>

Coordinate(p) ==
    \/ \E r \in Runs : Acquire(p, r)
    \/ CheckBlock(p) \/ StartRun(p) \/ NameRun(p) \/ CreateRun(p) \/ BlockEarly(p)
    \/ Dispatch(p) \/ ResumeRun(p) \/ Replay(p) \/ Transition(p) \/ FinishRun(p)
    \/ ClearIntent(p) \/ Complete(p) \/ PersistFinal(p) \/ Attest(p)
    \/ ReleaseExecution(p) \/ ReleaseLock(p) \/ Throw(p)

-----------------------------------------------------------------------------
(* Cancellers. *)

\* cancelRun: only a run whose state.json says running can be cancelled.
Cancel(c, r) ==
    /\ Begin(c)
    /\ job' = [job EXCEPT ![c] = r]
    /\ Goto(c, IF state[r] = "running" THEN "inspecting" ELSE "refused")
    /\ UNCHANGED <<ownVars, runVars, result, drove, cancelVars>>

Names(rec, r) == rec.kind = "ok" /\ rec.run = r

\* The recorded cause decides: a fresh request, a retry of either stage, or
\* - no record of this run - the legacy path that writes straight away.
InspectIntent(c) ==
    /\ At(c, "inspecting")
    /\ IF Names(intent, job[c]) /\ intent.cause = "CANCEL_ESCALATED"
       THEN /\ target' = [target EXCEPT ![c] = intent.pid]
            /\ Goto(c, "deciding")
       ELSE /\ Goto(c, IF ~Names(intent, job[c]) THEN "ending"
                       ELSE IF intent.cause = "NONE" THEN "requesting" ELSE "waiting")
            /\ UNCHANGED target
    /\ UNCHANGED <<alive, ownVars, runVars, ctlVars, arb, held>>

\* Broken: the compare happens without the arbitration lock.
ReadCauseUnlocked(c, from, before, after) ==
    /\ At(c, before)
    /\ \/ /\ intent.kind = "ok" /\ intent.cause = from
          /\ held' = [held EXCEPT ![c] = intent]
          /\ Goto(c, after)
       \/ /\ ~(intent.kind = "ok" /\ intent.cause = from)
          /\ Goto(c, "incomplete")
          /\ UNCHANGED held
    /\ UNCHANGED <<alive, arb, ownVars, runVars, ctlVars, target>>

\* transitionCause, first half: under the arbitration lock the record is
\* read and its cause compared.  A lock that is held, a record that cannot
\* be read and another cause all make the cancellation incomplete.
ReadCause(c, from, before, after) ==
    /\ At(c, before)
    /\ \/ /\ arb = NoProc /\ intent.kind = "ok" /\ intent.cause = from
          /\ arb' = c
          /\ held' = [held EXCEPT ![c] = intent]
          /\ Goto(c, after)
       \/ /\ ~(arb = NoProc /\ intent.kind = "ok" /\ intent.cause = from)
          /\ Goto(c, "incomplete")
          /\ UNCHANGED <<arb, held>>
    /\ UNCHANGED <<alive, ownVars, runVars, ctlVars, target>>

\* transitionCause, second half: what was read is written back with the new
\* cause, by rename over whatever is there now.
WriteCause(c, to, before, after) ==
    /\ At(c, before)
    /\ intent' = [held[c] EXCEPT !.cause = to]
    /\ arb' = Free(arb, c)
    /\ Goto(c, after)
    /\ UNCHANGED <<alive, lock, runVars, ctlVars, held, target>>

ReadRequest(c) == ReadCause(c, "NONE", "requesting", "writing request")
WriteRequest(c) == WriteCause(c, "CANCEL_REQUESTED", "writing request", "waiting")

\* cooperativeCancel: a poll that finds the run no longer running is success,
\* whatever the status is and whatever the owner still has to do.
ObserveEnd(c) ==
    /\ At(c, "waiting")
    /\ state[job[c]] # "running"
    /\ Goto(c, "cancelled")
    /\ UNCHANGED <<alive, ownVars, runVars, ctlVars, cancelVars>>

\* The grace period ends.
GraceExpired(c) ==
    /\ At(c, "waiting")
    /\ \/ /\ Names(intent, job[c]) /\ HardEscalation
          /\ target' = [target EXCEPT ![c] = intent.pid]
          /\ Goto(c, "deciding")
       \/ /\ ~(Names(intent, job[c]) /\ HardEscalation)
          /\ Goto(c, "incomplete")
          /\ UNCHANGED target
    /\ UNCHANGED <<alive, ownVars, runVars, ctlVars, arb, held>>

\* escalatedCancel records the escalation if the cause still asks for one; a
\* record that vanished meanwhile does not stop it.
DecideEscalation(c) ==
    /\ At(c, "deciding")
    /\ Goto(c, IF intent.kind = "ok" /\ intent.cause = "CANCEL_REQUESTED"
               THEN "escalating" ELSE "killing")
    /\ UNCHANGED <<alive, ownVars, runVars, ctlVars, cancelVars>>

ReadEscalation(c) == ReadCause(c, "CANCEL_REQUESTED", "escalating", "writing escalation")
WriteEscalation(c) == WriteCause(c, "CANCEL_ESCALATED", "writing escalation", "killing")

\* SIGTERM to the recorded pid (no handler is installed, so it dies), and
\* the bounded wait for it.  The kernel drops the dead process's locks.
Kill(c) ==
    /\ At(c, "killing")
    /\ alive' = alive \ {target[c]}
    /\ lock' = Free(lock, target[c])
    /\ arb' = Free(arb, target[c])
    /\ Goto(c, "ending")
    /\ UNCHANGED <<intent, runVars, ctlVars, held, target>>

\* finalizeCancelled: a terminal event, state.json and an attestation for
\* the run, without the workspace lock; the block stays as it is.
EndEvent(c) ==
    /\ At(c, "ending")
    /\ log' = [log EXCEPT ![job[c]] = Append(@, "cancelled")]
    /\ Goto(c, "ending state")
    /\ UNCHANGED <<alive, ownVars, state, attest, execLock, ctlVars, cancelVars>>

EndState(c) ==
    /\ At(c, "ending state")
    /\ state' = [state EXCEPT ![job[c]] = "cancelled"]
    /\ Goto(c, "ending attestation")
    /\ UNCHANGED <<alive, ownVars, log, attest, execLock, ctlVars, cancelVars>>

\* Broken: the canceller lifts the block although it owns nothing.
EndAttestationUnblocking(c) ==
    /\ At(c, "ending attestation")
    /\ attest' = [attest EXCEPT ![job[c]] = "cancelled"]
    /\ intent' = Absent
    /\ Goto(c, "cancelled")
    /\ UNCHANGED <<alive, lock, state, log, execLock, ctlVars, cancelVars>>

EndAttestation(c) ==
    /\ At(c, "ending attestation")
    /\ attest' = [attest EXCEPT ![job[c]] = "cancelled"]
    /\ Goto(c, "cancelled")
    /\ UNCHANGED <<alive, ownVars, state, log, execLock, ctlVars, cancelVars>>

CancelStep(c) ==
    \/ \E r \in Runs : Cancel(c, r)
    \/ InspectIntent(c) \/ ReadRequest(c) \/ WriteRequest(c) \/ ObserveEnd(c)
    \/ GraceExpired(c) \/ DecideEscalation(c) \/ ReadEscalation(c)
    \/ WriteEscalation(c) \/ Kill(c) \/ EndEvent(c) \/ EndState(c) \/ EndAttestation(c)

-----------------------------------------------------------------------------
(* Recovery and the owner report. *)

RecoverLock(v) ==
    /\ Begin(v)
    /\ \/ lock = NoProc /\ lock' = v /\ Goto(v, "recovering")
       \/ lock # NoProc /\ UNCHANGED lock /\ Goto(v, "refused")
    /\ UNCHANGED <<intent, runVars, ctlVars, cancelVars>>

\* A record that does not read as ok is nothing to recover.  No command
\* registers workers, so verifyWorkers finds none.
ReadBlock(v) ==
    /\ At(v, "recovering")
    /\ \/ /\ intent.kind = "ok"
          /\ held' = [held EXCEPT ![v] = intent]
          /\ job' = [job EXCEPT ![v] = intent.run]
          /\ Goto(v, "loading")
          /\ UNCHANGED lock
       \/ /\ intent.kind # "ok"
          /\ lock' = NoProc
          /\ Goto(v, "no block")
          /\ UNCHANGED <<held, job>>
    /\ UNCHANGED <<alive, intent, runVars, result, drove, arb, target>>

\* deriveTerminalOutcome: an escalated run is cancelled like any other.
RecoveryOutcome(cause) == IF cause = "NONE" THEN "recovered" ELSE "cancelled"

\* Broken: the exactly-one rule is not applied.
LoadLogUnchecked(v) ==
    /\ At(v, "loading")
    /\ Goto(v, "terminating")
    /\ UNCHANGED <<alive, ownVars, runVars, ctlVars, cancelVars>>

\* writeTerminalEvent loads the log and writes only if it shows no end.
LoadLog(v) ==
    /\ At(v, "loading")
    /\ Goto(v, IF log[job[v]] = <<>> THEN "terminating" ELSE "re-attesting")
    /\ UNCHANGED <<alive, ownVars, runVars, ctlVars, cancelVars>>

RecoverEvent(v) ==
    /\ At(v, "terminating")
    /\ log' = [log EXCEPT ![job[v]] = Append(@, RecoveryOutcome(held[v].cause))]
    /\ Goto(v, "marking")
    /\ UNCHANGED <<alive, ownVars, state, attest, execLock, ctlVars, cancelVars>>

\* state.json, if there is one, says cancelled whatever the outcome.
RecoverState(v) ==
    /\ At(v, "marking")
    /\ state' = [r \in Runs |-> IF r = job[v] /\ state[r] \notin {"absent", "created"}
                                THEN "cancelled" ELSE state[r]]
    /\ Goto(v, "re-attesting")
    /\ UNCHANGED <<alive, ownVars, log, attest, execLock, ctlVars, cancelVars>>

RecoverAttest(v) ==
    /\ At(v, "re-attesting")
    /\ attest' = [attest EXCEPT ![job[v]] = RecoveryOutcome(held[v].cause)]
    /\ Goto(v, "unblocking")
    /\ UNCHANGED <<alive, ownVars, state, log, execLock, ctlVars, cancelVars>>

RecoverClear(v) ==
    /\ At(v, "unblocking")
    /\ intent' = Absent
    /\ Goto(v, "leaving")
    /\ UNCHANGED <<alive, lock, runVars, ctlVars, cancelVars>>

RecoverDone(v) ==
    /\ At(v, "leaving")
    /\ lock' = Free(lock, v)
    /\ Goto(v, "recovered")
    /\ UNCHANGED <<alive, intent, runVars, ctlVars, cancelVars>>

\* A step of recovery fails: the lock is released, the block stays.
RecoverFail(v) ==
    /\ v \in alive
    /\ pc[v] \in RecoverSteps \ {"recovering", "leaving"}
    /\ lock' = Free(lock, v)
    /\ Goto(v, "incomplete")
    /\ UNCHANGED <<alive, intent, runVars, ctlVars, cancelVars>>

RecoverStep(v) ==
    \/ RecoverLock(v) \/ ReadBlock(v) \/ LoadLog(v) \/ RecoverEvent(v)
    \/ RecoverState(v) \/ RecoverAttest(v) \/ RecoverClear(v) \/ RecoverDone(v)
    \/ RecoverFail(v)

\* lockHeld: the report learns whether the flock is free by taking it...
Probe(o) ==
    /\ Begin(o)
    /\ \/ lock = NoProc /\ lock' = o /\ Goto(o, "probing")
       \/ lock # NoProc /\ UNCHANGED lock /\ Goto(o, "reported")
    /\ UNCHANGED <<intent, runVars, ctlVars, cancelVars>>

\* ...and giving it back.
Unprobe(o) ==
    /\ At(o, "probing")
    /\ lock' = Free(lock, o)
    /\ Goto(o, "reported")
    /\ UNCHANGED <<alive, intent, runVars, ctlVars, cancelVars>>

-----------------------------------------------------------------------------
(* The operating system. *)

\* A process dies - killed in the middle of its command, or done with it -
\* and the kernel drops its flocks.  The exit of a process that is done is
\* seen by nobody unless an execution lock names it.
Die(p) ==
    /\ p \in alive
    /\ pc[p] \in Ends => \E r \in Runs : execLock[r] = p
    /\ alive' = alive \ {p}
    /\ lock' = Free(lock, p)
    /\ arb' = Free(arb, p)
    /\ UNCHANGED <<pc, intent, runVars, ctlVars, held, target>>

\* Power fails: every process dies, and a record that was never fsynced
\* (writeIntent opens and closes the file it means to sync) may be torn.
LosePower ==
    /\ PowerLoss /\ alive # {}
    /\ alive' = {}
    /\ lock' = NoProc
    /\ arb' = NoProc
    /\ intent' \in {intent} \cup (IF intent.kind = "ok" THEN {Malformed} ELSE {})
    /\ UNCHANGED <<pc, runVars, ctlVars, held, target>>

Next ==
    \/ \E p \in Coordinators : Coordinate(p)
    \/ \E c \in Cancellers : CancelStep(c)
    \/ \E v \in Recoverers : RecoverStep(v)
    \/ \E o \in Reporters : Probe(o) \/ Unprobe(o)
    \/ \E p \in Procs : Die(p)
    \/ LosePower

Spec == Init /\ [][Next]_vars
-----------------------------------------------------------------------------
(* What holds with every command in play. *)

OwningSteps == CoordinatorSteps \cup RecoverSteps \cup {"probing"}

\* A live process that is inside an ownership region holds the workspace
\* lock, so no two coordinators or recoverers ever work at once, through
\* dispatch, finalization, attestation and branch restoration, whatever is
\* killed meanwhile (AO-001).
LockHeldWhileOwning ==
    \A p \in alive : pc[p] \in OwningSteps => lock = p

CoveredSteps == {"intending", "naming", "prepared", "replaying", "driving", "clearing"}

\* From the moment a coordinator may launch workers to the moment it starts
\* finalizing there is a readable safety block on disk, so that its death
\* at any point in between is noticed by the next coordinator (AO-002).
BlockCoversWork ==
    \A p \in Coordinators : p \in alive /\ pc[p] \in CoveredSteps => intent.kind = "ok"

\* The interruption cause recorded for one ownership (one run, one
\* coordinator) never moves backwards, however many cancellers race, retry
\* or die between reading and writing it.
CauseMonotonic ==
    [][intent.kind = "ok" /\ intent'.kind = "ok"
       /\ intent'.run = intent.run /\ intent'.pid = intent.pid
       => Rank[intent'.cause] >= Rank[intent.cause]]_vars

\* Whoever ends a run writes the terminal event first: no state.json says
\* finished, and no attestation exists, for a run whose log shows no end.
EventFirst ==
    /\ \A r \in Runs : state[r] \in Terminal => log[r] # <<>>
    /\ \A r \in RunIds : attest[r] # "none" => log[r] # <<>>

\* The lease an owner is promised: see WorkspaceLease.
Lease == INSTANCE WorkspaceLease
            WITH owner <- lock, blocked <- (intent.kind = "ok"), None <- NoProc
LeaseSpec == Lease!Spec

-----------------------------------------------------------------------------
(* What holds of a run that no canceller ends behind its owner's back. *)

\* finalizeCancelled writes the records of the run without the workspace lock.
Overruled(r) ==
    \E c \in Cancellers :
        job[c] = r /\ pc[c] \in {"ending", "ending state", "ending attestation", "cancelled"}

\* A run gets at most one RUN_COMPLETED, through any sequence of crashes,
\* resumes, recoveries and cooperative cancellations.
OneTerminalEvent == \A r \in Runs : Overruled(r) \/ Len(log[r]) <= 1

\* The record names the run of the coordinator, which did not start to finalize.
NamedSteps == CoveredSteps \ {"intending"}

\* Execution the log shows no end of, by the last coordinator that took the run up.
Unfinished(p) == pc[p] \in NamedSteps /\ execLock[job[p]] = p /\ log[job[p]] = <<>>

\* A run whose coordinator died between naming it and finalizing it keeps the
\* workspace blocked until it is recovered or another coordinator resumes it,
\* unless a canceller had read the record when it named another run, or none
\* yet: it may have put that back.
InterruptedRunBlocks ==
    \A p \in Coordinators :
        p \notin alive /\ Unfinished(p) =>
            intent.kind = "ok" \/ \E c \in Cancellers : held[c].kind = "ok" /\ held[c].run # job[p]

\* Once state.json says a run is finished it never says running again.
FinishedStaysFinished ==
    [][\A r \in Runs : state[r] \in Terminal => Overruled(r) \/ state'[r] \in Terminal]_vars

=============================================================================
