------------------------ MODULE ApplyOwnershipProofs ------------------------
(***************************************************************************)
(* What TLAPS proves about ApplyOwnership for any number of processes, any *)
(* plans and any outcomes.                                                 *)
(***************************************************************************)
EXTENDS ApplyOwnership, TLAPS

-----------------------------------------------------------------------------
(* Helpers. *)

\* Who is a process, a run, a run id; a canceller is not a coordinator.
LEMMA Roles ==
    /\ \A p \in Coordinators : p \in Procs /\ p \in Runs /\ p \in RunIds
    /\ \A c \in Cancellers \cup Recoverers \cup Reporters : c \in Procs /\ c \notin Coordinators
    /\ \A p \in Procs : p # NoProc
    /\ \A r \in Runs : r \in RunIds /\ r \in Coordinators
BY OwnershipAssumption DEF Procs, Runs, RunIds

\* Every record a process writes is a record.
LEMMA RecordTypes ==
    /\ Absent \in Intents
    /\ Malformed \in Intents
    /\ \A r \in RunIds : \A p \in Procs : Record(r, p) \in Intents
    /\ \A rec \in Intents : \A k \in Causes : [rec EXCEPT !.cause = k] \in Intents
BY DEF Absent, Malformed, Record, Intents, Causes, RunIds

\* A process moves to a step.
LEMMA Move ==
    ASSUME TypeOK, NEW p \in Procs, NEW step \in Steps, Goto(p, step)
    PROVE  pc' \in [Procs -> Steps]
BY DEF Goto, TypeOK

\* A process reads the record.
LEMMA Hold ==
    ASSUME TypeOK, NEW p \in Procs, held' = held \/ held' = [held EXCEPT ![p] = intent]
    PROVE  held' \in [Procs -> Intents]
<1>1. held \in [Procs -> Intents] /\ intent \in Intents
  BY DEF TypeOK
<1>. QED
  BY <1>1

\* A terminal event is appended to a log.
LEMMA Grow ==
    ASSUME TypeOK, NEW r \in RunIds, NEW s \in Terminal \cup {"recovered"},
           log' = [log EXCEPT ![r] = Append(@, s)]
    PROVE  log' \in [RunIds -> Seq(Terminal \cup {"recovered"})]
BY DEF TypeOK

-----------------------------------------------------------------------------
(* What a step leaves alone. *)

\* Process p moves and the others do not; some may die.
OthersStill(p) ==
    \A q \in Procs : q # p => /\ pc'[q] = pc[q]
                              /\ job'[q] = job[q]
                              /\ held'[q] = held[q]
                              /\ q \in alive' => q \in alive

\* The same, and no coordinator's conclusions change.
Aside(p) == OthersStill(p) /\ result' = result /\ drove' = drove /\ execLock' = execLock

\* A step of a canceller.
LEMMA CancellerFrame ==
    ASSUME TypeOK, NEW c \in Cancellers, CancelStep(c)
    PROVE  Aside(c)
<1>. USE DEF TypeOK, Goto, Aside, OthersStill, runVars, ctlVars, cancelVars
<1>1. ASSUME NEW r \in Runs, Cancel(c, r) PROVE Aside(c)
  BY <1>1 DEF Cancel, Begin
<1>2. CASE InspectIntent(c)
  BY <1>2 DEF InspectIntent
<1>3. ASSUME NEW from, NEW before, NEW after, ReadCause(c, from, before, after) PROVE Aside(c)
  BY <1>3 DEF ReadCause
<1>4. ASSUME NEW to, NEW before, NEW after, WriteCause(c, to, before, after) PROVE Aside(c)
  BY <1>4 DEF WriteCause
<1>5. CASE ObserveEnd(c) \/ DecideEscalation(c)
  BY <1>5 DEF ObserveEnd, DecideEscalation
<1>6. CASE GraceExpired(c) \/ Kill(c)
  BY <1>6 DEF GraceExpired, Kill
<1>7. CASE EndEvent(c) \/ EndState(c) \/ EndAttestation(c)
  BY <1>7 DEF EndEvent, EndState, EndAttestation
<1>. QED
  BY <1>1, <1>2, <1>3, <1>4, <1>5, <1>6, <1>7
     DEF CancelStep, ReadRequest, WriteRequest, ReadEscalation, WriteEscalation

\* A step of a recoverer.
LEMMA RecovererFrame ==
    ASSUME TypeOK, NEW v \in Recoverers, RecoverStep(v)
    PROVE  Aside(v)
<1>. USE DEF TypeOK, Goto, Aside, OthersStill, runVars, ctlVars, cancelVars
<1>1. CASE RecoverLock(v) \/ ReadBlock(v)
  BY <1>1 DEF RecoverLock, ReadBlock, Begin
<1>2. CASE LoadLog(v) \/ RecoverEvent(v) \/ RecoverState(v)
  BY <1>2 DEF LoadLog, RecoverEvent, RecoverState
<1>3. CASE RecoverAttest(v) \/ RecoverClear(v) \/ RecoverDone(v) \/ RecoverFail(v)
  BY <1>3 DEF RecoverAttest, RecoverClear, RecoverDone, RecoverFail
<1>. QED
  BY <1>1, <1>2, <1>3 DEF RecoverStep

\* A step of a coordinator.
LEMMA CoordinatorFrame ==
    ASSUME TypeOK, NEW p \in Coordinators, Coordinate(p)
    PROVE  /\ OthersStill(p)
           /\ held' = held /\ arb' = arb
           /\ \A q \in Coordinators : q # p => result'[q] = result[q]
<1>. DEFINE Still == /\ OthersStill(p)
                    /\ held' = held /\ arb' = arb
                    /\ \A q \in Coordinators : q # p => result'[q] = result[q]
<1>. USE Roles DEF TypeOK, Goto, OthersStill, ownVars, runVars, ctlVars, cancelVars
<1>1. ASSUME NEW r \in Runs, Acquire(p, r) PROVE Still
  BY <1>1 DEF Acquire, Begin
<1>2. CASE CheckBlock(p) \/ StartRun(p) \/ NameRun(p) \/ CreateRun(p)
  BY <1>2 DEF CheckBlock, StartRun, NameRun, CreateRun
<1>3. CASE BlockEarly(p) \/ FinishRun(p)
  BY <1>3 DEF BlockEarly, FinishRun
<1>4. CASE Dispatch(p) \/ ResumeRun(p) \/ Replay(p) \/ Transition(p)
  BY <1>4 DEF Dispatch, ResumeRun, Replay, Transition
<1>5. CASE ClearIntent(p) \/ Complete(p) \/ PersistFinal(p)
  BY <1>5 DEF ClearIntent, Complete, PersistFinal
<1>6. CASE Attest(p) \/ ReleaseExecution(p) \/ ReleaseLock(p) \/ Throw(p)
  BY <1>6 DEF Attest, ReleaseExecution, ReleaseLock, Throw
<1>. QED
  BY <1>1, <1>2, <1>3, <1>4, <1>5, <1>6 DEF Coordinate

-----------------------------------------------------------------------------
(* Types.  TypeOK is not inductive alone: finalize appends whatever status *)
(* finishRun left, and "none" is not a status.                             *)

FinishingSteps == {"clearing", "completing", "persisting", "attesting"}

\* A coordinator that finishes a run has a status for it.
ResultKnown ==
    \A p \in Coordinators : pc[p] \in FinishingSteps => result[p] # "none"

\* A coordinator keeps the types, given the status it writes.
LEMMA CoordinatorTypes ==
    ASSUME TypeOK, ResultKnown, NEW p \in Coordinators, Coordinate(p)
    PROVE  TypeOK'
<1>. USE Roles
<1>1. ASSUME NEW r \in Runs, Acquire(p, r) PROVE TypeOK'
  <2>1. PICK step \in {"locked", "refused"} : Goto(p, step)
    BY <1>1 DEF Acquire
  <2>2. pc' \in [Procs -> Steps]
    BY <2>1, Move DEF Steps, CoordinatorSteps, Ends
  <2>. QED
    BY <1>1, <2>2 DEF Acquire, Begin, TypeOK, runVars, cancelVars
<1>2. CASE CheckBlock(p)
  <2>1. PICK step \in {"unsafe", "gated"} : Goto(p, step)
    BY <1>2 DEF CheckBlock
  <2>2. pc' \in [Procs -> Steps]
    BY <2>1, Move DEF Steps, CoordinatorSteps, Ends
  <2>. QED
    BY <1>2, <2>2 DEF CheckBlock, TypeOK, runVars, ctlVars, cancelVars
<1>3. CASE StartRun(p)
  <2>1. pc' \in [Procs -> Steps]
    BY <1>3, Move DEF StartRun, Steps, CoordinatorSteps
  <2>. QED
    BY <1>3, <2>1, RecordTypes DEF StartRun, TypeOK, RunIds, ctlVars, cancelVars
<1>4. CASE NameRun(p)
  <2>1. pc' \in [Procs -> Steps]
    BY <1>4, Move DEF NameRun, Steps, CoordinatorSteps
  <2>2. intent' \in Intents
    BY <1>4 DEF NameRun, TypeOK, Intents
  <2>. QED
    BY <1>4, <2>1, <2>2 DEF NameRun, TypeOK, runVars, ctlVars, cancelVars
<1>5. CASE CreateRun(p)
  <2>1. pc' \in [Procs -> Steps]
    BY <1>5, Move DEF CreateRun, Steps, CoordinatorSteps
  <2>. QED
    BY <1>5, <2>1 DEF CreateRun, TypeOK, ownVars, ctlVars, cancelVars
<1>6. CASE BlockEarly(p)
  <2>1. pc' \in [Procs -> Steps]
    BY <1>6, Move DEF BlockEarly, Steps, CoordinatorSteps
  <2>. QED
    BY <1>6, <2>1 DEF BlockEarly, TypeOK, ownVars, runVars, cancelVars
<1>7. CASE Dispatch(p) \/ Replay(p)
  <2>1. pc' \in [Procs -> Steps]
    BY <1>7, Move DEF Dispatch, Replay, Steps, CoordinatorSteps
  <2>. QED
    BY <1>7, <2>1 DEF Dispatch, Replay, TypeOK, ownVars, runVars, cancelVars
<1>8. CASE ResumeRun(p)
  <2>1. pc' \in [Procs -> Steps]
    BY <1>8, Move DEF ResumeRun, Steps, CoordinatorSteps
  <2>. QED
    BY <1>8, <2>1, RecordTypes DEF ResumeRun, TypeOK, ctlVars, cancelVars
<1>9. CASE Transition(p)
  BY <1>9 DEF Transition, TypeOK, ownVars, ctlVars, cancelVars
<1>10. CASE FinishRun(p)
  <2>1. pc' \in [Procs -> Steps]
    BY <1>10, Move DEF FinishRun, Steps, CoordinatorSteps
  <2>. QED
    BY <1>10, <2>1 DEF FinishRun, TypeOK, ownVars, runVars, cancelVars
<1>11. CASE ClearIntent(p)
  <2>1. pc' \in [Procs -> Steps]
    BY <1>11, Move DEF ClearIntent, Steps, CoordinatorSteps
  <2>. QED
    BY <1>11, <2>1, RecordTypes DEF ClearIntent, TypeOK, runVars, ctlVars, cancelVars
<1>12. CASE Complete(p)
  <2>1. pc' \in [Procs -> Steps]
    BY <1>12, Move DEF Complete, Steps, CoordinatorSteps
  <2>2. result[p] \in Terminal /\ job[p] \in RunIds
    BY <1>12 DEF Complete, At, ResultKnown, FinishingSteps, TypeOK, Terminal
  <2>3. log' \in [RunIds -> Seq(Terminal \cup {"recovered"})]
    BY <1>12, <2>2, Grow DEF Complete
  <2>. QED
    BY <1>12, <2>1, <2>3 DEF Complete, TypeOK, ownVars, ctlVars, cancelVars
<1>13. CASE PersistFinal(p) \/ Attest(p)
  <2>1. PICK step \in {"attesting", "unlocking", "releasing"} : Goto(p, step)
    BY <1>13 DEF PersistFinal, Attest
  <2>2. pc' \in [Procs -> Steps]
    BY <2>1, Move DEF Steps, CoordinatorSteps
  <2>3. result[p] \in Terminal
    BY <1>13 DEF PersistFinal, Attest, At, ResultKnown, FinishingSteps, TypeOK, Terminal
  <2>. QED
    BY <1>13, <2>2, <2>3 DEF PersistFinal, Attest, TypeOK, ownVars, ctlVars, cancelVars
<1>14. CASE ReleaseExecution(p)
  <2>1. pc' \in [Procs -> Steps]
    BY <1>14, Move DEF ReleaseExecution, Steps, CoordinatorSteps
  <2>. QED
    BY <1>14, <2>1 DEF ReleaseExecution, TypeOK, ownVars, ctlVars, cancelVars
<1>15. CASE ReleaseLock(p) \/ Throw(p)
  <2>1. pc' \in [Procs -> Steps]
    BY <1>15, Move DEF ReleaseLock, Throw, Steps, Ends
  <2>. QED
    BY <1>15, <2>1 DEF ReleaseLock, Throw, Free, TypeOK, runVars, ctlVars, cancelVars
<1>. QED
  BY <1>1, <1>2, <1>3, <1>4, <1>5, <1>6, <1>7, <1>8, <1>9, <1>10, <1>11, <1>12, <1>13,
     <1>14, <1>15 DEF Coordinate

\* A canceller keeps the types.
LEMMA CancellerTypes ==
    ASSUME TypeOK, NEW c \in Cancellers, CancelStep(c)
    PROVE  TypeOK'
<1>. USE Roles
<1>1. ASSUME NEW r \in Runs, Cancel(c, r) PROVE TypeOK'
  <2>1. PICK step \in {"inspecting", "refused"} : Goto(c, step)
    BY <1>1 DEF Cancel
  <2>2. pc' \in [Procs -> Steps]
    BY <2>1, Move DEF Steps, CancelSteps, Ends
  <2>. QED
    BY <1>1, <2>2 DEF Cancel, Begin, TypeOK, ownVars, runVars, cancelVars
<1>2. CASE InspectIntent(c)
  <2>1. PICK step \in {"deciding", "ending", "requesting", "waiting"} : Goto(c, step)
    BY <1>2 DEF InspectIntent
  <2>2. pc' \in [Procs -> Steps]
    BY <2>1, Move DEF Steps, CancelSteps
  <2>3. target' \in [Procs -> Procs \cup {NoProc}]
    BY <1>2 DEF InspectIntent, TypeOK, Intents
  <2>. QED
    BY <1>2, <2>2, <2>3 DEF InspectIntent, TypeOK, ownVars, runVars, ctlVars
<1>3. ASSUME NEW from, NEW before, NEW after \in {"writing request", "writing escalation"},
             ReadCause(c, from, before, after)
      PROVE  TypeOK'
  <2>1. PICK step \in {after, "incomplete"} : Goto(c, step)
    BY <1>3 DEF ReadCause
  <2>2. pc' \in [Procs -> Steps]
    BY <2>1, Move DEF Steps, CancelSteps, Ends
  <2>3. held' \in [Procs -> Intents]
    BY <1>3, Hold DEF ReadCause
  <2>4. arb' = arb \/ arb' = c
    BY <1>3 DEF ReadCause
  <2>. QED
    <3>1. UNCHANGED <<alive, lock, intent, state, log, attest, execLock, job, result, drove,
                      target>>
      BY <1>3 DEF ReadCause, ownVars, runVars, ctlVars
    <3>. QED
      BY <2>2, <2>3, <2>4, <3>1 DEF TypeOK
<1>4. ASSUME NEW to \in Causes, NEW before, NEW after \in {"waiting", "killing"},
             WriteCause(c, to, before, after)
      PROVE  TypeOK'
  <2>1. pc' \in [Procs -> Steps]
    BY <1>4, Move DEF WriteCause, Steps, CancelSteps
  <2>2. intent' \in Intents
    BY <1>4, RecordTypes DEF WriteCause, TypeOK
  <2>. QED
    BY <1>4, <2>1, <2>2 DEF WriteCause, Free, TypeOK, runVars, ctlVars
<1>5. CASE ObserveEnd(c)
  <2>1. pc' \in [Procs -> Steps]
    BY <1>5, Move DEF ObserveEnd, Steps, Ends
  <2>. QED
    BY <1>5, <2>1 DEF ObserveEnd, TypeOK, ownVars, runVars, ctlVars, cancelVars
<1>6. CASE GraceExpired(c)
  <2>1. PICK step \in {"deciding", "incomplete"} : Goto(c, step)
    BY <1>6 DEF GraceExpired
  <2>2. pc' \in [Procs -> Steps]
    BY <2>1, Move DEF Steps, CancelSteps, Ends
  <2>3. target' \in [Procs -> Procs \cup {NoProc}]
    BY <1>6 DEF GraceExpired, TypeOK, Intents
  <2>. QED
    BY <1>6, <2>2, <2>3 DEF GraceExpired, TypeOK, ownVars, runVars, ctlVars
<1>7. CASE DecideEscalation(c)
  <2>1. PICK step \in {"escalating", "killing"} : Goto(c, step)
    BY <1>7 DEF DecideEscalation
  <2>2. pc' \in [Procs -> Steps]
    BY <2>1, Move DEF Steps, CancelSteps
  <2>. QED
    BY <1>7, <2>2 DEF DecideEscalation, TypeOK, ownVars, runVars, ctlVars, cancelVars
<1>8. CASE Kill(c)
  <2>1. pc' \in [Procs -> Steps]
    BY <1>8, Move DEF Kill, Steps, CancelSteps
  <2>. QED
    BY <1>8, <2>1 DEF Kill, Free, TypeOK, runVars, ctlVars
<1>9. CASE EndEvent(c)
  <2>1. pc' \in [Procs -> Steps]
    BY <1>9, Move DEF EndEvent, Steps, CancelSteps
  <2>2. log' \in [RunIds -> Seq(Terminal \cup {"recovered"})]
    BY <1>9, Grow DEF EndEvent, Terminal, TypeOK
  <2>. QED
    BY <1>9, <2>1, <2>2 DEF EndEvent, TypeOK, ownVars, ctlVars, cancelVars
<1>10. CASE EndState(c) \/ EndAttestation(c)
  <2>1. PICK step \in {"ending attestation", "cancelled"} : Goto(c, step)
    BY <1>10 DEF EndState, EndAttestation
  <2>2. pc' \in [Procs -> Steps]
    BY <2>1, Move DEF Steps, CancelSteps, Ends
  <2>. QED
    BY <1>10, <2>2 DEF EndState, EndAttestation, TypeOK, Terminal, ownVars, ctlVars, cancelVars
<1>. QED
  BY <1>1, <1>2, <1>3, <1>4, <1>5, <1>6, <1>7, <1>8, <1>9, <1>10
  DEF CancelStep, ReadRequest, WriteRequest, ReadEscalation, WriteEscalation, Causes

\* A recoverer keeps the types.
LEMMA RecovererTypes ==
    ASSUME TypeOK, NEW v \in Recoverers, RecoverStep(v)
    PROVE  TypeOK'
<1>. USE Roles
<1>1. CASE RecoverLock(v)
  <2>1. PICK step \in {"recovering", "refused"} : Goto(v, step)
    BY <1>1 DEF RecoverLock
  <2>2. pc' \in [Procs -> Steps]
    BY <2>1, Move DEF Steps, RecoverSteps, Ends
  <2>. QED
    BY <1>1, <2>2 DEF RecoverLock, Begin, TypeOK, runVars, ctlVars, cancelVars
<1>2. CASE ReadBlock(v)
  <2>1. PICK step \in {"loading", "no block"} : Goto(v, step)
    BY <1>2 DEF ReadBlock
  <2>2. pc' \in [Procs -> Steps]
    BY <2>1, Move DEF Steps, RecoverSteps, Ends
  <2>3. intent.run \in RunIds
    BY DEF TypeOK, Intents
  <2>4. held' \in [Procs -> Intents]
    BY <1>2, Hold DEF ReadBlock
  <2>5. job' \in [Procs -> RunIds]
    BY <1>2, <2>3 DEF ReadBlock, TypeOK
  <2>. QED
    BY <1>2, <2>2, <2>4, <2>5 DEF ReadBlock, TypeOK, runVars
<1>3. CASE LoadLog(v)
  <2>1. PICK step \in {"terminating", "re-attesting"} : Goto(v, step)
    BY <1>3 DEF LoadLog
  <2>2. pc' \in [Procs -> Steps]
    BY <2>1, Move DEF Steps, RecoverSteps
  <2>. QED
    BY <1>3, <2>2 DEF LoadLog, TypeOK, ownVars, runVars, ctlVars, cancelVars
<1>4. CASE RecoverEvent(v)
  <2>1. pc' \in [Procs -> Steps]
    BY <1>4, Move DEF RecoverEvent, Steps, RecoverSteps
  <2>2. RecoveryOutcome(held[v].cause) \in Terminal \cup {"recovered"} /\ job[v] \in RunIds
    BY DEF RecoveryOutcome, Terminal, TypeOK
  <2>3. log' \in [RunIds -> Seq(Terminal \cup {"recovered"})]
    BY <1>4, <2>2, Grow DEF RecoverEvent
  <2>. QED
    BY <1>4, <2>1, <2>3 DEF RecoverEvent, TypeOK, ownVars, ctlVars, cancelVars
<1>5. CASE RecoverState(v)
  <2>1. pc' \in [Procs -> Steps]
    BY <1>5, Move DEF RecoverState, Steps, RecoverSteps
  <2>. QED
    BY <1>5, <2>1 DEF RecoverState, TypeOK, Terminal, ownVars, ctlVars, cancelVars
<1>6. CASE RecoverAttest(v)
  <2>1. pc' \in [Procs -> Steps]
    BY <1>6, Move DEF RecoverAttest, Steps, RecoverSteps
  <2>. QED
    BY <1>6, <2>1 DEF RecoverAttest, RecoveryOutcome, TypeOK, Terminal, ownVars, ctlVars,
       cancelVars
<1>7. CASE RecoverClear(v)
  <2>1. pc' \in [Procs -> Steps]
    BY <1>7, Move DEF RecoverClear, Steps, RecoverSteps
  <2>. QED
    BY <1>7, <2>1, RecordTypes DEF RecoverClear, TypeOK, runVars, ctlVars, cancelVars
<1>8. CASE RecoverDone(v) \/ RecoverFail(v)
  <2>1. pc' \in [Procs -> Steps]
    BY <1>8, Move DEF RecoverDone, RecoverFail, Steps, Ends
  <2>. QED
    BY <1>8, <2>1 DEF RecoverDone, RecoverFail, Free, TypeOK, runVars, ctlVars, cancelVars
<1>. QED
  BY <1>1, <1>2, <1>3, <1>4, <1>5, <1>6, <1>7, <1>8 DEF RecoverStep

\* The owner report and the operating system keep the types.
LEMMA OtherTypes ==
    ASSUME TypeOK,
           \/ \E o \in Reporters : Probe(o) \/ Unprobe(o)
           \/ \E p \in Procs : Die(p)
           \/ LosePower
    PROVE  TypeOK'
<1>. USE Roles
<1>1. ASSUME NEW o \in Reporters, Probe(o) \/ Unprobe(o) PROVE TypeOK'
  <2>1. PICK step \in {"probing", "reported"} : Goto(o, step)
    BY <1>1 DEF Probe, Unprobe
  <2>2. pc' \in [Procs -> Steps]
    BY <2>1, Move DEF Steps, Ends
  <2>. QED
    BY <1>1, <2>2 DEF Probe, Unprobe, Begin, Free, TypeOK, runVars, ctlVars, cancelVars
<1>2. ASSUME NEW p \in Procs, Die(p) PROVE TypeOK'
  BY <1>2 DEF Die, Free, TypeOK, runVars, ctlVars
<1>3. CASE LosePower
  BY <1>3, RecordTypes DEF LosePower, TypeOK, runVars, ctlVars
<1>. QED
  BY <1>1, <1>2, <1>3

\* The status of every run that is being finished stays known.
LEMMA ResultStep ==
    ASSUME TypeOK, ResultKnown, Next
    PROVE  ResultKnown'
<1>. USE Roles DEF TypeOK, ResultKnown, FinishingSteps, At, Goto
<1>1. ASSUME NEW p \in Coordinators, Coordinate(p) PROVE ResultKnown'
  <2>. USE <1>1 DEF ownVars, runVars, ctlVars, cancelVars
  <2>1. ASSUME NEW r \in Runs, Acquire(p, r) PROVE ResultKnown'
    BY <2>1 DEF Acquire
  <2>2. CASE CheckBlock(p) \/ StartRun(p) \/ NameRun(p) \/ CreateRun(p)
    BY <2>2 DEF CheckBlock, StartRun, NameRun, CreateRun
  <2>3. CASE Dispatch(p) \/ ResumeRun(p) \/ Replay(p) \/ Transition(p)
    BY <2>3 DEF Dispatch, ResumeRun, Replay, Transition
  <2>4. CASE BlockEarly(p)
    BY <2>4 DEF BlockEarly
  <2>5. CASE FinishRun(p)
    BY <2>5, OwnershipAssumption DEF FinishRun
  <2>6. CASE ClearIntent(p) \/ Complete(p) \/ PersistFinal(p)
    BY <2>6 DEF ClearIntent, Complete, PersistFinal
  <2>7. CASE Attest(p) \/ ReleaseExecution(p) \/ ReleaseLock(p) \/ Throw(p)
    BY <2>7 DEF Attest, ReleaseExecution, ReleaseLock, Throw
  <2>. QED
    BY <2>1, <2>2, <2>3, <2>4, <2>5, <2>6, <2>7 DEF Coordinate
<1>2. ASSUME NEW c \in Cancellers, CancelStep(c) PROVE ResultKnown'
  BY <1>2, CancellerFrame DEF Aside, OthersStill
<1>3. ASSUME NEW v \in Recoverers, RecoverStep(v) PROVE ResultKnown'
  BY <1>3, RecovererFrame DEF Aside, OthersStill
<1>4. ASSUME NEW o \in Reporters, Probe(o) \/ Unprobe(o) PROVE ResultKnown'
  BY <1>4 DEF Probe, Unprobe, ctlVars
<1>5. ASSUME NEW p \in Procs, Die(p) PROVE ResultKnown'
  BY <1>5 DEF Die, ctlVars
<1>6. CASE LosePower
  BY <1>6 DEF LosePower, ctlVars
<1>. QED
  BY <1>1, <1>2, <1>3, <1>4, <1>5, <1>6 DEF Next

-----------------------------------------------------------------------------
(* The workspace lock. *)

\* Only its holder lets the lock go, and who enters a region holds it.
LockUse(p) ==
    /\ lock' \in {lock, NoProc, p}
    /\ lock' # lock => lock \in {p, NoProc}
    /\ p \in alive' /\ pc'[p] \in OwningSteps => lock' = p

LEMMA LockAfter ==
    ASSUME TypeOK, LockHeldWhileOwning, NEW p \in Procs, OthersStill(p), LockUse(p), TypeOK'
    PROVE  LockHeldWhileOwning'
<1>1. alive' \subseteq Procs
  BY DEF TypeOK
<1>. QED
  BY <1>1, Roles DEF LockHeldWhileOwning, LockUse, OthersStill, TypeOK

\* The steps of the ownership regions, one by one.
LEMMA Regions ==
    OwningSteps = {"locked", "gated", "intending", "naming", "prepared", "replaying",
                   "driving", "clearing", "completing", "persisting", "attesting",
                   "unlocking", "releasing", "recovering", "loading", "terminating",
                   "marking", "re-attesting", "unblocking", "leaving", "probing"}
BY DEF OwningSteps, CoordinatorSteps, RecoverSteps

\* Coordinators, through every region of a command.
LEMMA CoordinatorLock ==
    ASSUME TypeOK, LockHeldWhileOwning, NEW p \in Coordinators, Coordinate(p), TypeOK'
    PROVE  LockHeldWhileOwning'
<1>1. p \in alive /\ pc[p] \in OwningSteps => lock = p
  BY DEF LockHeldWhileOwning
<1>2. pc \in [Procs -> Steps] /\ p \in Procs
  BY Roles DEF TypeOK
<1>3. LockUse(p)
  <2>. USE <1>1, <1>2, Regions DEF At, Goto, LockUse
  <2>1. ASSUME NEW r \in Runs, Acquire(p, r) PROVE LockUse(p)
    BY <2>1 DEF Acquire
  <2>2. CASE CheckBlock(p)
    <3>1. lock = p
      BY <2>2 DEF CheckBlock
    <3>. QED
      BY <2>2, <3>1 DEF CheckBlock
  <2>3. CASE StartRun(p) \/ NameRun(p) \/ CreateRun(p) \/ ResumeRun(p)
    BY <2>3 DEF StartRun, NameRun, CreateRun, ResumeRun, ownVars
  <2>4. CASE BlockEarly(p) \/ Dispatch(p) \/ Replay(p) \/ Transition(p) \/ FinishRun(p)
    BY <2>4 DEF BlockEarly, Dispatch, Replay, Transition, FinishRun, ownVars
  <2>5. CASE ClearIntent(p) \/ Complete(p) \/ PersistFinal(p) \/ Attest(p) \/ ReleaseExecution(p)
    BY <2>5 DEF ClearIntent, Complete, PersistFinal, Attest, ReleaseExecution, ownVars
  <2>6. CASE ReleaseLock(p) \/ Throw(p)
    <3>1. Goto(p, "returned") \/ Goto(p, "failed")
      BY <2>6 DEF ReleaseLock, Throw
    <3>. QED
      BY <2>6, <3>1 DEF ReleaseLock, Throw, Free
  <2>. QED
    BY <2>1, <2>2, <2>3, <2>4, <2>5, <2>6 DEF Coordinate
<1>4. OthersStill(p)
  BY CoordinatorFrame
<1>. QED
  BY <1>2, <1>3, <1>4, LockAfter

\* Cancellers never hold the lock, but they kill who does.
LEMMA CancellerLock ==
    ASSUME TypeOK, LockHeldWhileOwning, NEW c \in Cancellers, CancelStep(c), TypeOK'
    PROVE  LockHeldWhileOwning'
<1>. DEFINE Ok == lock' = lock /\ pc'[c] \notin OwningSteps
<1>1. CASE Kill(c)
  <2>1. /\ alive' = alive \ {target[c]} /\ lock' = Free(lock, target[c])
        /\ Goto(c, "ending")
    BY <1>1 DEF Kill
  <2>. QED
    BY <2>1, Regions, Roles DEF LockHeldWhileOwning, Free, Goto, TypeOK
<1>2. CASE ~Kill(c)
  <2>. USE Roles, Regions DEF Goto
  <2>1. pc \in [Procs -> Steps] /\ c \in Procs
    BY DEF TypeOK
  <2>2. ASSUME NEW r \in Runs, Cancel(c, r) PROVE Ok
    BY <2>1, <2>2 DEF Cancel, ownVars
  <2>3. ASSUME InspectIntent(c) PROVE Ok
    <3>1. PICK step \in {"deciding", "ending", "requesting", "waiting"} : Goto(c, step)
      BY <2>3 DEF InspectIntent
    <3>2. lock' = lock
      BY <2>3 DEF InspectIntent, ownVars
    <3>. QED
      BY <2>1, <3>1, <3>2
  <2>4. ASSUME ObserveEnd(c) \/ GraceExpired(c) \/ DecideEscalation(c) PROVE Ok
    <3>1. PICK step \in {"cancelled", "deciding", "incomplete", "escalating", "killing"} :
             Goto(c, step)
      BY <2>4 DEF ObserveEnd, GraceExpired, DecideEscalation
    <3>2. lock' = lock
      BY <2>4 DEF ObserveEnd, GraceExpired, DecideEscalation, ownVars
    <3>. QED
      BY <2>1, <3>1, <3>2
  <2>5. ASSUME NEW from, NEW before, NEW after \in {"writing request", "writing escalation"},
               ReadCause(c, from, before, after)
        PROVE  Ok
    BY <2>1, <2>5 DEF ReadCause, ownVars
  <2>6. ASSUME NEW to, NEW before, NEW after \in {"waiting", "killing"},
               WriteCause(c, to, before, after)
        PROVE  Ok
    BY <2>1, <2>6 DEF WriteCause
  <2>7. ASSUME EndEvent(c) \/ EndState(c) \/ EndAttestation(c) PROVE Ok
    <3>1. PICK step \in {"ending state", "ending attestation", "cancelled"} : Goto(c, step)
      BY <2>7 DEF EndEvent, EndState, EndAttestation
    <3>2. lock' = lock
      BY <2>7 DEF EndEvent, EndState, EndAttestation, ownVars
    <3>. QED
      BY <2>1, <3>1, <3>2
  <2>8. Ok
    BY <1>2, <2>2, <2>3, <2>4, <2>5, <2>6, <2>7
    DEF CancelStep, ReadRequest, WriteRequest, ReadEscalation, WriteEscalation
  <2>9. OthersStill(c) /\ LockUse(c)
    BY <2>8, CancellerFrame DEF Aside, LockUse
  <2>. QED
    BY <2>1, <2>9, LockAfter
<1>. QED
  BY <1>1, <1>2

\* Recoverers.
LEMMA RecovererLock ==
    ASSUME TypeOK, LockHeldWhileOwning, NEW v \in Recoverers, RecoverStep(v), TypeOK'
    PROVE  LockHeldWhileOwning'
<1>1. v \in alive /\ pc[v] \in OwningSteps => lock = v
  BY DEF LockHeldWhileOwning
<1>2. pc \in [Procs -> Steps] /\ v \in Procs
  BY Roles DEF TypeOK
<1>3. LockUse(v)
  <2>. USE <1>1, <1>2, Regions DEF At, Goto, LockUse
  <2>1. CASE RecoverLock(v)
    BY <2>1 DEF RecoverLock
  <2>2. CASE ReadBlock(v)
    <3>1. lock = v
      BY <2>2 DEF ReadBlock
    <3>2. \/ lock' = lock
          \/ lock' = NoProc /\ Goto(v, "no block")
      BY <2>2 DEF ReadBlock
    <3>. QED
      BY <3>1, <3>2
  <2>3. CASE LoadLog(v) \/ RecoverEvent(v) \/ RecoverState(v)
    BY <2>3 DEF LoadLog, RecoverEvent, RecoverState, ownVars
  <2>4. CASE RecoverAttest(v) \/ RecoverClear(v)
    BY <2>4 DEF RecoverAttest, RecoverClear, ownVars
  <2>5. CASE RecoverDone(v) \/ RecoverFail(v)
    <3>1. Goto(v, "recovered") \/ Goto(v, "incomplete")
      BY <2>5 DEF RecoverDone, RecoverFail
    <3>. QED
      BY <2>5, <3>1 DEF RecoverDone, RecoverFail, Free
  <2>. QED
    BY <2>1, <2>2, <2>3, <2>4, <2>5 DEF RecoverStep
<1>4. OthersStill(v)
  BY RecovererFrame DEF Aside
<1>. QED
  BY <1>2, <1>3, <1>4, LockAfter

\* Reporters and the operating system.
LEMMA OtherLock ==
    ASSUME TypeOK, LockHeldWhileOwning, TypeOK',
           \/ \E o \in Reporters : Probe(o) \/ Unprobe(o)
           \/ \E p \in Procs : Die(p)
           \/ LosePower
    PROVE  LockHeldWhileOwning'
<1>. USE Roles, Regions DEF TypeOK, At, Goto, LockHeldWhileOwning
<1>1. ASSUME NEW o \in Reporters, Probe(o) \/ Unprobe(o) PROVE LockHeldWhileOwning'
  BY <1>1 DEF Probe, Unprobe, Begin, Free
<1>2. ASSUME NEW p \in Procs, Die(p) PROVE LockHeldWhileOwning'
  BY <1>2 DEF Die, Free
<1>3. CASE LosePower
  BY <1>3 DEF LosePower
<1>. QED
  BY <1>1, <1>2, <1>3

-----------------------------------------------------------------------------
(* The safety block. *)

\* A canceller writes back a record it could read.
Readable ==
    \A c \in Cancellers :
        pc[c] \in {"writing request", "writing escalation"} => held[c].kind = "ok"

LEMMA ReadableStep ==
    ASSUME TypeOK, Readable, Next
    PROVE  Readable'
<1>1. ASSUME NEW c \in Cancellers, CancelStep(c) PROVE Readable'
  <2>. DEFINE Ok == pc'[c] \in {"writing request", "writing escalation"} => held'[c].kind = "ok"
  <2>. USE Roles DEF TypeOK, Goto
  <2>1. ASSUME NEW r \in Runs, Cancel(c, r) PROVE Ok
    BY <2>1 DEF Cancel
  <2>2. ASSUME InspectIntent(c) PROVE Ok
    BY <2>2 DEF InspectIntent
  <2>3. ASSUME NEW from, NEW before, NEW after, ReadCause(c, from, before, after) PROVE Ok
    BY <2>3 DEF ReadCause
  <2>4. ASSUME NEW to, NEW before, NEW after \in {"waiting", "killing"},
               WriteCause(c, to, before, after)
        PROVE  Ok
    BY <2>4 DEF WriteCause
  <2>5. ASSUME ObserveEnd(c) \/ GraceExpired(c) \/ DecideEscalation(c) \/ Kill(c) PROVE Ok
    BY <2>5 DEF ObserveEnd, GraceExpired, DecideEscalation, Kill
  <2>6. ASSUME EndEvent(c) \/ EndState(c) \/ EndAttestation(c) PROVE Ok
    BY <2>6 DEF EndEvent, EndState, EndAttestation
  <2>7. Ok
    BY <1>1, <2>1, <2>2, <2>3, <2>4, <2>5, <2>6
    DEF CancelStep, ReadRequest, WriteRequest, ReadEscalation, WriteEscalation
  <2>. QED
    BY <1>1, <2>7, CancellerFrame DEF Readable, Aside, OthersStill
<1>2. ASSUME NEW p \in Procs \ Cancellers, OthersStill(p) PROVE Readable'
  BY <1>2, Roles DEF Readable, OthersStill
<1>3. ASSUME NEW p \in Coordinators, Coordinate(p) PROVE Readable'
  BY <1>2, <1>3, CoordinatorFrame, Roles
<1>4. ASSUME NEW v \in Recoverers, RecoverStep(v) PROVE Readable'
  BY <1>2, <1>4, RecovererFrame, OwnershipAssumption DEF Aside, Procs
<1>5. CASE pc' = pc /\ held' = held
  BY <1>5 DEF Readable
<1>6. ASSUME NEW o \in Reporters, Probe(o) \/ Unprobe(o) PROVE Readable'
  <2>1. OthersStill(o)
    BY <1>6 DEF Probe, Unprobe, Begin, Goto, TypeOK, OthersStill, ctlVars, cancelVars
  <2>. QED
    BY <1>2, <2>1, OwnershipAssumption DEF Procs
<1>. QED
  BY <1>1, <1>3, <1>4, <1>5, <1>6 DEF Next, Die, LosePower

\* Who covers its work leaves it covered; who lifts the block owns the lock.
BlockUse(p) ==
    \/ /\ intent' = intent
       /\ p \in alive' /\ pc'[p] \in CoveredSteps => p \in alive /\ pc[p] \in CoveredSteps
    \/ intent'.kind = "ok"
    \/ lock = p /\ pc'[p] \notin CoveredSteps

LEMMA BlockAfter ==
    ASSUME TypeOK, LockHeldWhileOwning, BlockCoversWork, NEW p \in Procs, OthersStill(p),
           BlockUse(p)
    PROVE  BlockCoversWork'
<1>. SUFFICES ASSUME NEW q \in Coordinators, q \in alive', pc'[q] \in CoveredSteps
              PROVE  intent'.kind = "ok"
  BY DEF BlockCoversWork
<1>1. q # p => q \in alive /\ pc[q] \in CoveredSteps
  BY Roles DEF OthersStill
<1>2. q # p => lock = q /\ intent.kind = "ok"
  BY <1>1 DEF LockHeldWhileOwning, OwningSteps, CoordinatorSteps, CoveredSteps, BlockCoversWork
<1>. QED
  BY <1>1, <1>2 DEF BlockUse, BlockCoversWork

\* Every step but those of the operating system uses the block that way.
LEMMA BlockStep ==
    ASSUME TypeOK, LockHeldWhileOwning, BlockCoversWork, Readable, Next
    PROVE  BlockCoversWork'
<1>1. ASSUME NEW p \in Coordinators, Coordinate(p) PROVE BlockCoversWork'
  <2>1. p \in alive /\ pc[p] \in OwningSteps => lock = p
    BY <1>1, Roles DEF LockHeldWhileOwning
  <2>2. pc \in [Procs -> Steps] /\ p \in Procs
    BY Roles DEF TypeOK
  <2>3. BlockUse(p)
    <3>. USE <2>1, <2>2, Regions DEF BlockUse, CoveredSteps, At, Goto
    <3>1. ASSUME NEW r \in Runs, Acquire(p, r) PROVE BlockUse(p)
      BY <3>1 DEF Acquire
    <3>2. CASE CheckBlock(p)
      <4>1. lock = p
        BY <3>2 DEF CheckBlock
      <4>2. PICK step \in {"unsafe", "gated"} : Goto(p, step)
        BY <3>2 DEF CheckBlock
      <4>. QED
        BY <4>1, <4>2
    <3>3. CASE StartRun(p) \/ ResumeRun(p)
      BY <3>3 DEF StartRun, ResumeRun, Record
    <3>4. CASE NameRun(p)
      BY <3>4 DEF NameRun
    <3>5. CASE CreateRun(p) \/ Dispatch(p) \/ Replay(p)
      BY <3>5 DEF CreateRun, Dispatch, Replay, ownVars
    <3>6. CASE BlockEarly(p) \/ FinishRun(p)
      BY <3>6 DEF BlockEarly, FinishRun, ownVars
    <3>7. CASE Transition(p)
      BY <3>7 DEF Transition, ownVars
    <3>8. CASE ClearIntent(p)
      BY <3>8 DEF ClearIntent
    <3>9. CASE Complete(p) \/ PersistFinal(p) \/ ReleaseExecution(p) \/ ReleaseLock(p)
      BY <3>9 DEF Complete, PersistFinal, ReleaseExecution, ReleaseLock
    <3>10. CASE Attest(p)
      <4>1. PICK step \in {"unlocking", "releasing"} : Goto(p, step)
        BY <3>10 DEF Attest
      <4>. QED
        BY <3>10, <4>1 DEF Attest
    <3>11. CASE Throw(p)
      BY <3>11 DEF Throw
    <3>. QED
      BY <1>1, <3>1, <3>2, <3>3, <3>4, <3>5, <3>6, <3>7, <3>8, <3>9, <3>10, <3>11
      DEF Coordinate
  <2>. QED
    BY <1>1, <2>2, <2>3, BlockAfter, CoordinatorFrame
<1>2. ASSUME NEW c \in Cancellers, CancelStep(c) PROVE BlockCoversWork'
  <2>1. intent' = intent \/ intent'.kind = "ok"
    <3>1. ASSUME NEW to, NEW before \in {"writing request", "writing escalation"}, NEW after,
                 WriteCause(c, to, before, after)
          PROVE  intent'.kind = "ok"
      <4>1. held[c] \in Intents /\ held[c].kind = "ok"
        BY <3>1, Roles DEF TypeOK, Readable, WriteCause, At
      <4>. QED
        BY <3>1, <4>1 DEF WriteCause, Intents
    <3>. QED
      BY <1>2, <3>1 DEF CancelStep, Cancel, InspectIntent, ReadRequest, WriteRequest,
         ReadEscalation, WriteEscalation, ReadCause, ObserveEnd, GraceExpired,
         DecideEscalation, Kill, EndEvent, EndState, EndAttestation, ownVars
  <2>2. ASSUME NEW q \in Coordinators, q \in alive', pc'[q] \in CoveredSteps
        PROVE  q \in alive /\ pc[q] \in CoveredSteps
    BY <1>2, <2>2, CancellerFrame, Roles DEF Aside, OthersStill
  <2>. QED
    BY <2>1, <2>2 DEF BlockCoversWork
<1>3. ASSUME NEW v \in Recoverers, RecoverStep(v) PROVE BlockCoversWork'
  <2>1. ASSUME NEW q \in Coordinators, q \in alive', pc'[q] \in CoveredSteps
        PROVE  q \in alive /\ pc[q] \in CoveredSteps /\ q # v
    BY <1>3, <2>1, RecovererFrame, Roles DEF Aside, OthersStill
  <2>2. CASE RecoverClear(v)
    <3>1. lock = v
      BY <2>2, Regions, Roles DEF RecoverClear, At, LockHeldWhileOwning
    <3>. QED
      BY <2>1, <3>1 DEF BlockCoversWork, LockHeldWhileOwning, OwningSteps, CoordinatorSteps,
         CoveredSteps
  <2>3. CASE ~RecoverClear(v)
    <3>1. intent' = intent
      BY <1>3, <2>3 DEF RecoverStep, RecoverLock, ReadBlock, LoadLog, RecoverEvent,
         RecoverState, RecoverAttest, RecoverDone, RecoverFail, ownVars
    <3>. QED
      BY <2>1, <3>1 DEF BlockCoversWork
  <2>. QED
    BY <2>2, <2>3
<1>4. ASSUME NEW o \in Reporters, Probe(o) \/ Unprobe(o) PROVE BlockCoversWork'
  <2>1. intent' = intent /\ o \in Procs /\ o \notin Coordinators
    BY <1>4, Roles DEF Probe, Unprobe
  <2>2. alive' \subseteq alive \cup {o} /\ \E step : pc' = [pc EXCEPT ![o] = step]
    BY <1>4 DEF Probe, Unprobe, Begin, Goto
  <2>3. \A q \in Coordinators : pc'[q] = pc[q] /\ (q \in alive' => q \in alive)
    BY <2>1, <2>2, Roles DEF TypeOK
  <2>. QED
    BY <2>1, <2>3 DEF BlockCoversWork
<1>5. ASSUME NEW p \in Procs, Die(p) PROVE BlockCoversWork'
  BY <1>5 DEF Die, BlockCoversWork
<1>6. CASE LosePower
  BY <1>6 DEF LosePower, BlockCoversWork
<1>. QED
  BY <1>1, <1>2, <1>3, <1>4, <1>5, <1>6 DEF Next

-----------------------------------------------------------------------------
(* The order of the last writes. *)

AfterEventSteps == {"persisting", "attesting", "ending state", "ending attestation",
                    "marking", "re-attesting"}

\* Whoever is past the event has it in the log of its run.
EventWritten == \A p \in Procs : pc[p] \in AfterEventSteps => log[job[p]] # <<>>

\* Logs only grow; an end is stored only where the log shows one.
EventUse(p) ==
    /\ \A r \in RunIds : log[r] # <<>> => log'[r] # <<>>
    /\ pc'[p] \in AfterEventSteps => log'[job'[p]] # <<>>
    /\ \A r \in Runs : state'[r] \in Terminal => state[r] \in Terminal \/ log'[r] # <<>>
    /\ \A r \in RunIds : attest'[r] # "none" => attest[r] # "none" \/ log'[r] # <<>>

LEMMA EventAfter ==
    ASSUME TypeOK, EventFirst, EventWritten, NEW p \in Procs, OthersStill(p), EventUse(p)
    PROVE  EventFirst' /\ EventWritten'
BY Roles DEF TypeOK, EventFirst, EventWritten, EventUse, OthersStill


\* A log that got one more event is not empty.
LEMMA Appended ==
    ASSUME TypeOK, NEW r \in RunIds, NEW s \in Terminal \cup {"recovered"},
           log' = [log EXCEPT ![r] = Append(@, s)]
    PROVE  log'[r] # <<>> /\ \A q \in RunIds : log[q] # <<>> => log'[q] # <<>>
<1>1. log[r] \in Seq(Terminal \cup {"recovered"})
  BY DEF TypeOK
<1>2. Append(log[r], s) # <<>>
  BY <1>1
<1>. QED
  BY <1>2 DEF TypeOK

LEMMA EventStep ==
    ASSUME TypeOK, ResultKnown, EventFirst, EventWritten, Next
    PROVE  EventFirst' /\ EventWritten'
<1>1. ASSUME NEW p \in Coordinators, Coordinate(p) PROVE EventFirst' /\ EventWritten'
  <2>1. /\ OthersStill(p) /\ p \in Procs /\ pc \in [Procs -> Steps] /\ job[p] \in RunIds
        /\ pc[p] \in AfterEventSteps => log[job[p]] # <<>>
    BY <1>1, CoordinatorFrame, Roles DEF TypeOK, EventWritten
  <2>2. CASE Complete(p)
    <3>1. /\ result[p] \in Terminal /\ job' = job
          /\ Goto(p, "persisting") /\ UNCHANGED <<state, attest>>
      BY <2>2 DEF Complete, At, ResultKnown, FinishingSteps, TypeOK, Terminal, ctlVars
    <3>2. log'[job[p]] # <<>> /\ \A q \in RunIds : log[q] # <<>> => log'[q] # <<>>
      BY <2>1, <2>2, <3>1, Appended DEF Complete
    <3>. QED
      BY <2>1, <3>1, <3>2, EventAfter DEF EventUse
  <2>3. CASE PersistFinal(p)
    <3>1. log[job[p]] # <<>> /\ log' = log /\ attest' = attest /\ job' = job
      BY <2>1, <2>3 DEF PersistFinal, At, AfterEventSteps, ctlVars
    <3>2. state' = [state EXCEPT ![job[p]] = result[p]]
      BY <2>3 DEF PersistFinal
    <3>. QED
      BY <2>1, <3>1, <3>2, EventAfter DEF EventUse, TypeOK
  <2>4. CASE Attest(p)
    <3>1. log[job[p]] # <<>> /\ log' = log /\ state' = state /\ job' = job
      BY <2>1, <2>4 DEF Attest, At, AfterEventSteps, ctlVars
    <3>2. attest' = [attest EXCEPT ![job[p]] = result[p]]
      BY <2>4 DEF Attest
    <3>. QED
      BY <2>1, <3>1, <3>2, EventAfter DEF EventUse, TypeOK
  <2>5. CASE Transition(p)
    <3>1. /\ state' = [state EXCEPT ![job[p]] = "running"] /\ "running" \notin Terminal
          /\ UNCHANGED <<pc, log, attest, job>>
      BY <2>5, OwnershipAssumption DEF Transition, Terminal, ctlVars
    <3>. QED
      BY <2>1, <3>1, EventAfter DEF EventUse, TypeOK
  <2>6. CASE CreateRun(p)
    <3>1. /\ state' = [state EXCEPT ![p] = "created"] /\ "created" \notin Terminal
          /\ UNCHANGED <<log, attest, job>> /\ Goto(p, "prepared")
      BY <2>6, OwnershipAssumption DEF CreateRun, Terminal, ctlVars
    <3>. QED
      BY <2>1, <3>1, EventAfter DEF EventUse, TypeOK, Goto, AfterEventSteps
  <2>7. CASE ~(Complete(p) \/ PersistFinal(p) \/ Attest(p) \/ Transition(p) \/ CreateRun(p))
    <3>1. /\ UNCHANGED <<state, log, attest>>
          /\ pc'[p] \notin AfterEventSteps
      <4>. USE <2>1 DEF Goto, AfterEventSteps, ownVars, runVars
      <4>1. ASSUME NEW r \in Runs, Acquire(p, r)
            PROVE  UNCHANGED <<state, log, attest>> /\ pc'[p] \notin AfterEventSteps
        BY <4>1 DEF Acquire
      <4>2. ASSUME CheckBlock(p) \/ StartRun(p) \/ NameRun(p) \/ BlockEarly(p)
            PROVE  UNCHANGED <<state, log, attest>> /\ pc'[p] \notin AfterEventSteps
        BY <4>2 DEF CheckBlock, StartRun, NameRun, BlockEarly
      <4>3. ASSUME Dispatch(p) \/ ResumeRun(p) \/ Replay(p) \/ FinishRun(p)
            PROVE  UNCHANGED <<state, log, attest>> /\ pc'[p] \notin AfterEventSteps
        BY <4>3 DEF Dispatch, ResumeRun, Replay, FinishRun
      <4>4. ASSUME ClearIntent(p) \/ ReleaseExecution(p) \/ ReleaseLock(p) \/ Throw(p)
            PROVE  UNCHANGED <<state, log, attest>> /\ pc'[p] \notin AfterEventSteps
        BY <4>4 DEF ClearIntent, ReleaseExecution, ReleaseLock, Throw
      <4>. QED
        BY <1>1, <2>7, <4>1, <4>2, <4>3, <4>4 DEF Coordinate
    <3>. QED
      BY <2>1, <3>1, EventAfter DEF EventUse
  <2>. QED
    BY <2>2, <2>3, <2>4, <2>5, <2>6, <2>7
<1>2. ASSUME NEW c \in Cancellers, CancelStep(c) PROVE EventFirst' /\ EventWritten'
  <2>1. /\ OthersStill(c) /\ c \in Procs /\ pc \in [Procs -> Steps] /\ job[c] \in RunIds
        /\ pc[c] \in AfterEventSteps => log[job[c]] # <<>>
    BY <1>2, CancellerFrame, Roles DEF TypeOK, EventWritten, Aside
  <2>2. CASE EndEvent(c)
    <3>1. job' = job /\ Goto(c, "ending state") /\ UNCHANGED <<state, attest>>
      BY <2>2 DEF EndEvent, ctlVars
    <3>2. log'[job[c]] # <<>> /\ \A q \in RunIds : log[q] # <<>> => log'[q] # <<>>
      BY <2>1, <2>2, Appended DEF EndEvent, Terminal
    <3>. QED
      BY <2>1, <3>1, <3>2, EventAfter DEF EventUse
  <2>3. CASE EndState(c)
    <3>1. log[job[c]] # <<>> /\ log' = log /\ attest' = attest /\ job' = job
      BY <2>1, <2>3 DEF EndState, At, AfterEventSteps, ctlVars
    <3>2. state' = [state EXCEPT ![job[c]] = "cancelled"]
      BY <2>3 DEF EndState
    <3>. QED
      BY <2>1, <3>1, <3>2, EventAfter DEF EventUse, TypeOK
  <2>4. CASE EndAttestation(c)
    <3>1. log[job[c]] # <<>> /\ log' = log /\ state' = state /\ job' = job
      BY <2>1, <2>4 DEF EndAttestation, At, AfterEventSteps, ctlVars
    <3>2. attest' = [attest EXCEPT ![job[c]] = "cancelled"]
      BY <2>4 DEF EndAttestation
    <3>. QED
      BY <2>1, <3>1, <3>2, EventAfter DEF EventUse, TypeOK
  <2>5. CASE ~(EndEvent(c) \/ EndState(c) \/ EndAttestation(c))
    <3>. DEFINE Ok == UNCHANGED <<state, log, attest>> /\ pc'[c] \notin AfterEventSteps
    <3>1. Ok
      <4>. USE <2>1 DEF Goto, AfterEventSteps, ownVars, runVars
      <4>1. ASSUME NEW r \in Runs, Cancel(c, r) PROVE Ok
        BY <4>1 DEF Cancel
      <4>2. ASSUME InspectIntent(c) PROVE Ok
        BY <4>2 DEF InspectIntent
      <4>3. ASSUME NEW from, NEW before, NEW after \in {"writing request", "writing escalation"},
                   ReadCause(c, from, before, after)
            PROVE  Ok
        BY <4>3 DEF ReadCause
      <4>4. ASSUME NEW to, NEW before, NEW after \in {"waiting", "killing"},
                   WriteCause(c, to, before, after)
            PROVE  Ok
        BY <4>4 DEF WriteCause
      <4>5. ASSUME ObserveEnd(c) \/ GraceExpired(c) \/ DecideEscalation(c) \/ Kill(c) PROVE Ok
        BY <4>5 DEF ObserveEnd, GraceExpired, DecideEscalation, Kill
      <4>. QED
        BY <1>2, <2>5, <4>1, <4>2, <4>3, <4>4, <4>5
        DEF CancelStep, ReadRequest, WriteRequest, ReadEscalation, WriteEscalation
    <3>. QED
      BY <2>1, <3>1, EventAfter DEF EventUse
  <2>. QED
    BY <2>2, <2>3, <2>4, <2>5
<1>3. ASSUME NEW v \in Recoverers, RecoverStep(v) PROVE EventFirst' /\ EventWritten'
  <2>1. /\ OthersStill(v) /\ v \in Procs /\ pc \in [Procs -> Steps] /\ job[v] \in RunIds
        /\ pc[v] \in AfterEventSteps => log[job[v]] # <<>>
    BY <1>3, RecovererFrame, Roles DEF TypeOK, EventWritten, Aside
  <2>2. CASE LoadLog(v)
    <3>1. UNCHANGED <<state, log, attest, job>>
      BY <2>2 DEF LoadLog, runVars, ctlVars
    <3>2. pc'[v] \in AfterEventSteps => log[job[v]] # <<>>
      BY <2>1, <2>2 DEF LoadLog, Goto, AfterEventSteps
    <3>. QED
      BY <2>1, <3>1, <3>2, EventAfter DEF EventUse
  <2>3. CASE RecoverEvent(v)
    <3>1. job' = job /\ UNCHANGED <<state, attest>>
      BY <2>3 DEF RecoverEvent, ctlVars
    <3>2. RecoveryOutcome(held[v].cause) \in Terminal \cup {"recovered"}
      BY DEF RecoveryOutcome, Terminal
    <3>3. log'[job[v]] # <<>> /\ \A q \in RunIds : log[q] # <<>> => log'[q] # <<>>
      BY <2>1, <2>3, <3>2, Appended DEF RecoverEvent
    <3>. QED
      BY <2>1, <3>1, <3>3, EventAfter DEF EventUse
  <2>4. CASE RecoverState(v)
    <3>1. log[job[v]] # <<>> /\ log' = log /\ attest' = attest /\ job' = job
      BY <2>1, <2>4 DEF RecoverState, At, AfterEventSteps, ctlVars
    <3>2. \A r \in Runs : r # job[v] => state'[r] = state[r]
      BY <2>4 DEF RecoverState
    <3>. QED
      BY <2>1, <3>1, <3>2, EventAfter DEF EventUse, TypeOK
  <2>5. CASE RecoverAttest(v)
    <3>1. log[job[v]] # <<>> /\ log' = log /\ state' = state /\ job' = job
      BY <2>1, <2>5 DEF RecoverAttest, At, AfterEventSteps, ctlVars
    <3>2. \A r \in RunIds : r # job[v] => attest'[r] = attest[r]
      BY <2>5 DEF RecoverAttest, TypeOK
    <3>. QED
      BY <2>1, <3>1, <3>2, EventAfter DEF EventUse, TypeOK
  <2>6. CASE ~(LoadLog(v) \/ RecoverEvent(v) \/ RecoverState(v) \/ RecoverAttest(v))
    <3>. DEFINE Ok == UNCHANGED <<state, log, attest>> /\ pc'[v] \notin AfterEventSteps
    <3>1. Ok
      <4>. USE <2>1 DEF Goto, AfterEventSteps, ownVars, runVars
      <4>1. ASSUME RecoverLock(v) \/ ReadBlock(v) PROVE Ok
        BY <4>1 DEF RecoverLock, ReadBlock
      <4>2. ASSUME RecoverClear(v) \/ RecoverDone(v) \/ RecoverFail(v) PROVE Ok
        BY <4>2 DEF RecoverClear, RecoverDone, RecoverFail
      <4>. QED
        BY <1>3, <2>6, <4>1, <4>2 DEF RecoverStep
    <3>. QED
      BY <2>1, <3>1, EventAfter DEF EventUse
  <2>. QED
    BY <2>2, <2>3, <2>4, <2>5, <2>6
<1>4. ASSUME NEW o \in Reporters, Probe(o) \/ Unprobe(o) PROVE EventFirst' /\ EventWritten'
  <2>1. /\ \A q \in Procs : q # o => pc'[q] = pc[q]
        /\ UNCHANGED <<state, log, attest, job>> /\ pc'[o] \notin AfterEventSteps
    <3>. USE <1>4
    <3>1. o \in Procs /\ pc \in [Procs -> Steps]
      BY Roles DEF TypeOK
    <3>2. UNCHANGED <<state, log, attest, job>>
      BY DEF Probe, Unprobe, runVars, ctlVars
    <3>3. \E s \in {"probing", "reported"} : pc' = [pc EXCEPT ![o] = s]
      BY DEF Probe, Unprobe, Goto
    <3>. QED
      BY <3>1, <3>2, <3>3 DEF AfterEventSteps
  <2>. QED
    BY <2>1 DEF EventFirst, EventWritten
<1>5. ASSUME UNCHANGED <<pc, state, log, attest, job>> PROVE EventFirst' /\ EventWritten'
  BY <1>5 DEF EventFirst, EventWritten
<1>. QED
  BY <1>1, <1>2, <1>3, <1>4, <1>5 DEF Next, Die, LosePower, runVars, ctlVars

-----------------------------------------------------------------------------
(* The theorems. *)

\* The inductive invariant: three of its parts are properties, the others
\* say what a process between two writes relies on.
Inv ==
    /\ TypeOK
    /\ ResultKnown
    /\ LockHeldWhileOwning
    /\ Readable
    /\ BlockCoversWork
    /\ EventFirst
    /\ EventWritten

LEMMA InitInv == Init => Inv
<1>. SUFFICES ASSUME Init PROVE Inv
  OBVIOUS
<1>1. \A p \in Procs : pc[p] = "idle"
  BY DEF Init
<1>2. ResultKnown /\ Readable /\ EventWritten
  BY <1>1, Roles DEF ResultKnown, FinishingSteps, Readable, EventWritten, AfterEventSteps
<1>3. LockHeldWhileOwning /\ BlockCoversWork
  BY DEF Init, LockHeldWhileOwning, BlockCoversWork
<1>4. EventFirst
  BY OwnershipAssumption DEF Init, EventFirst, Terminal
<1>5. TypeOK
  <2>1. pc \in [Procs -> Steps]
    BY DEF Init, Steps, Ends
  <2>2. log \in [RunIds -> Seq(Terminal \cup {"recovered"})]
    BY DEF Init
  <2>3. held \in [Procs -> Intents] /\ intent \in Intents
    BY RecordTypes DEF Init
  <2>. QED
    BY <2>1, <2>2, <2>3 DEF Init, TypeOK, RunIds
<1>. QED
  BY <1>2, <1>3, <1>4, <1>5 DEF Inv

LEMMA TypeStep ==
    ASSUME TypeOK, ResultKnown, Next
    PROVE  TypeOK'
BY CoordinatorTypes, CancellerTypes, RecovererTypes, OtherTypes DEF Next

LEMMA LockStep ==
    ASSUME TypeOK, LockHeldWhileOwning, Next, TypeOK'
    PROVE  LockHeldWhileOwning'
BY CoordinatorLock, CancellerLock, RecovererLock, OtherLock DEF Next

LEMMA InvStep == Inv /\ [Next]_vars => Inv'
<1>. SUFFICES ASSUME Inv, [Next]_vars PROVE Inv'
  OBVIOUS
<1>1. CASE Next
  BY <1>1, TypeStep, ResultStep, LockStep, ReadableStep, BlockStep, EventStep DEF Inv
<1>2. CASE UNCHANGED vars
  BY <1>2 DEF vars, Inv, TypeOK, ResultKnown, LockHeldWhileOwning, Readable, BlockCoversWork,
     EventFirst, EventWritten
<1>. QED
  BY <1>1, <1>2

LEMMA Invariance == Spec => []Inv
BY InitInv, InvStep, PTL DEF Spec

\* Every reachable state is typed: in particular finalize never appends,
\* stores or attests the absence of a status.
THEOREM TypeCorrect == Spec => []TypeOK
<1>1. Inv => TypeOK
  BY DEF Inv
<1>. QED
  BY <1>1, Invariance, PTL

\* A live process inside an ownership region holds the workspace lock,
\* whatever is killed or loses power meanwhile.
THEOREM LockSafety == Spec => []LockHeldWhileOwning
<1>1. Inv => LockHeldWhileOwning
  BY DEF Inv
<1>. QED
  BY <1>1, Invariance, PTL

\* A coordinator that may have workers is covered by a readable block.
THEOREM BlockSafety == Spec => []BlockCoversWork
<1>1. Inv => BlockCoversWork
  BY DEF Inv
<1>. QED
  BY <1>1, Invariance, PTL

\* No state.json and no attestation show an end that the log does not.
THEOREM EventOrder == Spec => []EventFirst
<1>1. Inv => EventFirst
  BY DEF Inv
<1>. QED
  BY <1>1, Invariance, PTL

-----------------------------------------------------------------------------
(* The protocol implements the lease.  A power loss may tear the record,   *)
(* which lifts the block of nobody's workspace: the theorem excludes it.   *)

LeaseVars == <<lock, intent.kind = "ok">>

\* A step of the system is a step of the lease, or changes neither the
\* owner nor the mark.
LEMMA LeaseStep ==
    ASSUME ~PowerLoss, Inv, Next
    PROVE  [Lease!Next]_LeaseVars
<1>. DEFINE Blocked == intent.kind = "ok"
<1>1. ASSUME NEW p \in Procs, lock = NoProc, lock' = p, UNCHANGED intent PROVE Lease!Next
  BY <1>1 DEF Lease!Next, Lease!Take
<1>2. ASSUME lock # NoProc, lock' = NoProc, UNCHANGED intent PROVE Lease!Next
  BY <1>2 DEF Lease!Next, Lease!Leave
<1>3. ASSUME UNCHANGED lock, intent'.kind = "ok" PROVE Lease!Next
  BY <1>3 DEF Lease!Next, Lease!Block
<1>4. ASSUME lock # NoProc, UNCHANGED lock, intent' = Absent PROVE Lease!Next
  BY <1>4 DEF Lease!Next, Lease!Unblock, Absent
<1>5. ASSUME UNCHANGED ownVars PROVE UNCHANGED LeaseVars
  BY <1>5 DEF ownVars, LeaseVars
<1>6. ASSUME NEW p \in Procs, lock' = Free(lock, p), UNCHANGED intent
      PROVE  [Lease!Next]_LeaseVars
  BY <1>2, <1>6, Roles DEF Free, LeaseVars
<1>7. ASSUME NEW p \in Procs, p \in alive, pc[p] \in OwningSteps PROVE lock = p /\ lock # NoProc
  BY <1>7, Roles DEF Inv, LockHeldWhileOwning
<1>8. ASSUME NEW p \in Coordinators, Coordinate(p) PROVE [Lease!Next]_LeaseVars
  <2>1. p \in Procs
    BY Roles
  <2>2. ASSUME NEW r \in Runs, Acquire(p, r) PROVE [Lease!Next]_LeaseVars
    <3>1. UNCHANGED intent /\ (lock' = lock \/ (lock = NoProc /\ lock' = p))
      BY <2>2 DEF Acquire
    <3>. QED
      BY <1>1, <1>5, <2>1, <3>1 DEF ownVars
  <2>3. CASE CheckBlock(p)
    <3>1. UNCHANGED intent /\ (lock' = lock \/ lock' = NoProc) /\ lock # NoProc
      BY <1>7, <2>1, <2>3, Regions DEF CheckBlock, At
    <3>. QED
      BY <1>2, <1>5, <3>1 DEF ownVars
  <2>4. CASE StartRun(p) \/ ResumeRun(p)
    BY <1>3, <2>4 DEF StartRun, ResumeRun, Record
  <2>5. CASE NameRun(p)
    <3>1. UNCHANGED lock /\ (intent' = intent \/ intent'.kind = "ok")
      BY <2>5 DEF NameRun, Inv, TypeOK, Intents
    <3>. QED
      BY <1>3, <1>5, <3>1 DEF ownVars
  <2>6. CASE CreateRun(p) \/ BlockEarly(p) \/ Dispatch(p) \/ Replay(p) \/ Transition(p)
    BY <1>5, <2>6 DEF CreateRun, BlockEarly, Dispatch, Replay, Transition
  <2>7. CASE FinishRun(p) \/ Complete(p) \/ PersistFinal(p) \/ Attest(p) \/ ReleaseExecution(p)
    BY <1>5, <2>7 DEF FinishRun, Complete, PersistFinal, Attest, ReleaseExecution
  <2>8. CASE ClearIntent(p)
    BY <1>4, <1>7, <2>1, <2>8, Regions DEF ClearIntent, At
  <2>9. CASE ReleaseLock(p) \/ Throw(p)
    BY <1>6, <2>1, <2>9 DEF ReleaseLock, Throw
  <2>. QED
    BY <1>8, <2>2, <2>3, <2>4, <2>5, <2>6, <2>7, <2>8, <2>9 DEF Coordinate
<1>9. ASSUME NEW c \in Cancellers, CancelStep(c) PROVE [Lease!Next]_LeaseVars
  <2>1. CASE Kill(c)
    <3>1. CASE target[c] \in Procs
      BY <1>6, <2>1, <3>1 DEF Kill
    <3>2. CASE target[c] = NoProc
      BY <1>5, <2>1, <3>2 DEF Kill, Free, ownVars
    <3>. QED
      BY <3>1, <3>2, Roles DEF Inv, TypeOK
  <2>2. ASSUME NEW to, NEW before \in {"writing request", "writing escalation"}, NEW after,
               WriteCause(c, to, before, after)
        PROVE  [Lease!Next]_LeaseVars
    <3>1. held[c] \in Intents /\ held[c].kind = "ok"
      BY <2>2, Roles DEF Inv, TypeOK, Readable, WriteCause, At
    <3>. QED
      BY <1>3, <2>2, <3>1 DEF WriteCause, Intents
  <2>. QED
    BY <1>5, <1>9, <2>1, <2>2 DEF CancelStep, Cancel, InspectIntent, ReadRequest, WriteRequest,
       ReadEscalation, WriteEscalation, ReadCause, ObserveEnd, GraceExpired, DecideEscalation,
       EndEvent, EndState, EndAttestation
<1>10. ASSUME NEW v \in Recoverers, RecoverStep(v) PROVE [Lease!Next]_LeaseVars
  <2>1. v \in Procs
    BY Roles
  <2>2. CASE RecoverLock(v)
    <3>1. UNCHANGED intent /\ (lock' = lock \/ (lock = NoProc /\ lock' = v))
      BY <2>2 DEF RecoverLock
    <3>. QED
      BY <1>1, <1>5, <2>1, <3>1 DEF ownVars
  <2>3. CASE ReadBlock(v)
    <3>1. UNCHANGED intent /\ (lock' = lock \/ lock' = NoProc) /\ lock # NoProc
      BY <1>7, <2>1, <2>3, Regions DEF ReadBlock, At
    <3>. QED
      BY <1>2, <1>5, <3>1 DEF ownVars
  <2>4. CASE LoadLog(v) \/ RecoverEvent(v) \/ RecoverState(v) \/ RecoverAttest(v)
    BY <1>5, <2>4 DEF LoadLog, RecoverEvent, RecoverState, RecoverAttest
  <2>5. CASE RecoverClear(v)
    BY <1>4, <1>7, <2>1, <2>5, Regions DEF RecoverClear, At
  <2>6. CASE RecoverDone(v) \/ RecoverFail(v)
    BY <1>6, <2>1, <2>6 DEF RecoverDone, RecoverFail
  <2>. QED
    BY <1>10, <2>2, <2>3, <2>4, <2>5, <2>6 DEF RecoverStep
<1>11. ASSUME NEW o \in Reporters, Probe(o) \/ Unprobe(o) PROVE [Lease!Next]_LeaseVars
  <2>1. o \in Procs
    BY Roles
  <2>2. CASE Probe(o)
    <3>1. UNCHANGED intent /\ (lock' = lock \/ (lock = NoProc /\ lock' = o))
      BY <2>2 DEF Probe
    <3>. QED
      BY <1>1, <1>5, <2>1, <3>1 DEF ownVars
  <2>3. CASE Unprobe(o)
    BY <1>6, <2>1, <2>3 DEF Unprobe
  <2>. QED
    BY <1>11, <2>2, <2>3
<1>12. ASSUME NEW p \in Procs, Die(p) PROVE [Lease!Next]_LeaseVars
  BY <1>6, <1>12 DEF Die
<1>13. ~LosePower
  BY DEF LosePower
<1>. QED
  BY <1>8, <1>9, <1>10, <1>11, <1>12, <1>13 DEF Next

\* Without a power loss, the commands implement WorkspaceLease: one owner at
\* a time, and a block that only an owner lifts.
THEOREM Implementation == ASSUME ~PowerLoss PROVE Spec => LeaseSpec
<1>1. Init => Lease!Init
  BY DEF Init, Lease!Init, Absent
<1>2. Inv /\ [Next]_vars => [Lease!Next]_LeaseVars
  <2>. SUFFICES ASSUME Inv, [Next]_vars PROVE [Lease!Next]_LeaseVars
    OBVIOUS
  <2>1. CASE UNCHANGED vars
    BY <2>1 DEF vars, LeaseVars
  <2>. QED
    BY <2>1, LeaseStep
<1>. QED
  BY <1>1, <1>2, Invariance, PTL DEF Spec, LeaseSpec, Lease!Spec, LeaseVars

-----------------------------------------------------------------------------
(* The interruption cause only advances.  A canceller writes back what it  *)
(* read a while ago; what makes that safe is that the arbitration lock     *)
(* excludes other cancellers, and that a process names its record, and its *)
(* run, once in its life.                                                  *)

\* Where a canceller is about to write back the record it read.
WritingSteps == {"writing request", "writing escalation"}

\* The writer holds the arbitration lock and read the cause it advances.
Arbitrated ==
    \A c \in Cancellers :
        /\ c \in alive /\ pc[c] \in WritingSteps => arb = c
        /\ pc[c] = "writing request" => held[c].cause = "NONE"
        /\ pc[c] = "writing escalation" => held[c].cause = "CANCEL_REQUESTED"

\* No record names a coordinator, or its run, before it wrote one itself.
Fresh ==
    \A p \in Coordinators :
        /\ pc[p] \in {"idle", "locked", "gated"} =>
              intent.pid # p /\ \A q \in Procs : held[q].pid # p
        /\ pc[p] \in {"idle", "locked", "gated", "intending"} =>
              intent.run # p /\ \A q \in Procs : held[q].run # p
        /\ pc[p] \in {"idle", "locked", "gated", "intending", "naming"} =>
              state[p] = "absent"

\* Who works on the run of another works on one that exists.
JobExists ==
    \A q \in Coordinators \cup Cancellers :
        pc[q] # "refused" /\ job[q] \in Runs /\ job[q] # q => state[job[q]] # "absent"

\* The record on disk did not overtake the one a writer read.
NotOvertaken ==
    \A c \in Cancellers :
        c \in alive /\ pc[c] \in WritingSteps /\ intent.kind = "ok"
        /\ intent.run = held[c].run /\ intent.pid = held[c].pid
        => Rank[intent.cause] <= Rank[held[c].cause]

CauseInv == Arbitrated /\ Fresh /\ JobExists /\ NotOvertaken

LEMMA InitCause == Init => CauseInv
<1>. SUFFICES ASSUME Init PROVE CauseInv
  OBVIOUS
<1>1. \A p \in Procs : pc[p] = "idle" /\ held[p] = Absent /\ job[p] = NoRun
  BY DEF Init
<1>2. Absent.run = NoRun /\ Absent.pid = NoProc /\ intent = Absent
  BY DEF Absent, Init
<1>. QED
  BY <1>1, <1>2, Roles, OwnershipAssumption
  DEF CauseInv, Arbitrated, Fresh, JobExists, NotOvertaken, WritingSteps, Init, Runs, Procs

EarlySteps == {"idle", "locked", "gated", "intending", "naming"}

\* What a coordinator does to the record...
RecordUse(p) ==
    \/ intent' = intent \/ intent' = Absent
    \/ pc[p] = "gated" /\ pc'[p] = "intending" /\ intent' = Record(NoRun, p)
    \/ pc[p] = "gated" /\ pc'[p] = "replaying" /\ job[p] # p /\ intent' = Record(job[p], p)
    \/ pc[p] = "intending" /\ pc'[p] = "naming" /\ intent' = [intent EXCEPT !.run = p]

\* ...and to the runs, on its way through the early steps and after them.
RunUse(p) ==
    /\ pc'[p] \in {"locked", "gated"} => pc[p] \in {"idle", "locked"}
    /\ pc'[p] = "intending" => pc[p] = "gated"
    /\ pc'[p] = "naming" => pc[p] = "intending"
    /\ pc'[p] # "idle"
    /\ pc'[p] \in EarlySteps => state' = state
    /\ \A r \in Runs : state'[r] = state[r] \/ (state'[r] # "absent" /\ r \in {p, job[p]})
    /\ pc[p] # "refused"
    /\ \/ job' = job
       \/ pc'[p] \in {"locked", "refused"} /\ (job'[p] = p \/ state[job'[p]] # "absent")

LEMMA CoordinatorUse ==
    ASSUME TypeOK, ResultKnown, NEW p \in Coordinators, Coordinate(p)
    PROVE  RecordUse(p) /\ RunUse(p)
<1>1. /\ pc \in [Procs -> Steps] /\ p \in Procs
      /\ state \in [Runs -> {"absent", "created", "running"} \cup Terminal]
      /\ job \in [Procs -> RunIds]
  BY Roles DEF TypeOK
<1>2. "absent" \notin Terminal
  BY OwnershipAssumption DEF Terminal
<1>. USE <1>1, <1>2 DEF RecordUse, RunUse, EarlySteps, At, Goto, ownVars, runVars, ctlVars
<1>3. ASSUME NEW r \in Runs, Acquire(p, r) PROVE RecordUse(p) /\ RunUse(p)
  BY <1>3 DEF Acquire, Begin
<1>4. ASSUME CheckBlock(p) PROVE RecordUse(p) /\ RunUse(p)
  BY <1>4 DEF CheckBlock
<1>5. ASSUME StartRun(p) \/ NameRun(p) PROVE RecordUse(p) /\ RunUse(p)
  BY <1>5 DEF StartRun, NameRun
<1>6. ASSUME CreateRun(p) PROVE RecordUse(p) /\ RunUse(p)
  BY <1>6 DEF CreateRun
<1>7. ASSUME BlockEarly(p) \/ Dispatch(p) \/ Replay(p) \/ FinishRun(p)
      PROVE  RecordUse(p) /\ RunUse(p)
  BY <1>7 DEF BlockEarly, Dispatch, Replay, FinishRun
<1>8. ASSUME ResumeRun(p) PROVE RecordUse(p) /\ RunUse(p)
  BY <1>8 DEF ResumeRun
<1>9. ASSUME Transition(p) PROVE RecordUse(p) /\ RunUse(p)
  BY <1>9 DEF Transition
<1>10. ASSUME ClearIntent(p) PROVE RecordUse(p) /\ RunUse(p)
  BY <1>10 DEF ClearIntent
<1>11. ASSUME Complete(p) \/ ReleaseExecution(p) \/ ReleaseLock(p) PROVE RecordUse(p) /\ RunUse(p)
  BY <1>11 DEF Complete, ReleaseExecution, ReleaseLock
<1>12. ASSUME PersistFinal(p) PROVE RecordUse(p) /\ RunUse(p)
  <2>1. result[p] \in Terminal
    BY <1>12 DEF PersistFinal, ResultKnown, FinishingSteps, TypeOK, Terminal
  <2>. QED
    BY <1>12, <2>1 DEF PersistFinal
<1>13. ASSUME Attest(p) PROVE RecordUse(p) /\ RunUse(p)
  <2>1. PICK step \in {"unlocking", "releasing"} : Goto(p, step)
    BY <1>13 DEF Attest
  <2>. QED
    BY <1>13, <2>1 DEF Attest
<1>14. ASSUME Throw(p) PROVE RecordUse(p) /\ RunUse(p)
  BY <1>14 DEF Throw, CoordinatorSteps
<1>. QED
  BY <1>3, <1>4, <1>5, <1>6, <1>7, <1>8, <1>9, <1>10, <1>11, <1>12, <1>13, <1>14 DEF Coordinate

LEMMA CoordinatorCause ==
    ASSUME TypeOK, ResultKnown, CauseInv, NEW p \in Coordinators, Coordinate(p)
    PROVE  CauseInv' /\ (intent.kind = "ok" /\ intent'.kind = "ok"
                         /\ intent'.run = intent.run /\ intent'.pid = intent.pid
                         => Rank[intent'.cause] >= Rank[intent.cause])
<1>1. /\ OthersStill(p) /\ held' = held /\ arb' = arb /\ RecordUse(p) /\ RunUse(p)
      /\ p \in Procs /\ p \in Runs /\ p # NoProc /\ p # NoRun
      /\ \A q \in Procs : q # NoProc
  BY CoordinatorFrame, CoordinatorUse, Roles, OwnershipAssumption
<1>2. \A c \in Cancellers : c # p /\ c \in Procs
  BY Roles
<1>3. intent \in Intents /\ \A q \in Procs : held[q] \in Intents
  BY DEF TypeOK
<1>4. /\ \A k \in Causes : Rank[k] \in Nat /\ Rank[k] >= 0
      /\ Rank["NONE"] = 0
  BY DEF Rank, Causes
<1>5. Arbitrated'
  BY <1>1, <1>2 DEF CauseInv, Arbitrated, OthersStill
<1>6. JobExists'
  <2>. SUFFICES ASSUME NEW q \in Coordinators \cup Cancellers,
                       pc'[q] # "refused", job'[q] \in Runs, job'[q] # q
                PROVE  state'[job'[q]] # "absent"
    BY DEF JobExists
  <2>1. state[job'[q]] # "absent"
    BY <1>1, Roles DEF CauseInv, JobExists, OthersStill, RunUse
  <2>. QED
    BY <1>1, <2>1 DEF RunUse
<1>7. Fresh'
  <2>. SUFFICES ASSUME NEW q \in Coordinators
                PROVE  /\ pc'[q] \in {"idle", "locked", "gated"} =>
                             intent'.pid # q /\ \A s \in Procs : held'[s].pid # q
                       /\ pc'[q] \in {"idle", "locked", "gated", "intending"} =>
                             intent'.run # q /\ \A s \in Procs : held'[s].run # q
                       /\ pc'[q] \in EarlySteps => state'[q] = "absent"
    BY DEF Fresh, EarlySteps
  <2>1. q \in Procs /\ q # NoProc /\ q # NoRun /\ q \in Runs
    BY Roles, OwnershipAssumption
  <2>2. /\ \/ intent'.pid \in {intent.pid, NoProc}
           \/ intent'.pid = p /\ pc[p] = "gated" /\ pc'[p] \notin {"locked", "gated"}
        /\ \/ intent'.run \in {intent.run, NoRun}
           \/ intent'.run = job[p] /\ job[p] # p
           \/ intent'.run = p /\ pc'[p] = "naming"
    BY <1>1, <1>3 DEF RecordUse, Absent, Record, Intents
  <2>3. CASE q = p
    BY <1>1, <2>1, <2>2, <2>3 DEF CauseInv, Fresh, RunUse, EarlySteps
  <2>4. CASE q # p
    <3>1. pc'[q] = pc[q]
      BY <1>1, <2>1, <2>4 DEF OthersStill
    <3>2. pc[q] \in EarlySteps => state[q] = "absent" /\ job[p] # q
      BY <1>1, <2>1, <2>4 DEF CauseInv, Fresh, JobExists, RunUse, EarlySteps
    <3>3. pc[q] \in EarlySteps => state'[q] = "absent"
      BY <1>1, <2>1, <2>4, <3>2 DEF RunUse
    <3>4. pc[q] \in {"idle", "locked", "gated"} => intent'.pid # q
      BY <2>1, <2>2, <2>4 DEF CauseInv, Fresh
    <3>5. pc[q] \in {"idle", "locked", "gated", "intending"} => intent'.run # q
      BY <2>1, <2>2, <2>4, <3>2 DEF CauseInv, Fresh, EarlySteps
    <3>. QED
      BY <1>1, <2>1, <3>1, <3>3, <3>4, <3>5 DEF CauseInv, Fresh
  <2>. QED
    BY <2>3, <2>4
<1>8. NotOvertaken'
  <2>. SUFFICES ASSUME NEW c \in Cancellers, c \in alive', pc'[c] \in WritingSteps,
                       intent'.kind = "ok", intent'.run = held'[c].run, intent'.pid = held'[c].pid
                PROVE  Rank[intent'.cause] <= Rank[held'[c].cause]
    BY DEF NotOvertaken
  <2>1. c \in alive /\ pc[c] \in WritingSteps /\ held'[c] = held[c] /\ held[c].cause \in Causes
    BY <1>1, <1>2, <1>3 DEF OthersStill, Intents
  <2>2. CASE intent' = intent
    BY <2>1, <2>2 DEF CauseInv, NotOvertaken
  <2>3. CASE intent' = Absent
    BY <2>3 DEF Absent
  <2>4. CASE intent' = Record(NoRun, p) \/ intent' = Record(job[p], p)
    BY <1>4, <2>1, <2>4 DEF Record
  <2>5. CASE pc[p] = "intending" /\ intent' = [intent EXCEPT !.run = p]
    BY <1>2, <1>3, <2>1, <2>5 DEF CauseInv, Fresh, Intents
  <2>. QED
    BY <1>1, <2>2, <2>3, <2>4, <2>5 DEF RecordUse
<1>9. ASSUME intent.kind = "ok", intent'.kind = "ok", intent'.run = intent.run,
             intent'.pid = intent.pid
      PROVE  Rank[intent'.cause] >= Rank[intent.cause]
  <2>1. CASE intent' = intent
    BY <1>3, <1>4, <2>1 DEF Intents
  <2>2. CASE pc[p] = "gated" /\ intent'.pid = p
    BY <1>9, <2>2 DEF CauseInv, Fresh
  <2>3. CASE pc[p] = "intending" /\ intent'.run = p
    BY <1>9, <2>3 DEF CauseInv, Fresh
  <2>. QED
    BY <1>1, <1>3, <1>9, <2>1, <2>2, <2>3 DEF RecordUse, Record, Absent, Intents
<1>. QED
  BY <1>5, <1>6, <1>7, <1>8, <1>9 DEF CauseInv

\* Everybody but a coordinator keeps runs as absent or present as they are.
RunsKept == \A r \in Runs : state[r] = "absent" <=> state'[r] = "absent"

\* A canceller reads the record under arbitration, or writes it once.
CancelUse(c) ==
    \/ /\ UNCHANGED <<intent, held, arb>>
       /\ pc'[c] \notin WritingSteps
    \/ /\ arb = NoProc /\ arb' = c /\ intent' = intent /\ held' = [held EXCEPT ![c] = intent]
       /\ pc[c] = "requesting" /\ pc'[c] = "writing request" /\ intent.cause = "NONE"
    \/ /\ arb = NoProc /\ arb' = c /\ intent' = intent /\ held' = [held EXCEPT ![c] = intent]
       /\ pc[c] = "escalating" /\ pc'[c] = "writing escalation"
       /\ intent.cause = "CANCEL_REQUESTED"
    \/ /\ c \in alive /\ arb' = Free(arb, c) /\ held' = held /\ pc[c] = "writing request"
       /\ pc'[c] = "waiting" /\ intent' = [held[c] EXCEPT !.cause = "CANCEL_REQUESTED"]
    \/ /\ c \in alive /\ arb' = Free(arb, c) /\ held' = held /\ pc[c] = "writing escalation"
       /\ pc'[c] = "killing" /\ intent' = [held[c] EXCEPT !.cause = "CANCEL_ESCALATED"]
    \/ /\ \E t : arb' = Free(arb, t) /\ alive' = alive \ {t}
       /\ UNCHANGED <<intent, held>> /\ pc'[c] \notin WritingSteps

LEMMA CancellerUse ==
    ASSUME TypeOK, JobExists, NEW c \in Cancellers, CancelStep(c)
    PROVE  CancelUse(c) /\ RunsKept /\ OthersStill(c)
<1>0. /\ pc \in [Procs -> Steps] /\ c \in Procs /\ c \notin Runs /\ job[c] \in RunIds
      /\ state \in [Runs -> {"absent", "created", "running"} \cup Terminal]
      /\ pc[c] # "refused" /\ job[c] \in Runs => state[job[c]] # "absent"
  BY Roles DEF TypeOK, JobExists, Runs
<1>1. OthersStill(c)
  BY CancellerFrame DEF Aside
<1>2. CancelUse(c)
  <2>. USE <1>0 DEF CancelUse, WritingSteps, Goto, At, ownVars, cancelVars
  <2>1. ASSUME NEW r \in Runs, Cancel(c, r) PROVE CancelUse(c)
    BY <2>1 DEF Cancel
  <2>2. ASSUME InspectIntent(c) PROVE CancelUse(c)
    BY <2>2 DEF InspectIntent
  <2>3. ASSUME ReadRequest(c) PROVE CancelUse(c)
    BY <2>3 DEF ReadRequest, ReadCause
  <2>4. ASSUME ReadEscalation(c) PROVE CancelUse(c)
    BY <2>4 DEF ReadEscalation, ReadCause
  <2>5. ASSUME WriteRequest(c) \/ WriteEscalation(c) PROVE CancelUse(c)
    BY <2>5 DEF WriteRequest, WriteEscalation, WriteCause
  <2>6. ASSUME ObserveEnd(c) \/ DecideEscalation(c) PROVE CancelUse(c)
    BY <2>6 DEF ObserveEnd, DecideEscalation
  <2>7. ASSUME GraceExpired(c) PROVE CancelUse(c)
    BY <2>7 DEF GraceExpired
  <2>8. ASSUME Kill(c) PROVE CancelUse(c)
    BY <2>8 DEF Kill
  <2>9. ASSUME EndEvent(c) \/ EndState(c) \/ EndAttestation(c) PROVE CancelUse(c)
    BY <2>9 DEF EndEvent, EndState, EndAttestation
  <2>. QED
    BY <2>1, <2>2, <2>3, <2>4, <2>5, <2>6, <2>7, <2>8, <2>9 DEF CancelStep
<1>3. RunsKept
  <2>1. CASE EndState(c)
    BY <1>0, <2>1, OwnershipAssumption DEF EndState, At, RunsKept, Terminal
  <2>2. CASE ~EndState(c)
    <3>1. state' = state
      BY <2>2 DEF CancelStep, Cancel, InspectIntent, ReadRequest, WriteRequest, ReadEscalation,
         WriteEscalation, ReadCause, WriteCause, ObserveEnd, GraceExpired, DecideEscalation,
         Kill, EndEvent, EndAttestation, runVars
    <3>. QED
      BY <3>1 DEF RunsKept
  <2>. QED
    BY <2>1, <2>2
<1>. QED
  BY <1>1, <1>2, <1>3

\* Who exists and what a job names stays right.
LEMMA JobStep ==
    ASSUME TypeOK, JobExists, RunsKept, NEW p \in Procs \ Coordinators, OthersStill(p),
           p \in Cancellers /\ pc'[p] # "refused" /\ job'[p] \in Runs
              => state[job'[p]] # "absent"
    PROVE  JobExists'
<1>. SUFFICES ASSUME NEW q \in Coordinators \cup Cancellers,
                     pc'[q] # "refused", job'[q] \in Runs, job'[q] # q
              PROVE  state'[job'[q]] # "absent"
  BY DEF JobExists
<1>1. q \in Procs
  BY Roles
<1>. QED
  BY <1>1 DEF JobExists, RunsKept, OthersStill

LEMMA CancellerCause ==
    ASSUME TypeOK, CauseInv, NEW c \in Cancellers, CancelStep(c)
    PROVE  CauseInv' /\ (intent.kind = "ok" /\ intent'.kind = "ok"
                         /\ intent'.run = intent.run /\ intent'.pid = intent.pid
                         => Rank[intent'.cause] >= Rank[intent.cause])
<1>1. CancelUse(c) /\ RunsKept /\ OthersStill(c)
  BY CancellerUse DEF CauseInv
<1>2. /\ c \in Procs /\ c # NoProc /\ c \notin Coordinators
      /\ \A q \in Coordinators : q \in Procs /\ q \in Runs
      /\ \A q \in Cancellers : q \in Procs /\ q # NoProc
  BY Roles
<1>3. /\ intent \in Intents /\ \A q \in Procs : held[q] \in Intents
      /\ held \in [Procs -> Intents]
  BY DEF TypeOK
<1>4. /\ Rank["NONE"] = 0 /\ Rank["CANCEL_REQUESTED"] = 1 /\ Rank["CANCEL_ESCALATED"] = 2
      /\ \A k \in Causes : Rank[k] \in Nat
  BY DEF Rank, Causes
<1>5. /\ [held[c] EXCEPT !.cause = "CANCEL_REQUESTED"].run = held[c].run
      /\ [held[c] EXCEPT !.cause = "CANCEL_REQUESTED"].pid = held[c].pid
      /\ [held[c] EXCEPT !.cause = "CANCEL_REQUESTED"].cause = "CANCEL_REQUESTED"
      /\ [held[c] EXCEPT !.cause = "CANCEL_ESCALATED"].run = held[c].run
      /\ [held[c] EXCEPT !.cause = "CANCEL_ESCALATED"].pid = held[c].pid
      /\ [held[c] EXCEPT !.cause = "CANCEL_ESCALATED"].cause = "CANCEL_ESCALATED"
  BY <1>2, <1>3 DEF Intents
<1>6. Arbitrated'
  BY <1>1, <1>2, <1>3 DEF CauseInv, Arbitrated, CancelUse, OthersStill, WritingSteps, Free
<1>7. JobExists'
  <2>1. pc'[c] # "refused" /\ job'[c] \in Runs => state[job'[c]] # "absent"
    <3>1. CASE \E r \in Runs : Cancel(c, r)
      BY <1>2, <3>1 DEF Cancel, Goto, TypeOK
    <3>2. CASE ~\E r \in Runs : Cancel(c, r)
      <4>1. job' = job
        BY <3>2 DEF CancelStep, InspectIntent, ReadRequest, WriteRequest, ReadEscalation,
           WriteEscalation, ReadCause, WriteCause, ObserveEnd, GraceExpired, DecideEscalation,
           Kill, EndEvent, EndState, EndAttestation, ctlVars
      <4>2. pc[c] # "refused"
        BY <3>2 DEF CancelStep, InspectIntent, ReadRequest, WriteRequest, ReadEscalation,
           WriteEscalation, ReadCause, WriteCause, ObserveEnd, GraceExpired, DecideEscalation,
           Kill, EndEvent, EndState, EndAttestation, At
      <4>. QED
        BY <1>2, <4>1, <4>2 DEF CauseInv, JobExists, Runs
    <3>. QED
      BY <3>1, <3>2
  <2>. QED
    BY <1>1, <1>2, <2>1, JobStep DEF CauseInv
<1>8. Fresh'
  <2>1. \A q \in Coordinators : pc'[q] = pc[q] /\ (state'[q] = "absent" <=> state[q] = "absent")
    BY <1>1, <1>2 DEF OthersStill, RunsKept
  <2>2. \A s \in Procs : held'[s] = held[s] \/ held'[s] = intent
    BY <1>1, <1>2, <1>3 DEF CancelUse
  <2>3. \/ intent' = intent
        \/ intent'.pid = held[c].pid /\ intent'.run = held[c].run
    BY <1>1, <1>5 DEF CancelUse
  <2>. QED
    BY <1>2, <2>1, <2>2, <2>3 DEF CauseInv, Fresh
<1>9. NotOvertaken'
  <2>. SUFFICES ASSUME NEW b \in Cancellers, b \in alive', pc'[b] \in WritingSteps,
                       intent'.kind = "ok", intent'.run = held'[b].run, intent'.pid = held'[b].pid
                PROVE  Rank[intent'.cause] <= Rank[held'[b].cause]
    BY DEF NotOvertaken
  <2>1. CASE b = c
    <3>1. intent' = intent /\ held'[c] = intent
      BY <1>1, <1>2, <1>3, <2>1 DEF CancelUse, WritingSteps
    <3>. QED
      BY <1>3, <1>4, <2>1, <3>1 DEF Intents
  <2>2. CASE b # c
    <3>1. b \in alive /\ pc[b] \in WritingSteps /\ held'[b] = held[b]
      BY <1>1, <1>2, <2>2 DEF OthersStill
    <3>2. arb = b
      BY <3>1 DEF CauseInv, Arbitrated
    <3>3. intent' = intent
      BY <1>1, <1>2, <2>2, <3>2 DEF CancelUse, CauseInv, Arbitrated, WritingSteps
    <3>. QED
      BY <3>1, <3>3 DEF CauseInv, NotOvertaken
  <2>. QED
    BY <2>1, <2>2
<1>10. ASSUME intent.kind = "ok", intent'.kind = "ok", intent'.run = intent.run,
              intent'.pid = intent.pid
       PROVE  Rank[intent'.cause] >= Rank[intent.cause]
  <2>1. CASE intent' = intent
    BY <1>3, <1>4, <2>1 DEF Intents
  <2>2. CASE c \in alive /\ pc[c] = "writing request"
             /\ intent' = [held[c] EXCEPT !.cause = "CANCEL_REQUESTED"]
    <3>1. intent.run = held[c].run /\ intent.pid = held[c].pid
      BY <1>5, <1>10, <2>2
    <3>2. held[c].cause = "NONE"
      BY <2>2 DEF CauseInv, Arbitrated
    <3>3. Rank[intent.cause] <= Rank[held[c].cause]
      BY <1>10, <2>2, <3>1 DEF CauseInv, NotOvertaken, WritingSteps
    <3>4. intent'.cause = "CANCEL_REQUESTED"
      BY <1>5, <2>2
    <3>5. intent.cause \in Causes
      BY <1>3 DEF Intents
    <3>. QED
      BY <1>4, <3>2, <3>3, <3>4, <3>5
  <2>3. CASE c \in alive /\ pc[c] = "writing escalation"
             /\ intent' = [held[c] EXCEPT !.cause = "CANCEL_ESCALATED"]
    <3>1. intent.run = held[c].run /\ intent.pid = held[c].pid
      BY <1>5, <1>10, <2>3
    <3>2. held[c].cause = "CANCEL_REQUESTED"
      BY <2>3 DEF CauseInv, Arbitrated
    <3>3. Rank[intent.cause] <= Rank[held[c].cause]
      BY <1>10, <2>3, <3>1 DEF CauseInv, NotOvertaken, WritingSteps
    <3>4. intent'.cause = "CANCEL_ESCALATED"
      BY <1>5, <2>3
    <3>5. intent.cause \in Causes
      BY <1>3 DEF Intents
    <3>. QED
      BY <1>4, <3>2, <3>3, <3>4, <3>5
  <2>. QED
    BY <1>1, <2>1, <2>2, <2>3 DEF CancelUse
<1>. QED
  BY <1>6, <1>7, <1>8, <1>9, <1>10 DEF CauseInv

\* Somebody who neither advances a cause nor names a record moves: what the
\* others hold stays, the arbitration lock stays with a live holder, and the
\* record stays or stops being one.
LEMMA QuietCause ==
    ASSUME TypeOK, CauseInv, RunsKept,
           \A q \in Coordinators \cup Cancellers :
              /\ pc'[q] = pc[q] /\ job'[q] = job[q] /\ held'[q] = held[q]
              /\ q \in alive' => q \in alive /\ (arb = q => arb' = q),
           \A q \in Procs : held'[q] \in {held[q], intent},
           intent' \in {intent, Absent, Malformed}
    PROVE  CauseInv' /\ (intent.kind = "ok" /\ intent'.kind = "ok"
                         /\ intent'.run = intent.run /\ intent'.pid = intent.pid
                         => Rank[intent'.cause] >= Rank[intent.cause])
<1>1. /\ Absent.run = NoRun /\ Absent.pid = NoProc /\ Absent.kind # "ok"
      /\ Malformed.run = NoRun /\ Malformed.pid = NoProc /\ Malformed.kind # "ok"
  BY DEF Absent, Malformed
<1>2. \A q \in Coordinators : q # NoProc /\ q # NoRun /\ q \in Runs
  BY Roles, OwnershipAssumption
<1>3. Arbitrated'
  BY DEF CauseInv, Arbitrated
<1>4. Fresh'
  <2>1. \A q \in Coordinators : pc'[q] = pc[q] /\ (state'[q] = "absent" <=> state[q] = "absent")
    BY <1>2 DEF RunsKept
  <2>2. intent' = intent \/ (intent'.pid = NoProc /\ intent'.run = NoRun)
    BY <1>1
  <2>. QED
    BY <1>2, <2>1, <2>2 DEF CauseInv, Fresh
<1>5. JobExists'
  BY DEF CauseInv, JobExists, RunsKept
<1>6. NotOvertaken'
  BY <1>1 DEF CauseInv, NotOvertaken
<1>7. Rank[intent.cause] \in Nat
  <2>1. intent.cause \in Causes
    BY DEF TypeOK, Intents
  <2>. QED
    BY <2>1 DEF Rank, Causes
<1>. QED
  BY <1>1, <1>3, <1>4, <1>5, <1>6, <1>7 DEF CauseInv

LEMMA RecovererCause ==
    ASSUME TypeOK, CauseInv, NEW v \in Recoverers, RecoverStep(v)
    PROVE  CauseInv' /\ (intent.kind = "ok" /\ intent'.kind = "ok"
                         /\ intent'.run = intent.run /\ intent'.pid = intent.pid
                         => Rank[intent'.cause] >= Rank[intent.cause])
<1>1. OthersStill(v)
  BY RecovererFrame DEF Aside
<1>2. v \in Procs /\ \A q \in Coordinators \cup Cancellers : q \in Procs /\ q # v
  BY OwnershipAssumption DEF Procs
<1>3. arb' = arb /\ intent' \in {intent, Absent}
      /\ (held' = held \/ held' = [held EXCEPT ![v] = intent])
  BY DEF RecoverStep, RecoverLock, ReadBlock, LoadLog, RecoverEvent, RecoverState, RecoverAttest,
     RecoverClear, RecoverDone, RecoverFail, ownVars, cancelVars
<1>4. RunsKept
  <2>1. CASE RecoverState(v)
    BY <2>1 DEF RecoverState, RunsKept
  <2>2. CASE ~RecoverState(v)
    <3>1. state' = state
      BY <2>2 DEF RecoverStep, RecoverLock, ReadBlock, LoadLog, RecoverEvent, RecoverAttest,
         RecoverClear, RecoverDone, RecoverFail, runVars
    <3>. QED
      BY <3>1 DEF RunsKept
  <2>. QED
    BY <2>1, <2>2
<1>5. \A q \in Procs : held'[q] \in {held[q], intent}
  BY <1>3 DEF TypeOK
<1>6. \A q \in Coordinators \cup Cancellers :
         /\ pc'[q] = pc[q] /\ job'[q] = job[q] /\ held'[q] = held[q]
         /\ q \in alive' => q \in alive /\ (arb = q => arb' = q)
  BY <1>1, <1>2, <1>3 DEF OthersStill
<1>. QED
  BY <1>3, <1>4, <1>5, <1>6, QuietCause

\* Every step keeps CauseInv and advances the cause, if anything.
LEMMA CauseStep ==
    ASSUME TypeOK, ResultKnown, CauseInv, [Next]_vars
    PROVE  CauseInv' /\ (intent.kind = "ok" /\ intent'.kind = "ok"
                         /\ intent'.run = intent.run /\ intent'.pid = intent.pid
                         => Rank[intent'.cause] >= Rank[intent.cause])
<1>. DEFINE Goal == CauseInv' /\ (intent.kind = "ok" /\ intent'.kind = "ok"
                         /\ intent'.run = intent.run /\ intent'.pid = intent.pid
                         => Rank[intent'.cause] >= Rank[intent.cause])
<1>1. ASSUME NEW p \in Coordinators, Coordinate(p) PROVE Goal
  BY <1>1, CoordinatorCause
<1>2. ASSUME NEW c \in Cancellers, CancelStep(c) PROVE Goal
  BY <1>2, CancellerCause
<1>3. ASSUME NEW v \in Recoverers, RecoverStep(v) PROVE Goal
  BY <1>3, RecovererCause
<1>4. ASSUME NEW o \in Reporters, Probe(o) \/ Unprobe(o) PROVE Goal
  <2>1. o \in Procs /\ \A q \in Coordinators \cup Cancellers : q \in Procs /\ q # o
    BY OwnershipAssumption DEF Procs
  <2>2. /\ state' = state /\ job' = job /\ held' = held /\ arb' = arb /\ intent' = intent
        /\ alive' \subseteq alive \cup {o}
        /\ \E step \in Steps : pc' = [pc EXCEPT ![o] = step]
    BY <1>4 DEF Probe, Unprobe, Begin, Goto, ctlVars, runVars, cancelVars, Steps, Ends
  <2>3. RunsKept
    BY <2>2 DEF RunsKept
  <2>4. \A q \in Coordinators \cup Cancellers :
           /\ pc'[q] = pc[q] /\ job'[q] = job[q] /\ held'[q] = held[q]
           /\ q \in alive' => q \in alive /\ (arb = q => arb' = q)
    BY <2>1, <2>2 DEF TypeOK
  <2>. QED
    BY <2>2, <2>3, <2>4, QuietCause
<1>5. ASSUME NEW p \in Procs, Die(p) PROVE Goal
  <2>1. /\ state' = state /\ job' = job /\ held' = held /\ pc' = pc /\ intent' = intent
        /\ alive' = alive \ {p} /\ arb' = Free(arb, p)
    BY <1>5 DEF Die, ctlVars, runVars
  <2>2. RunsKept
    BY <2>1 DEF RunsKept
  <2>3. \A q \in Coordinators \cup Cancellers :
           /\ pc'[q] = pc[q] /\ job'[q] = job[q] /\ held'[q] = held[q]
           /\ q \in alive' => q \in alive /\ (arb = q => arb' = q)
    BY <2>1 DEF Free
  <2>. QED
    BY <2>1, <2>2, <2>3, QuietCause
<1>6. ASSUME LosePower PROVE Goal
  <2>1. /\ state' = state /\ job' = job /\ held' = held /\ pc' = pc
        /\ intent' \in {intent, Malformed} /\ alive' = {}
    BY <1>6 DEF LosePower, ctlVars, runVars
  <2>2. RunsKept
    BY <2>1 DEF RunsKept
  <2>. QED
    BY <2>1, <2>2, QuietCause
<1>7. ASSUME UNCHANGED vars PROVE Goal
  <2>1. /\ state' = state /\ job' = job /\ held' = held /\ pc' = pc /\ intent' = intent
        /\ alive' = alive /\ arb' = arb
    BY <1>7 DEF vars
  <2>2. RunsKept
    BY <2>1 DEF RunsKept
  <2>. QED
    BY <2>1, <2>2, QuietCause
<1>. QED
  BY <1>1, <1>2, <1>3, <1>4, <1>5, <1>6, <1>7 DEF Next

\* The interruption cause of one ownership never moves backwards, however
\* many cancellers race on it and whoever dies (transitionCause, AO-002).
THEOREM CauseAdvances == Spec => CauseMonotonic
<1>1. Init => CauseInv
  BY InitCause
<1>2. Inv /\ CauseInv /\ [Next]_vars => CauseInv'
  BY CauseStep DEF Inv
<1>3. Inv /\ CauseInv /\ [Next]_vars =>
         [intent.kind = "ok" /\ intent'.kind = "ok"
          /\ intent'.run = intent.run /\ intent'.pid = intent.pid
          => Rank[intent'.cause] >= Rank[intent.cause]]_vars
  BY CauseStep DEF Inv
<1>. QED
  BY <1>1, <1>2, <1>3, Invariance, PTL DEF Spec, CauseMonotonic

-----------------------------------------------------------------------------
(* The end of a run.  Without the workspace lock only a canceller writes a *)
(* terminal event, and it overrules the run for good; everybody else who   *)
(* is about to write one knows that the log shows no end, and holds the    *)
(* lock from the moment it looked.                                         *)

OverrulingSteps == {"ending", "ending state", "ending attestation", "cancelled"}

UnwrittenSteps == {"naming", "prepared", "driving", "clearing", "completing"}

\* The log of a run shows no end, or one a canceller answers for.
Open(r) == log[r] = <<>> \/ Overruled(r)

\* Nobody ended a run that is not named yet...
Unnamed ==
    \A p \in Coordinators :
        pc[p] \in {"idle", "locked", "gated", "intending"} => log[p] = <<>>

\* ...nor one that a live owner is about to end...
OwnedOpen ==
    \A p \in Coordinators :
        p \in alive /\ pc[p] \in UnwrittenSteps => Open(job[p])

\* ...nor one that recovery is about to end.
RecoveredOpen ==
    \A v \in Recoverers :
        v \in alive /\ pc[v] = "terminating" /\ job[v] \in Runs => Open(job[v])

\* A fresh run is worked on under its own name until it is dispatched, and
\* recovery works on the run of the record it read.
OwnNames ==
    /\ \A p \in Coordinators : pc[p] \in {"intending", "naming", "prepared"} => job[p] = p
    /\ \A v \in Recoverers : job[v] = held[v].run

EndInv == Unnamed /\ OwnedOpen /\ RecoveredOpen /\ OwnNames /\ OneTerminalEvent

LEMMA InitEnd == Init => EndInv
<1>. SUFFICES ASSUME Init PROVE EndInv
  OBVIOUS
<1>1. /\ \A r \in RunIds : log[r] = <<>>
      /\ \A p \in Procs : pc[p] = "idle" /\ job[p] = NoRun /\ held[p] = Absent
      /\ alive = {}
  BY DEF Init
<1>2. Absent.run = NoRun /\ Len(<<>>) <= 1
  BY DEF Absent
<1>. QED
  BY <1>1, <1>2, Roles
  DEF EndInv, Unnamed, OwnedOpen, RecoveredOpen, OwnNames, OneTerminalEvent

\* A run that is overruled stays overruled.
Settled(c) == pc[c] \in OverrulingSteps => pc'[c] \in OverrulingSteps /\ job'[c] = job[c]

LEMMA CancellerSettles ==
    ASSUME TypeOK, NEW c \in Cancellers, CancelStep(c)
    PROVE  Settled(c)
<1>. USE Roles DEF TypeOK, Goto, At, Begin, Settled, OverrulingSteps, ctlVars
<1>1. ASSUME NEW r \in Runs, Cancel(c, r) PROVE Settled(c)
  BY <1>1 DEF Cancel
<1>2. CASE InspectIntent(c)
  BY <1>2 DEF InspectIntent
<1>3. ASSUME NEW from, NEW before \in {"requesting", "escalating"}, NEW after,
             ReadCause(c, from, before, after)
      PROVE  Settled(c)
  BY <1>3 DEF ReadCause
<1>4. ASSUME NEW to, NEW before \in {"writing request", "writing escalation"}, NEW after,
             WriteCause(c, to, before, after)
      PROVE  Settled(c)
  BY <1>4 DEF WriteCause
<1>5. CASE ObserveEnd(c) \/ GraceExpired(c) \/ DecideEscalation(c) \/ Kill(c)
  BY <1>5 DEF ObserveEnd, GraceExpired, DecideEscalation, Kill
<1>6. CASE EndEvent(c) \/ EndState(c) \/ EndAttestation(c)
  BY <1>6 DEF EndEvent, EndState, EndAttestation
<1>. QED
  BY <1>1, <1>2, <1>3, <1>4, <1>5, <1>6
     DEF CancelStep, ReadRequest, WriteRequest, ReadEscalation, WriteEscalation

LEMMA StaysOverruled ==
    ASSUME TypeOK, [Next]_vars, NEW r, Overruled(r)
    PROVE  Overruled(r)'
<1>1. PICK c \in Cancellers : job[c] = r /\ pc[c] \in OverrulingSteps
  BY DEF Overruled, OverrulingSteps
<1>2. c \in Procs
  BY Roles
<1>3. pc'[c] \in OverrulingSteps /\ job'[c] = job[c]
  <2>1. ASSUME NEW p \in Procs, p # c, OthersStill(p) PROVE pc'[c] = pc[c] /\ job'[c] = job[c]
    BY <1>2, <2>1 DEF OthersStill
  <2>2. ASSUME NEW p \in Coordinators, Coordinate(p) PROVE pc'[c] = pc[c] /\ job'[c] = job[c]
    BY <2>1, <2>2, CoordinatorFrame, Roles
  <2>3. ASSUME NEW d \in Cancellers, CancelStep(d)
        PROVE  pc'[c] \in OverrulingSteps /\ job'[c] = job[c]
    BY <1>1, <2>1, <2>3, CancellerFrame, CancellerSettles, Roles DEF Aside, Settled
  <2>4. ASSUME NEW v \in Recoverers, RecoverStep(v) PROVE pc'[c] = pc[c] /\ job'[c] = job[c]
    BY <2>1, <2>4, RecovererFrame, Roles, OwnershipAssumption DEF Aside
  <2>5. ASSUME NEW o \in Reporters, Probe(o) \/ Unprobe(o)
        PROVE  pc'[c] = pc[c] /\ job'[c] = job[c]
    <3>1. o # c /\ o \in Procs
      BY Roles, OwnershipAssumption
    <3>2. UNCHANGED job /\ \E step : Goto(o, step)
      BY <2>5 DEF Probe, Unprobe, ctlVars
    <3>. QED
      BY <1>2, <3>1, <3>2 DEF Goto, TypeOK
  <2>6. ASSUME (\E p \in Procs : Die(p)) \/ LosePower \/ UNCHANGED vars
        PROVE  pc'[c] = pc[c] /\ job'[c] = job[c]
    BY <2>6 DEF Die, LosePower, vars, ctlVars
  <2>. QED
    BY <1>1, <2>2, <2>3, <2>4, <2>5, <2>6 DEF Next
<1>. QED
  BY <1>1, <1>3 DEF Overruled, OverrulingSteps

UnnamedSteps == {"idle", "locked", "gated", "intending"}
FreshSteps == {"intending", "naming", "prepared"}

\* Who writes a terminal event, and of which run.
Appends(p) ==
    \/ log' = log
    \/ /\ job' = job /\ job[p] \in RunIds
       /\ \E s \in Terminal \cup {"recovered"} :
             log' = [log EXCEPT ![job[p]] = Append(@, s)]
       /\ \/ /\ p \in Coordinators /\ p \in alive
             /\ pc[p] = "completing" /\ pc'[p] = "persisting"
          \/ /\ p \in Recoverers /\ p \in alive
             /\ pc[p] = "terminating" /\ pc'[p] = "marking"
          \/ /\ p \in Cancellers
             /\ pc[p] = "ending" /\ pc'[p] = "ending state"

\* How a coordinator comes to the steps before the event.
Approaches(p) ==
    /\ pc'[p] \in UnnamedSteps => pc[p] \in UnnamedSteps
    /\ pc'[p] \in FreshSteps =>
          job'[p] = job[p] /\ (job[p] = p \/ pc[p] \in {"intending", "naming"})
    /\ p \in alive' /\ pc'[p] \in UnwrittenSteps =>
          /\ p \in alive /\ job'[p] = job[p] /\ log' = log
          /\ pc[p] \in UnwrittenSteps \cup {"intending"} \/ log[job[p]] = <<>>

\* And how a recoverer does.
Recovers(v) ==
    /\ job'[v] = held'[v].run
    /\ v \in alive' /\ pc'[v] = "terminating" =>
          job'[v] = job[v] /\ log' = log /\ log[job[v]] = <<>>

LEMMA CoordinatorAppends ==
    ASSUME TypeOK, ResultKnown, NEW p \in Coordinators, Coordinate(p)
    PROVE  Appends(p) /\ Approaches(p)
<1>. DEFINE Ok == Appends(p) /\ Approaches(p)
<1>1. /\ pc \in [Procs -> Steps] /\ p \in Procs /\ job \in [Procs -> RunIds]
  BY Roles DEF TypeOK
<1>. USE <1>1 DEF Appends, Approaches, UnnamedSteps, FreshSteps, UnwrittenSteps, At, Goto,
                  runVars, ctlVars
<1>2. ASSUME NEW r \in Runs, Acquire(p, r) PROVE Ok
  BY <1>2 DEF Acquire, Begin
<1>3. ASSUME CheckBlock(p) PROVE Ok
  <2>1. PICK step \in {"unsafe", "gated"} : Goto(p, step)
    BY <1>3 DEF CheckBlock
  <2>. QED
    BY <1>3, <2>1 DEF CheckBlock
<1>4. ASSUME StartRun(p) \/ NameRun(p) \/ CreateRun(p) PROVE Ok
  BY <1>4 DEF StartRun, NameRun, CreateRun
<1>5. ASSUME BlockEarly(p) \/ Dispatch(p) \/ ResumeRun(p) PROVE Ok
  BY <1>5 DEF BlockEarly, Dispatch, ResumeRun
<1>6. ASSUME Replay(p) \/ Transition(p) \/ FinishRun(p) \/ ClearIntent(p) PROVE Ok
  BY <1>6 DEF Replay, Transition, FinishRun, ClearIntent
<1>7. ASSUME Complete(p) PROVE Ok
  <2>1. result[p] \in Terminal
    BY <1>7 DEF Complete, ResultKnown, FinishingSteps, TypeOK, Terminal
  <2>. QED
    BY <1>7, <2>1 DEF Complete
<1>8. ASSUME PersistFinal(p) \/ ReleaseExecution(p) \/ ReleaseLock(p) \/ Throw(p) PROVE Ok
  BY <1>8 DEF PersistFinal, ReleaseExecution, ReleaseLock, Throw
<1>9. ASSUME Attest(p) PROVE Ok
  <2>1. PICK step \in {"unlocking", "releasing"} : Goto(p, step)
    BY <1>9 DEF Attest
  <2>. QED
    BY <1>9, <2>1 DEF Attest
<1>. QED
  BY <1>2, <1>3, <1>4, <1>5, <1>6, <1>7, <1>8, <1>9 DEF Coordinate

LEMMA CancellerAppends ==
    ASSUME TypeOK, NEW c \in Cancellers, CancelStep(c)
    PROVE  Appends(c)
<1>1. CASE EndEvent(c)
  BY <1>1, Roles DEF EndEvent, At, Goto, Appends, Terminal, TypeOK, ctlVars
<1>2. CASE ~EndEvent(c)
  BY <1>2 DEF CancelStep, Cancel, InspectIntent, ReadRequest, WriteRequest, ReadEscalation,
     WriteEscalation, ReadCause, WriteCause, ObserveEnd, GraceExpired, DecideEscalation, Kill,
     EndState, EndAttestation, Appends, runVars
<1>. QED
  BY <1>1, <1>2

LEMMA RecovererAppends ==
    ASSUME TypeOK, OwnNames, NEW v \in Recoverers, RecoverStep(v)
    PROVE  Appends(v) /\ Recovers(v)
<1>. DEFINE Ok == Appends(v) /\ Recovers(v)
<1>1. /\ pc \in [Procs -> Steps] /\ v \in Procs /\ job \in [Procs -> RunIds]
      /\ held \in [Procs -> Intents] /\ job[v] = held[v].run
  BY Roles DEF TypeOK, OwnNames
<1>. USE <1>1 DEF Appends, Recovers, At, Goto, runVars, ctlVars, cancelVars
<1>2. ASSUME RecoverLock(v) PROVE Ok
  BY <1>2 DEF RecoverLock, Begin
<1>3. ASSUME ReadBlock(v) PROVE Ok
  BY <1>3 DEF ReadBlock
<1>4. ASSUME LoadLog(v) PROVE Ok
  BY <1>4 DEF LoadLog
<1>5. ASSUME RecoverEvent(v) PROVE Ok
  BY <1>5 DEF RecoverEvent, RecoveryOutcome, Terminal
<1>6. ASSUME RecoverState(v) \/ RecoverAttest(v) \/ RecoverClear(v) PROVE Ok
  BY <1>6 DEF RecoverState, RecoverAttest, RecoverClear
<1>7. ASSUME RecoverDone(v) \/ RecoverFail(v) PROVE Ok
  BY <1>7 DEF RecoverDone, RecoverFail
<1>. QED
  BY <1>2, <1>3, <1>4, <1>5, <1>6, <1>7 DEF RecoverStep

\* Whoever ends a run ends an open one, and it is nobody else's to end.
LEMMA EndAfter ==
    ASSUME Inv, CauseInv, EndInv, [Next]_vars, NEW p \in Procs, OthersStill(p), Appends(p),
           p \in Coordinators => Approaches(p),
           p \in Recoverers => Recovers(p)
    PROVE  EndInv'
<1>1. \A r : Overruled(r) => Overruled(r)'
  BY StaysOverruled DEF Inv
<1>2. \A q \in alive : pc[q] \in OwningSteps => lock = q
  BY DEF Inv, LockHeldWhileOwning
<1>3. /\ \A q \in Coordinators : q \in Procs /\ q \in Runs /\ q \notin Cancellers
      /\ \A q \in Recoverers : q \in Procs /\ q \notin Coordinators
      /\ \A r \in Runs : r \in RunIds
      /\ log \in [RunIds -> Seq(Terminal \cup {"recovered"})]
  BY Roles, OwnershipAssumption DEF Inv, TypeOK
<1>4. /\ \A q \in Procs : pc[q] \in UnwrittenSteps \cup {"terminating"}
                            /\ pc[q] # "naming" /\ pc[q] # "prepared" => pc[q] \in OwningSteps
      /\ \A q \in Procs : pc[q] \in UnwrittenSteps => pc[q] \in OwningSteps
  BY Regions DEF UnwrittenSteps
<1>5. ASSUME log' # log
      PROVE  /\ job' = job /\ job[p] \in RunIds
             /\ \E s \in Terminal \cup {"recovered"} :
                   log' = [log EXCEPT ![job[p]] = Append(@, s)]
             /\ \/ p \in Coordinators /\ p \in alive /\ pc[p] = "completing"
                   /\ pc'[p] = "persisting"
                \/ p \in Recoverers /\ p \in alive /\ pc[p] = "terminating"
                   /\ pc'[p] = "marking"
                \/ p \in Cancellers /\ pc[p] = "ending" /\ pc'[p] = "ending state"
  BY <1>5 DEF Appends
<1>6. ASSUME log' # log, job[p] \in Runs PROVE Open(job[p])
  <2>1. CASE p \in Coordinators /\ p \in alive /\ pc[p] = "completing"
    BY <2>1 DEF EndInv, OwnedOpen, UnwrittenSteps
  <2>2. CASE p \in Recoverers /\ p \in alive /\ pc[p] = "terminating"
    BY <1>6, <2>2 DEF EndInv, RecoveredOpen
  <2>3. CASE p \in Cancellers /\ pc[p] = "ending"
    BY <2>3 DEF Open, Overruled
  <2>. QED
    BY <1>5, <1>6, <2>1, <2>2, <2>3
<1>7. \A r \in RunIds : log'[r] # log[r] => log' # log /\ r = job[p]
  BY <1>3, <1>5
<1>8. ASSUME NEW q \in Coordinators \cup Recoverers, q # p, q \in alive, pc[q] \in OwningSteps,
             log' # log, job[p] = job[q]
      PROVE  Overruled(job[q])
  <2>1. p \in alive /\ pc[p] \in OwningSteps => p = q
    BY <1>2, <1>8
  <2>2. p \in Cancellers /\ pc[p] = "ending"
    BY <1>5, <1>8, <2>1, Regions
  <2>. QED
    BY <1>8, <2>2 DEF Overruled
<1>9. ASSUME NEW q, NEW r, job'[q] = r, Open(r), log'[r] = log[r] \/ Overruled(r)
       PROVE  Open(job[q])'
  <2>1. CASE Overruled(r)
    <3>1. Overruled(r)'
      BY <1>1, <2>1
    <3>. QED
      BY <1>9, <3>1 DEF Open, Overruled
  <2>2. CASE log[r] = <<>> /\ log'[r] = log[r]
    BY <1>9, <2>2 DEF Open
  <2>. QED
    BY <1>9, <2>1, <2>2 DEF Open
<1>10. Unnamed'
  <2>. SUFFICES ASSUME NEW q \in Coordinators, pc'[q] \in UnnamedSteps
                PROVE  log'[q] = <<>>
    BY DEF Unnamed, UnnamedSteps
  <2>1. pc[q] \in UnnamedSteps
    BY <1>3 DEF Approaches, OthersStill
  <2>2. log[q] = <<>> /\ state[q] = "absent" /\ \A s \in Procs : held[s].run # q
    BY <2>1 DEF EndInv, Unnamed, CauseInv, Fresh, UnnamedSteps
  <2>3. log' # log => job[p] # q
    <3>1. ASSUME job[p] = q, p \in Coordinators, pc[p] = "completing" PROVE FALSE
      BY <1>3, <2>1, <2>2, <3>1 DEF CauseInv, JobExists, UnnamedSteps
    <3>2. ASSUME job[p] = q, p \in Cancellers, pc[p] = "ending" PROVE FALSE
      BY <1>3, <2>2, <3>2 DEF CauseInv, JobExists
    <3>3. ASSUME job[p] = q, p \in Recoverers PROVE FALSE
      BY <2>2, <3>3 DEF EndInv, OwnNames
    <3>. QED
      BY <1>5, <3>1, <3>2, <3>3
  <2>. QED
    BY <1>3, <1>7, <2>2, <2>3
<1>11. OwnedOpen'
  <2>. SUFFICES ASSUME NEW q \in Coordinators, q \in alive', pc'[q] \in UnwrittenSteps
                PROVE  Open(job[q])'
    BY DEF OwnedOpen, UnwrittenSteps
  <2>1. CASE q = p
    <3>1. /\ job'[p] = job[p] /\ log' = log /\ p \in alive
          /\ pc[p] \in UnwrittenSteps \cup {"intending"} \/ log[job[p]] = <<>>
      BY <2>1 DEF Approaches
    <3>2. Open(job[p])
      BY <2>1, <3>1 DEF EndInv, OwnedOpen, Unnamed, OwnNames, Open
    <3>. QED
      BY <1>9, <2>1, <3>1, <3>2
  <2>2. CASE q # p
    <3>1. q \in alive /\ pc[q] \in UnwrittenSteps /\ job'[q] = job[q] /\ job[q] \in RunIds
      BY <1>3, <2>2 DEF OthersStill, Inv, TypeOK
    <3>2. Open(job[q])
      BY <3>1 DEF EndInv, OwnedOpen
    <3>3. log'[job[q]] # log[job[q]] => Overruled(job[q])
      BY <1>3, <1>4, <1>7, <1>8, <2>2, <3>1
    <3>. QED
      BY <1>9, <3>1, <3>2, <3>3
  <2>. QED
    BY <2>1, <2>2
<1>12. RecoveredOpen'
  <2>. SUFFICES ASSUME NEW q \in Recoverers, q \in alive', pc'[q] = "terminating",
                       job'[q] \in Runs
                PROVE  Open(job[q])'
    BY DEF RecoveredOpen
  <2>1. CASE q = p
    BY <2>1 DEF Recovers, Open
  <2>2. CASE q # p
    <3>1. q \in alive /\ pc[q] = "terminating" /\ job'[q] = job[q] /\ job[q] \in Runs
      BY <1>3, <2>2 DEF OthersStill
    <3>2. Open(job[q])
      BY <3>1 DEF EndInv, RecoveredOpen
    <3>3. log'[job[q]] # log[job[q]] => Overruled(job[q])
      BY <1>3, <1>4, <1>7, <1>8, <2>2, <3>1
    <3>. QED
      BY <1>9, <3>1, <3>2, <3>3
  <2>. QED
    BY <2>1, <2>2
<1>13. OwnNames'
  <2>1. ASSUME NEW q \in Coordinators, pc'[q] \in {"intending", "naming", "prepared"}
        PROVE  job'[q] = q
    <3>1. CASE q = p
      BY <2>1, <3>1 DEF Approaches, FreshSteps, EndInv, OwnNames
    <3>2. CASE q # p
      BY <1>3, <2>1, <3>2 DEF OthersStill, EndInv, OwnNames
    <3>. QED
      BY <3>1, <3>2
  <2>2. ASSUME NEW v \in Recoverers PROVE job'[v] = held'[v].run
    BY <1>3 DEF OthersStill, EndInv, OwnNames, Recovers
  <2>. QED
    BY <2>1, <2>2 DEF OwnNames
<1>14. OneTerminalEvent'
  <2>. SUFFICES ASSUME NEW r \in Runs, ~Overruled(r)' PROVE Len(log'[r]) <= 1
    BY DEF OneTerminalEvent
  <2>1. ~Overruled(r) /\ r \in RunIds
    BY <1>1, <1>3
  <2>2. CASE log'[r] = log[r]
    BY <2>1, <2>2 DEF EndInv, OneTerminalEvent
  <2>3. CASE log'[r] # log[r]
    <3>1. log' # log /\ r = job[p]
      BY <1>7, <2>1, <2>3
    <3>2. log[r] = <<>>
      BY <1>6, <2>1, <3>1 DEF Open
    <3>3. PICK s \in Terminal \cup {"recovered"} : log'[r] = Append(log[r], s)
      BY <1>3, <1>5, <2>1, <3>1
    <3>. QED
      BY <3>2, <3>3
  <2>. QED
    BY <2>2, <2>3
<1>. QED
  BY <1>10, <1>11, <1>12, <1>13, <1>14 DEF EndInv

\* Every step keeps what makes the end of a run unique.
LEMMA EndStep ==
    ASSUME Inv, CauseInv, EndInv, [Next]_vars
    PROVE  EndInv'
<1>. USE OwnershipAssumption DEF Inv, Procs
<1>1. ASSUME NEW p \in Coordinators, Coordinate(p) PROVE EndInv'
  BY <1>1, CoordinatorFrame, CoordinatorAppends, EndAfter
<1>2. ASSUME NEW c \in Cancellers, CancelStep(c) PROVE EndInv'
  BY <1>2, CancellerFrame, CancellerAppends, EndAfter DEF Aside
<1>3. ASSUME NEW v \in Recoverers, RecoverStep(v) PROVE EndInv'
  BY <1>3, RecovererFrame, RecovererAppends, EndAfter DEF Aside, EndInv
<1>4. ASSUME NEW o \in Reporters, Probe(o) \/ Unprobe(o) PROVE EndInv'
  <2>1. OthersStill(o) /\ log' = log
    BY <1>4 DEF Probe, Unprobe, Begin, Goto, TypeOK, OthersStill, runVars, ctlVars, cancelVars
  <2>. QED
    BY <1>4, <2>1, EndAfter DEF Appends
<1>5. ASSUME UNCHANGED <<pc, job, held, log>>, alive' \subseteq alive PROVE EndInv'
  BY <1>5 DEF EndInv, Unnamed, OwnedOpen, RecoveredOpen, OwnNames, OneTerminalEvent, Open,
     Overruled
<1>. QED
  BY <1>1, <1>2, <1>3, <1>4, <1>5 DEF Next, Die, LosePower, vars, runVars, ctlVars

LEMMA EndInvariance == Spec => [](Inv /\ CauseInv /\ EndInv)
<1>1. Init => CauseInv /\ EndInv
  BY InitCause, InitEnd
<1>2. Inv /\ CauseInv /\ EndInv /\ [Next]_vars => CauseInv' /\ EndInv'
  BY CauseStep, EndStep DEF Inv
<1>. QED
  BY <1>1, <1>2, Invariance, PTL DEF Spec

\* Through any sequence of crashes, resumes, recoveries and cancellations a
\* run gets one RUN_COMPLETED, unless a canceller wrote one behind its
\* owner's back (finalize, writeTerminalEvent, finalizeCancelled).
THEOREM RunEndsOnce == Spec => []OneTerminalEvent
<1>1. EndInv => OneTerminalEvent
  BY DEF EndInv
<1>. QED
  BY <1>1, EndInvariance, PTL

\* A state.json that says a run is over never says running again.
THEOREM EndIsFinal == Spec => FinishedStaysFinished
<1>1. ASSUME Inv, CauseInv, EndInv, [Next]_vars, NEW r \in Runs, state[r] \in Terminal
      PROVE  Overruled(r) \/ state'[r] \in Terminal
  <2>. SUFFICES ASSUME ~Overruled(r) PROVE state'[r] \in Terminal
    OBVIOUS
  <2>1. /\ log[r] # <<>> /\ "running" \notin Terminal /\ "absent" \notin Terminal
        /\ "cancelled" \in Terminal
        /\ state \in [Runs -> {"absent", "created", "running"} \cup Terminal]
    BY <1>1, OwnershipAssumption DEF Inv, EventFirst, Terminal, TypeOK
  <2>2. ASSUME NEW p \in Coordinators, Coordinate(p) PROVE state'[r] \in Terminal
    <3>1. CASE CreateRun(p)
      <4>1. state[p] = "absent"
        BY <1>1, <3>1 DEF CreateRun, At, CauseInv, Fresh
      <4>. QED
        BY <1>1, <2>1, <3>1, <4>1 DEF CreateRun
    <3>2. CASE Transition(p)
      <4>1. Open(job[p])
        BY <1>1, <3>2 DEF Transition, At, EndInv, OwnedOpen, UnwrittenSteps
      <4>2. job[p] # r
        BY <2>1, <4>1 DEF Open
      <4>. QED
        BY <1>1, <2>1, <3>2, <4>2 DEF Transition
    <3>3. CASE PersistFinal(p)
      <4>1. result[p] \in Terminal
        BY <1>1, <3>3 DEF PersistFinal, At, Inv, ResultKnown, FinishingSteps, TypeOK, Terminal
      <4>. QED
        BY <1>1, <2>1, <3>3, <4>1 DEF PersistFinal
    <3>4. CASE ~(CreateRun(p) \/ Transition(p) \/ PersistFinal(p))
      BY <1>1, <2>2, <3>4 DEF Coordinate, Acquire, CheckBlock, StartRun, NameRun, BlockEarly,
         Dispatch, ResumeRun, Replay, FinishRun, ClearIntent, Complete, Attest, ReleaseExecution,
         ReleaseLock, Throw, runVars
    <3>. QED
      BY <3>1, <3>2, <3>3, <3>4
  <2>3. ASSUME NEW c \in Cancellers, CancelStep(c) PROVE state'[r] \in Terminal
    <3>1. CASE EndState(c)
      BY <1>1, <2>1, <3>1 DEF EndState
    <3>2. CASE ~EndState(c)
      BY <1>1, <2>3, <3>2 DEF CancelStep, Cancel, InspectIntent, ReadRequest, WriteRequest,
         ReadEscalation, WriteEscalation, ReadCause, WriteCause, ObserveEnd, GraceExpired,
         DecideEscalation, Kill, EndEvent, EndAttestation, runVars
    <3>. QED
      BY <3>1, <3>2
  <2>4. ASSUME NEW v \in Recoverers, RecoverStep(v) PROVE state'[r] \in Terminal
    <3>1. CASE RecoverState(v)
      BY <1>1, <2>1, <3>1 DEF RecoverState
    <3>2. CASE ~RecoverState(v)
      BY <1>1, <2>4, <3>2 DEF RecoverStep, RecoverLock, ReadBlock, LoadLog, RecoverEvent,
         RecoverAttest, RecoverClear, RecoverDone, RecoverFail, runVars
    <3>. QED
      BY <3>1, <3>2
  <2>5. state' = state => state'[r] \in Terminal
    BY <1>1
  <2>. QED
    BY <1>1, <2>2, <2>3, <2>4, <2>5 DEF Next, Probe, Unprobe, Die, LosePower, vars, runVars
<1>2. Inv /\ CauseInv /\ EndInv /\ [Next]_vars =>
        [\A r \in Runs : state[r] \in Terminal => Overruled(r) \/ state'[r] \in Terminal]_vars
  BY <1>1
<1>. QED
  BY <1>2, EndInvariance, PTL DEF Spec, FinishedStaysFinished

-----------------------------------------------------------------------------
(* The block of an interrupted run.  While the record names the run nobody *)
(* gets past the door, and recovery lifts the block only after it ended    *)
(* the run; a canceller that writes another record over it had read that   *)
(* one, and nobody writes the first one back.                              *)

\* A coordinator past the door may replace or lift the block.
PastDoor == {"gated"} \cup CoveredSteps

\* Recovery has written the terminal event, or found one.
LiftingSteps == {"marking", "re-attesting", "unblocking"}

\* The block names the run of p, and whoever could change that is at bay.
Guarded(p) ==
    /\ Names(intent, job[p])
    /\ \A q \in Coordinators : q # p /\ q \in alive => pc[q] \notin PastDoor
    /\ \A v \in Recoverers :
          v \in alive => /\ pc[v] \in {"loading", "terminating"} => job[v] = job[p]
                         /\ pc[v] \notin LiftingSteps

\* A canceller that held another record has overwritten the block.
Overwritten(p) ==
    /\ ~Names(intent, job[p])
    /\ \E c \in Cancellers : held[c].kind = "ok" /\ held[c].run # job[p]
    /\ \A c \in Cancellers : c \in alive /\ pc[c] \in WritingSteps => ~Names(held[c], job[p])

Marked == \A p \in Coordinators : Unfinished(p) => Guarded(p) \/ Overwritten(p)

\* The new run of a live coordinator has its execution lock before its name.
LockNamed == \A p \in Coordinators : p \in alive /\ pc[p] = "intending" => execLock[p] = p

\* A coordinator that started works on a run.
HasJob == \A p \in Coordinators : pc[p] # "idle" => job[p] \in Runs

MarkInv == Marked /\ LockNamed /\ HasJob

LEMMA InitMark == Init => MarkInv
BY Roles DEF Init, MarkInv, Marked, LockNamed, HasJob, Unfinished, NamedSteps, CoveredSteps

\* The steps past the door, one by one.
LEMMA Doors ==
    /\ PastDoor = {"gated", "intending", "naming", "prepared", "replaying", "driving", "clearing"}
    /\ NamedSteps = {"naming", "prepared", "replaying", "driving", "clearing"}
    /\ PastDoor \subseteq OwningSteps /\ NamedSteps \subseteq PastDoor
BY DEF PastDoor, NamedSteps, CoveredSteps, OwningSteps, CoordinatorSteps

\* How a coordinator gets past the door, and what it does there to the
\* record and to the execution locks.
DoorUse(q) ==
    /\ pc'[q] \in PastDoor =>
          /\ q \in alive /\ job' = job
          /\ pc[q] \in PastDoor \/ (pc[q] = "locked" /\ pc'[q] = "gated" /\ intent.kind # "ok")
    /\ intent' # intent => q \in alive /\ pc[q] \in PastDoor
    /\ \/ intent' = intent \/ intent' = Absent \/ intent' = Record(NoRun, q)
       \/ pc[q] = "intending" /\ intent' = [intent EXCEPT !.run = q]
       \/ job[q] \in Runs /\ intent' = Record(job[q], q) /\ execLock'[job[q]] = q

LockUpdate(q) ==
    /\ execLock' # execLock => q \in alive /\ pc[q] \in OwningSteps
    /\ \A r \in Runs : execLock'[r] \in {execLock[r], q, NoProc}
    /\ pc'[q] = "intending" => execLock'[q] = q

\* How it comes to the steps where the record names its run.
NamesRun(q) ==
    pc'[q] \in NamedSteps =>
       \/ pc[q] \in NamedSteps /\ UNCHANGED <<intent, execLock>>
       \/ q \in alive /\ pc[q] = "intending" /\ UNCHANGED execLock
          /\ (intent.kind = "ok" => intent' = [intent EXCEPT !.run = q])
       \/ q \in alive /\ pc[q] = "gated" /\ intent' = Record(job[q], q)

LEMMA CoordinatorDoor ==
    ASSUME TypeOK, HasJob, NEW q \in Coordinators, Coordinate(q)
    PROVE  /\ DoorUse(q) /\ LockUpdate(q) /\ NamesRun(q)
           /\ pc'[q] # "idle" /\ job'[q] \in Runs
<1>. DEFINE Ok == /\ DoorUse(q) /\ LockUpdate(q) /\ NamesRun(q)
                  /\ pc'[q] # "idle" /\ job'[q] \in Runs
<1>1. /\ pc \in [Procs -> Steps] /\ q \in Procs /\ q \in Runs /\ job \in [Procs -> RunIds]
      /\ execLock \in [Runs -> Procs \cup {NoProc}]
      /\ pc[q] # "idle" => job[q] \in Runs
  BY Roles DEF TypeOK, HasJob
<1>. USE <1>1, Doors, Regions DEF DoorUse, LockUpdate, NamesRun, At, Goto, ownVars, runVars, ctlVars
<1>2. ASSUME NEW r \in Runs, Acquire(q, r) PROVE Ok
  BY <1>2 DEF Acquire, Begin
<1>3. ASSUME CheckBlock(q) PROVE Ok
  BY <1>3 DEF CheckBlock
<1>4. ASSUME StartRun(q) PROVE Ok
  BY <1>4 DEF StartRun
<1>5. ASSUME NameRun(q) PROVE Ok
  BY <1>5 DEF NameRun
<1>6. ASSUME CreateRun(q) \/ BlockEarly(q) \/ Dispatch(q) PROVE Ok
  BY <1>6 DEF CreateRun, BlockEarly, Dispatch
<1>7. ASSUME ResumeRun(q) PROVE Ok
  BY <1>7 DEF ResumeRun
<1>8. ASSUME Replay(q) \/ Transition(q) \/ FinishRun(q) PROVE Ok
  BY <1>8 DEF Replay, Transition, FinishRun
<1>9. ASSUME ClearIntent(q) \/ Complete(q) \/ PersistFinal(q) PROVE Ok
  BY <1>9 DEF ClearIntent, Complete, PersistFinal
<1>10. ASSUME Attest(q) PROVE Ok
  <2>1. PICK step \in {"unlocking", "releasing"} : Goto(q, step)
    BY <1>10 DEF Attest
  <2>. QED
    BY <1>10, <2>1 DEF Attest
<1>11. ASSUME ReleaseExecution(q) PROVE Ok
  BY <1>11 DEF ReleaseExecution
<1>12. ASSUME ReleaseLock(q) \/ Throw(q) PROVE Ok
  BY <1>12 DEF ReleaseLock, Throw, CoordinatorSteps
<1>. QED
  BY <1>2, <1>3, <1>4, <1>5, <1>6, <1>7, <1>8, <1>9, <1>10, <1>11, <1>12 DEF Coordinate

\* A log that is empty was empty before.
LEMMA StillEmpty ==
    ASSUME TypeOK, NEW p \in Procs, Appends(p)
    PROVE  \A r \in RunIds : log'[r] = <<>> => log[r] = <<>>
<1>1. CASE log' = log
  BY <1>1
<1>2. ASSUME NEW s \in Terminal \cup {"recovered"}, job[p] \in RunIds,
             log' = [log EXCEPT ![job[p]] = Append(@, s)]
      PROVE  \A r \in RunIds : log'[r] = <<>> => log[r] = <<>>
  BY <1>2, Appended
<1>. QED
  BY <1>1, <1>2, Zenon DEF Appends

\* A coordinator that keeps the block keeps it marked.
LEMMA CoordinatorMark ==
    ASSUME Inv, EndInv, MarkInv, NEW q \in Coordinators, Coordinate(q)
    PROVE  MarkInv'
<1>1. /\ OthersStill(q) /\ held' = held
      /\ DoorUse(q) /\ LockUpdate(q) /\ NamesRun(q) /\ pc'[q] # "idle" /\ job'[q] \in Runs
      /\ \A r \in RunIds : log'[r] = <<>> => log[r] = <<>>
  BY CoordinatorFrame, CoordinatorDoor, CoordinatorAppends, StillEmpty, Roles DEF Inv, MarkInv
<1>2. \A p \in Coordinators \cup Cancellers \cup Recoverers : p \in Procs
  BY Roles, Zenon
<1>3. \A p \in Coordinators : p \in Runs /\ p \in RunIds /\ p # NoProc /\ p # NoRun
  BY Roles, OwnershipAssumption, Zenon
<1>4. HasJob'
  BY <1>1, <1>2 DEF MarkInv, HasJob, OthersStill
<1>5. ASSUME NEW p \in Procs, p \in alive, pc[p] \in OwningSteps, p # q
      PROVE  ~(q \in alive /\ pc[q] \in OwningSteps)
  BY <1>5 DEF Inv, LockHeldWhileOwning
<1>6. LockNamed'
  <2>. SUFFICES ASSUME NEW p \in Coordinators, p \in alive', pc'[p] = "intending"
                PROVE  execLock'[p] = p
    BY DEF LockNamed
  <2>1. CASE p = q
    BY <1>1, <2>1 DEF LockUpdate
  <2>2. CASE p # q
    <3>1. p \in alive /\ pc[p] = "intending" /\ execLock[p] = p
      BY <1>1, <1>2, <2>2 DEF OthersStill, MarkInv, LockNamed
    <3>2. execLock' = execLock
      BY <1>1, <1>2, <1>5, <2>2, <3>1, Regions DEF LockUpdate
    <3>. QED
      BY <3>1, <3>2
  <2>. QED
    BY <2>1, <2>2
<1>7. ASSUME NEW p \in Coordinators, Unfinished(p)' PROVE Guarded(p)' \/ Overwritten(p)'
  <2>1. pc'[p] \in NamedSteps /\ execLock'[job'[p]] = p /\ log'[job'[p]] = <<>>
    BY <1>7 DEF Unfinished
  <2>2. CASE p = q
    <3>1. q \in alive /\ job' = job /\ job[q] \in Runs
      BY <1>1, <2>1, <2>2, Doors DEF DoorUse
    <3>2. CASE pc[q] \in NamedSteps /\ UNCHANGED <<intent, execLock>>
      <4>1. Unfinished(q)
        BY <1>1, <2>1, <2>2, <3>1, <3>2, Roles DEF Unfinished
      <4>2. Guarded(q) \/ Overwritten(q)
        BY <4>1 DEF MarkInv, Marked
      <4>3. ASSUME Guarded(q) PROVE Guarded(q)'
        BY <1>1, <1>2, <3>1, <3>2, <4>3, Roles, OwnershipAssumption
           DEF Guarded, OthersStill, Names
      <4>4. ASSUME Overwritten(q) PROVE Overwritten(q)'
        BY <1>1, <1>2, <3>1, <3>2, <4>4, Roles DEF Overwritten, OthersStill, Names
      <4>. QED
        BY <2>2, <4>2, <4>3, <4>4
    <3>3. CASE pc[q] \in OwningSteps /\ Names(intent, job[q])'
      <4>1. ASSUME NEW r \in Coordinators, r # q, r \in alive' PROVE pc'[r] \notin PastDoor
        BY <1>1, <1>2, <1>5, <3>1, <3>3, <4>1, Doors DEF OthersStill
      <4>2. ASSUME NEW v \in Recoverers, v \in alive'
            PROVE  pc'[v] \notin {"loading", "terminating"} \cup LiftingSteps
        <5>1. v # q /\ v \in alive /\ pc'[v] = pc[v]
          BY <1>1, <1>2, <4>2, Roles DEF OthersStill
        <5>. QED
          BY <1>2, <1>5, <3>1, <3>3, <5>1, Regions DEF LiftingSteps
      <4>. QED
        BY <2>2, <3>3, <4>1, <4>2 DEF Guarded
    <3>4. CASE pc[q] = "intending" /\ (intent.kind = "ok" => intent' = [intent EXCEPT !.run = q])
      <4>1. intent.kind = "ok" /\ job[q] = q /\ intent \in Intents
        BY <3>1, <3>4 DEF Inv, BlockCoversWork, CoveredSteps, EndInv, OwnNames, TypeOK
      <4>2. Names(intent, job[q])'
        BY <3>1, <3>4, <4>1 DEF Names, Intents
      <4>. QED
        BY <3>3, <3>4, <4>2, Regions
    <3>5. CASE pc[q] = "gated" /\ intent' = Record(job[q], q)
      <4>1. Names(intent, job[q])'
        BY <3>1, <3>5 DEF Names, Record
      <4>. QED
        BY <3>3, <3>5, <4>1, Regions
    <3>. QED
      BY <1>1, <2>1, <2>2, <3>2, <3>4, <3>5 DEF NamesRun
  <2>3. CASE p # q
    <3>1. /\ pc'[p] = pc[p] /\ job'[p] = job[p] /\ job[p] \in Runs
          /\ pc[p] # "idle"
      BY <1>1, <1>2, <2>1, <2>3, Doors DEF OthersStill, MarkInv, HasJob
    <3>2. Unfinished(p)
      BY <1>1, <1>3, <2>1, <2>3, <3>1, Roles DEF Unfinished, LockUpdate
    <3>3. Guarded(p) \/ Overwritten(p)
      BY <3>2 DEF MarkInv, Marked
    <3>4. ASSUME Guarded(p) PROVE Guarded(p)'
      <4>1. ~(q \in alive /\ pc[q] \in PastDoor) /\ intent.kind = "ok"
        BY <2>3, <3>4 DEF Guarded, Names
      <4>2. intent' = intent /\ pc'[q] \notin PastDoor
        BY <1>1, <4>1 DEF DoorUse
      <4>3. \A v \in Recoverers : v # q
        BY Roles
      <4>. QED
        BY <1>1, <1>2, <3>1, <3>4, <4>2, <4>3 DEF Guarded, OthersStill, Names
    <3>5. ASSUME Overwritten(p) PROVE Overwritten(p)'
      <4>1. ~Names(intent, job[p])'
        <5>1. CASE intent' = intent \/ intent' = Absent \/ intent' = Record(NoRun, q)
          BY <3>1, <3>5, <5>1, OwnershipAssumption DEF Overwritten, Names, Absent, Record, Runs
        <5>2. CASE pc[q] = "intending" /\ intent' = [intent EXCEPT !.run = q] /\ intent' # intent
          <6>1. execLock[q] = q
            BY <1>1, <5>2 DEF DoorUse, MarkInv, LockNamed
          <6>2. job[p] # q
            BY <2>3, <3>2, <6>1 DEF Unfinished
          <6>3. intent \in Intents
            BY DEF Inv, TypeOK
          <6>. QED
            BY <3>1, <5>2, <6>2, <6>3 DEF Names, Intents
        <5>3. CASE job[q] \in Runs /\ intent' = Record(job[q], q) /\ execLock'[job[q]] = q
          BY <2>1, <2>3, <3>1, <5>3 DEF Names, Record
        <5>. QED
          BY <1>1, <5>1, <5>2, <5>3 DEF DoorUse
      <4>2. \A c \in Cancellers : c # q
        BY Roles
      <4>. QED
        BY <1>1, <1>2, <3>1, <3>5, <4>1, <4>2 DEF Overwritten, OthersStill, Names
    <3>. QED
      BY <3>3, <3>4, <3>5
  <2>. QED
    BY <2>2, <2>3
<1>. QED
  BY <1>4, <1>6, <1>7 DEF MarkInv, Marked

\* Somebody else moves: coordinators keep step, run and execution lock.
LEMMA AsideMark ==
    ASSUME TypeOK, MarkInv, NEW x \in Procs \ Coordinators, Aside(x), Appends(x),
           \A p \in Coordinators : Guarded(p) /\ Unfinished(p) /\ Unfinished(p)'
               => Guarded(p)' \/ Overwritten(p)',
           \A p \in Coordinators : Overwritten(p) => Overwritten(p)'
    PROVE  MarkInv'
<1>1. \A p \in Coordinators : /\ p \in Procs /\ pc'[p] = pc[p] /\ job'[p] = job[p]
                              /\ p \in alive' => p \in alive
  BY Roles DEF Aside, OthersStill
<1>2. execLock' = execLock
  BY DEF Aside
<1>3. \A r \in RunIds : log'[r] = <<>> => log[r] = <<>>
  BY StillEmpty
<1>4. LockNamed' /\ HasJob'
  BY <1>1, <1>2 DEF MarkInv, LockNamed, HasJob
<1>5. ASSUME NEW p \in Coordinators, Unfinished(p)' PROVE Unfinished(p)
  <2>1. job[p] \in RunIds
    BY <1>1 DEF TypeOK
  <2>. QED
    BY <1>1, <1>2, <1>3, <1>5, <2>1 DEF Unfinished
<1>6. Marked'
  BY <1>5 DEF MarkInv, Marked
<1>. QED
  BY <1>4, <1>6 DEF MarkInv

LEMMA CancellerMark ==
    ASSUME Inv, CauseInv, MarkInv, Readable', NEW c \in Cancellers, CancelStep(c)
    PROVE  MarkInv'
<1>1. Aside(c) /\ OthersStill(c) /\ CancelUse(c) /\ Appends(c)
  BY CancellerFrame, CancellerUse, CancellerAppends DEF Inv, CauseInv, Aside
<1>2. /\ c \in Procs /\ c \notin Coordinators /\ c \notin Recoverers
      /\ \A q \in Coordinators \cup Cancellers \cup Recoverers : q \in Procs
  BY Roles, OwnershipAssumption, Zenon
<1>3. held \in [Procs -> Intents]
  BY DEF Inv, TypeOK
<1>4. \A p \in Coordinators : pc'[p] = pc[p] /\ job'[p] = job[p] /\ (p \in alive' => p \in alive)
  BY <1>1, <1>2 DEF OthersStill
<1>5. \A v \in Recoverers : pc'[v] = pc[v] /\ job'[v] = job[v] /\ (v \in alive' => v \in alive)
  BY <1>1, <1>2 DEF OthersStill
<1>6. ASSUME NEW b \in Cancellers, b \in alive', pc'[b] \in WritingSteps, b # c
      PROVE  b \in alive /\ pc[b] \in WritingSteps /\ arb = b /\ held'[b] = held[b]
  BY <1>1, <1>2, <1>6 DEF OthersStill, CauseInv, Arbitrated
\* What it wrote, if it wrote.
<1>7. ASSUME intent' # intent
      PROVE  /\ c \in alive /\ pc[c] \in WritingSteps /\ pc'[c] \notin WritingSteps
             /\ held' = held /\ held[c].kind = "ok" /\ arb = c
             /\ intent'.run = held[c].run /\ intent'.kind = "ok"
  <2>1. /\ c \in alive /\ pc[c] \in WritingSteps /\ pc'[c] \notin WritingSteps /\ held' = held
        /\ \E k \in Causes : intent' = [held[c] EXCEPT !.cause = k]
    BY <1>1, <1>7 DEF CancelUse, WritingSteps, Causes
  <2>2. held[c] \in Intents /\ held[c].kind = "ok" /\ arb = c
    BY <1>2, <1>3, <2>1 DEF Inv, Readable, WritingSteps, CauseInv, Arbitrated
  <2>. QED
    BY <2>1, <2>2 DEF Intents
\* What it read, if it read.
<1>8. ASSUME held' # held
      PROVE  /\ intent' = intent /\ held' = [held EXCEPT ![c] = intent]
             /\ intent.kind = "ok"
  <2>1. intent' = intent /\ held' = [held EXCEPT ![c] = intent] /\ pc'[c] \in WritingSteps
    BY <1>1, <1>8 DEF CancelUse, WritingSteps
  <2>2. held'[c].kind = "ok"
    BY <2>1 DEF Readable, WritingSteps
  <2>. QED
    BY <1>2, <1>3, <2>1, <2>2
<1>9. ASSUME NEW p \in Coordinators, Guarded(p) PROVE Guarded(p)' \/ Overwritten(p)'
  <2>1. CASE Names(intent, job[p])'
    BY <1>4, <1>5, <1>9, <2>1 DEF Guarded
  <2>2. CASE ~Names(intent, job[p])'
    <3>1. intent' # intent
      BY <1>4, <1>9, <2>2 DEF Guarded, Names
    <3>2. held'[c].kind = "ok" /\ held'[c].run # job'[p]
      BY <1>7, <2>2, <3>1 DEF Names
    <3>3. \A b \in Cancellers : ~(b \in alive' /\ pc'[b] \in WritingSteps)
      BY <1>6, <1>7, <3>1
    <3>. QED
      BY <2>2, <3>2, <3>3 DEF Overwritten
  <2>. QED
    BY <2>1, <2>2
<1>10. ASSUME NEW p \in Coordinators, Overwritten(p) PROVE Overwritten(p)'
  <2>1. PICK b \in Cancellers : held[b].kind = "ok" /\ held[b].run # job[p]
    BY <1>10 DEF Overwritten
  <2>2. ~Names(intent, job[p])'
    BY <1>4, <1>7, <1>10 DEF Overwritten, Names
  <2>3. held'[b].kind = "ok" /\ held'[b].run # job'[p]
    <3>1. CASE held' = held
      BY <1>4, <2>1, <3>1
    <3>2. CASE held' # held
      <4>1. held'[b] = held[b] \/ held'[b] = intent
        BY <1>2, <1>3, <1>8, <3>2
      <4>. QED
        BY <1>4, <1>8, <2>1, <2>2, <3>2, <4>1 DEF Names
    <3>. QED
      BY <3>1, <3>2
  <2>4. ASSUME NEW d \in Cancellers, d \in alive', pc'[d] \in WritingSteps
        PROVE  ~Names(held[d], job[p])'
    <3>1. CASE d # c
      BY <1>4, <1>6, <1>10, <2>4, <3>1 DEF Overwritten, Names
    <3>2. CASE d = c
      <4>1. held'[c] = intent
        BY <1>1, <1>2, <1>3, <2>4, <3>2 DEF CancelUse, WritingSteps
      <4>. QED
        BY <1>4, <1>10, <3>2, <4>1 DEF Overwritten, Names
    <3>. QED
      BY <3>1, <3>2
  <2>. QED
    BY <2>2, <2>3, <2>4 DEF Overwritten
<1>. QED
  BY <1>1, <1>2, <1>9, <1>10, AsideMark DEF Inv

LEMMA RecovererMark ==
    ASSUME Inv, EndInv, MarkInv, NEW v \in Recoverers, RecoverStep(v)
    PROVE  MarkInv'
<1>1. Aside(v) /\ OthersStill(v) /\ Appends(v)
  BY RecovererFrame, RecovererAppends DEF Inv, EndInv, Aside
<1>2. /\ v \in Procs /\ v \notin Coordinators /\ v \notin Cancellers
      /\ \A q \in Coordinators \cup Cancellers \cup Recoverers : q \in Procs
  BY Roles, OwnershipAssumption, Zenon
<1>3. \A q \in Coordinators \cup Cancellers :
         /\ pc'[q] = pc[q] /\ job'[q] = job[q] /\ held'[q] = held[q]
         /\ q \in alive' => q \in alive
  BY <1>1, <1>2 DEF OthersStill
<1>4. pc \in [Procs -> Steps] /\ job \in [Procs -> RunIds] /\ log \in [RunIds -> Seq(Terminal \cup {"recovered"})]
  BY DEF Inv, TypeOK
\* How it comes to the steps between the record and the lifting of the block.
<1>5. /\ intent' = intent \/ (intent' = Absent /\ v \in alive /\ pc[v] = "unblocking")
      /\ pc'[v] = "loading" => job'[v] = intent.run
      /\ pc'[v] = "terminating" => v \in alive /\ pc[v] = "loading" /\ job' = job
      /\ pc'[v] = "marking" => v \in alive /\ pc[v] = "terminating" /\ log'[job[v]] # <<>>
      /\ pc'[v] = "re-attesting" => /\ v \in alive
                                    /\ \/ pc[v] = "loading" /\ log[job[v]] # <<>> /\ log' = log
                                       \/ pc[v] = "marking"
      /\ pc'[v] = "unblocking" => v \in alive /\ pc[v] = "re-attesting"
  <2>. DEFINE Ok ==
      /\ intent' = intent \/ (intent' = Absent /\ v \in alive /\ pc[v] = "unblocking")
      /\ pc'[v] = "loading" => job'[v] = intent.run
      /\ pc'[v] = "terminating" => v \in alive /\ pc[v] = "loading" /\ job' = job
      /\ pc'[v] = "marking" => v \in alive /\ pc[v] = "terminating" /\ log'[job[v]] # <<>>
      /\ pc'[v] = "re-attesting" => /\ v \in alive
                                    /\ \/ pc[v] = "loading" /\ log[job[v]] # <<>> /\ log' = log
                                       \/ pc[v] = "marking"
      /\ pc'[v] = "unblocking" => v \in alive /\ pc[v] = "re-attesting"
  <2>. USE <1>2, <1>4 DEF At, Goto, ownVars, runVars, ctlVars
  <2>1. ASSUME RecoverLock(v) PROVE Ok
    BY <2>1 DEF RecoverLock
  <2>2. ASSUME ReadBlock(v) PROVE Ok
    BY <2>2 DEF ReadBlock
  <2>3. ASSUME LoadLog(v) PROVE Ok
    BY <2>3 DEF LoadLog
  <2>4. ASSUME RecoverEvent(v) PROVE Ok
    <3>1. /\ RecoveryOutcome(held[v].cause) \in Terminal \cup {"recovered"} /\ job[v] \in RunIds
          /\ log' = [log EXCEPT ![job[v]] = Append(@, RecoveryOutcome(held[v].cause))]
      BY <2>4 DEF RecoverEvent, RecoveryOutcome, Terminal
    <3>2. log'[job[v]] # <<>>
      BY <3>1, Appended DEF Inv
    <3>. QED
      BY <2>4, <3>2 DEF RecoverEvent
  <2>5. ASSUME RecoverState(v) \/ RecoverAttest(v) PROVE Ok
    BY <2>5 DEF RecoverState, RecoverAttest
  <2>6. ASSUME RecoverClear(v) \/ RecoverDone(v) \/ RecoverFail(v) PROVE Ok
    BY <2>6 DEF RecoverClear, RecoverDone, RecoverFail
  <2>. QED
    BY <2>1, <2>2, <2>3, <2>4, <2>5, <2>6 DEF RecoverStep
<1>6. ASSUME NEW p \in Coordinators, Guarded(p), Unfinished(p), Unfinished(p)' PROVE Guarded(p)'
  <2>1. /\ v \in alive => /\ pc[v] \in {"loading", "terminating"} => job[v] = job[p]
                          /\ pc[v] \notin LiftingSteps
        /\ log[job[p]] = <<>> /\ log'[job[p]] = <<>> /\ intent.run = job[p]
    BY <1>3, <1>6 DEF Guarded, Unfinished, Names
  <2>2. Names(intent, job[p])'
    BY <1>3, <1>5, <1>6, <2>1 DEF Guarded, Names, LiftingSteps
  <2>3. \A q \in Coordinators : q # p /\ q \in alive' => pc'[q] \notin PastDoor
    BY <1>3, <1>6 DEF Guarded
  <2>4. ASSUME NEW w \in Recoverers, w \in alive'
        PROVE  /\ pc'[w] \in {"loading", "terminating"} => job'[w] = job'[p]
               /\ pc'[w] \notin LiftingSteps
    <3>1. CASE w # v
      BY <1>1, <1>2, <1>3, <1>6, <2>4, <3>1 DEF OthersStill, Guarded
    <3>2. CASE w = v
      BY <1>3, <1>5, <2>1, <3>2 DEF LiftingSteps
    <3>. QED
      BY <3>1, <3>2
  <2>. QED
    BY <2>2, <2>3, <2>4 DEF Guarded
<1>7. ASSUME NEW p \in Coordinators, Overwritten(p) PROVE Overwritten(p)'
  <2>1. ~Names(intent, job[p])'
    BY <1>3, <1>5, <1>7 DEF Overwritten, Names, Absent
  <2>. QED
    BY <1>3, <1>7, <2>1 DEF Overwritten, Names
<1>. QED
  BY <1>1, <1>2, <1>6, <1>7, AsideMark DEF Inv

\* Nobody who matters here moves, or all of it does at once.
LEMMA QuietMark ==
    ASSUME MarkInv, UNCHANGED <<intent, execLock, log>>,
           \A q \in Coordinators \cup Cancellers \cup Recoverers :
              /\ pc'[q] = pc[q] /\ job'[q] = job[q] /\ held'[q] = held[q]
              /\ q \in alive' => q \in alive
    PROVE  MarkInv'
<1>1. \A p \in Coordinators : Unfinished(p)' => Unfinished(p)
  BY DEF Unfinished
<1>2. \A p \in Coordinators : Guarded(p) => Guarded(p)'
  BY DEF Guarded, Names
<1>3. \A p \in Coordinators : Overwritten(p) => Overwritten(p)'
  BY DEF Overwritten, Names
<1>. QED
  BY <1>1, <1>2, <1>3 DEF MarkInv, Marked, LockNamed, HasJob

LEMMA MarkStep ==
    ASSUME ~PowerLoss, Inv, CauseInv, EndInv, MarkInv, [Next]_vars
    PROVE  MarkInv'
<1>1. ASSUME NEW p \in Coordinators, Coordinate(p) PROVE MarkInv'
  BY <1>1, CoordinatorMark
<1>2. ASSUME NEW c \in Cancellers, CancelStep(c) PROVE MarkInv'
  <2>1. Readable'
    BY <1>2, ReadableStep DEF Inv, Next
  <2>. QED
    BY <1>2, <2>1, CancellerMark
<1>3. ASSUME NEW v \in Recoverers, RecoverStep(v) PROVE MarkInv'
  BY <1>3, RecovererMark
<1>4. ASSUME NEW o \in Reporters, Probe(o) \/ Unprobe(o) PROVE MarkInv'
  <2>1. OthersStill(o) /\ UNCHANGED <<intent, execLock, log>>
    BY <1>4 DEF Probe, Unprobe, Begin, Goto, Inv, TypeOK, OthersStill, runVars, ctlVars, cancelVars
  <2>2. ASSUME NEW q \in Coordinators \cup Cancellers \cup Recoverers
        PROVE  /\ pc'[q] = pc[q] /\ job'[q] = job[q] /\ held'[q] = held[q]
               /\ q \in alive' => q \in alive
    <3>1. q \in Procs /\ q # o
      BY OwnershipAssumption DEF Procs
    <3>. QED
      BY <2>1, <3>1 DEF OthersStill
  <2>. QED
    BY <2>1, <2>2, QuietMark
<1>5. ASSUME UNCHANGED <<intent, execLock, log, pc, job, held>>, alive' \subseteq alive
      PROVE  MarkInv'
  BY <1>5, QuietMark
<1>6. ASSUME (\E p \in Procs : Die(p)) \/ UNCHANGED vars PROVE MarkInv'
  BY <1>5, <1>6 DEF Die, vars, runVars, ctlVars
<1>. QED
  BY <1>1, <1>2, <1>3, <1>4, <1>6 DEF Next, LosePower

\* While the machine keeps its power, a run whose coordinator died between
\* naming it and finalizing it blocks the workspace until it is recovered or
\* resumed, or a canceller puts back what it had read (the safety block of
\* apply.ts).
THEOREM InterruptionBlocks == ASSUME ~PowerLoss PROVE Spec => []InterruptedRunBlocks
<1>1. Init => MarkInv
  BY InitMark
<1>2. Inv /\ CauseInv /\ EndInv /\ MarkInv /\ [Next]_vars => MarkInv'
  BY MarkStep
<1>3. MarkInv => InterruptedRunBlocks
  BY DEF MarkInv, Marked, InterruptedRunBlocks, Guarded, Overwritten, Names
<1>. QED
  BY <1>1, <1>2, <1>3, EndInvariance, PTL DEF Spec
=============================================================================
