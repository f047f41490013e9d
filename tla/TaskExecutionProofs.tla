------------------------ MODULE TaskExecutionProofs ------------------------
(***************************************************************************)
(* What holds of a task for any paths, targets, answers, touch-sets and    *)
(* retries, however often workers edit and the process dies.               *)
(***************************************************************************)
EXTENDS TaskExecution, FiniteSetTheorems, WellFoundedInduction, SequenceTheorems, TLAPS

USE DEF repository

(***************************************************************************)
(* The number of dispatches.                                               *)
(***************************************************************************)

\* Every dispatch of an attempt but the first follows a round or a refusal.
Asking == {"composing", "answered", "submitted"}
Counted ==
    /\ rounds \in Nat /\ refusals \in Nat /\ dispatches \in Nat
    /\ DispatchesBounded
    /\ pc \in Asking => /\ rounds <= STAGE_ROUND_BOUND /\ refusals <= STAGE_ROUND_BOUND
                        /\ dispatches <= 1 + rounds + refusals

LEMMA CountedKept == Counted /\ [Next]_vars => Counted'
<1> SUFFICES ASSUME Counted, [Next]_vars PROVE Counted'  OBVIOUS
<1> USE DEF Counted, DispatchesBounded, Asking, STAGE_ROUND_BOUND
<1>1. CASE Begin  BY <1>1 DEF Begin
<1>2. CASE Collect \/ RefuseScope
  BY <1>2 DEF Collect, RefuseScope, Return, memory, store, history
<1>3. CASE RefuseSubmission
  BY <1>3 DEF RefuseSubmission, GiveUp, Redispatch, Return, store
<1>4. CASE RejectStaging
  BY <1>4 DEF RejectStaging, Accepted, GiveUp, Redispatch, Return
<1>5. CASE Stage \/ Applied
  BY <1>5 DEF Stage, Applied, store, history
<1>6. CASE Apply  BY <1>6 DEF Apply, store
<1>7. CASE DenyCommand \/ RunCommand \/ FailCommands \/ CommandsOver
  BY <1>7 DEF DenyCommand, RunCommand, FailCommands, CommandsOver, Return, store, history
<1>8. CASE ProceedOnDefault \/ LogChanges \/ Attribute \/ Check
  BY <1>8 DEF ProceedOnDefault, EndUnchecked, LogChanges, Attribute, Check, memory, store, history
<1>9. CASE Retry \/ Crash
  BY <1>9 DEF Retry, Crash, Forget, store
<1>10. CASE Worker \/ ProviderFails
  BY <1>10 DEF Worker, EditDirectly, StageDirectly, CommitDirectly, Submit, SubmitCandidate, HandIn, Composing,
               ProviderFails, EndUnchecked, memory, store, history
<1>11. CASE UNCHANGED vars  BY <1>11 DEF vars, memory, store, history
<1> QED
  BY <1>1, <1>2, <1>3, <1>4, <1>5, <1>6, <1>7, <1>8, <1>9, <1>10, <1>11 DEF Next, Runtime

\* However submissions are refused and stagings rejected, an attempt asks its provider
\* seven times at most.
THEOREM DispatchBound == Spec => []DispatchesBounded
<1>1. Init => Counted
  BY DEF Init, Counted, DispatchesBounded, STAGE_ROUND_BOUND, Asking
<1> QED  BY <1>1, CountedKept, PTL DEF Spec, Counted

(***************************************************************************)
(* The scope of an attempt.                                                *)
(***************************************************************************)
LEMMA OnlyCheckEnds ==
    ASSUME [Next]_vars, pc = "checking", pc' = "over"
    PROVE  Check
BY DEF Next, Runtime, Worker, Begin, Collect, RefuseScope, RefuseSubmission, RejectStaging, Accepted,
       Stage, Apply, Applied, DenyCommand, RunCommand, FailCommands, CommandsOver, ProceedOnDefault,
       LogChanges, Attribute, Retry, Crash, Forget, EditDirectly, StageDirectly, CommitDirectly, Submit,
       SubmitCandidate, Composing, ProviderFails, vars

\* A checked attempt leaves every path it may not change as it found it, or as the
\* last commit has it, whatever it reports, unless somebody changed the index there.
THEOREM ScopeEnforced == Spec => ScopeKept
<1>1. ASSUME [Next]_vars, pc = "checking", pc' = "over", NEW p \in Protected \cup Outside(Paths)
      PROVE  Snapshot'[p] = before[p] \/ tree'[p] = head'[p] \/ StagedByHand(p)
  <2>0. Check /\ p \in Paths  BY <1>1, OnlyCheckEnds, ExecutionAssumption DEF Outside
  <2>1. tree'[p] = IF p \in Violations THEN index[p] ELSE tree[p]
    BY <2>0 DEF Check, Reverted
  <2>2. CASE Violations # {}
    <3>1. head' = head /\ index' = index  BY <2>0, <2>2 DEF Check
    <3>2. CASE p \in Violations  BY <2>1, <3>1, <3>2 DEF StagedByHand
    <3>3. CASE p \notin Violations
      <4>1. p \notin Delta  BY <1>1, <3>3 DEF Violations, Guarded, Outside
      <4>2. Snapshot[p] = before[p]  BY <2>0, <4>1 DEF Delta, DeltaSince
      <4> QED  BY <2>0, <2>1, <3>1, <3>3, <4>2 DEF Snapshot, Identity
    <3> QED  BY <3>2, <3>3
  <2>3. CASE Violations = {}
    <3>1. p \notin Delta  BY <1>1, <2>3 DEF Violations, Guarded, Outside
    <3>2. Snapshot[p] = before[p]  BY <2>0, <3>1 DEF Delta, DeltaSince
    <3>3. tree'[p] = tree[p] /\ (UNCHANGED <<head, index>> \/ head' = tree)
      BY <2>0, <2>1, <2>3 DEF Check
    <3> QED  BY <2>0, <3>2, <3>3 DEF Snapshot, Identity
  <2> QED  BY <2>2, <2>3
<1>2. [Next]_vars => [KeepsScope]_vars  BY <1>1 DEF KeepsScope
<1> QED  BY <1>2, PTL DEF Spec, ScopeKept

(***************************************************************************)
(* What completes was mediated.                                            *)
(***************************************************************************)

\* The checkout, the index and HEAD hold something at each path.
Shaped ==
    /\ tree = [p \in Paths |-> tree[p]] /\ index = [p \in Paths |-> index[p]]
    /\ head = [p \in Paths |-> head[p]]

\* What a worker has done to HEAD since the dispatch shows.
Unmoved == pc \in Asking /\ ~moved => head = dispatched

\* What an attempt found in HEAD was there at first, or a worker has committed it since.
Traced ==
    \A p \in Paths : dispatched[p] = BaseTree[p] \/ <<p, dispatched[p]>> \in smuggled

\* Every staged change is written or still to write.
StagedMediated ==
    pc \in {"applying", "commanding"} =>
        \A p \in DOMAIN staged : p \in todo \/ <<p, staged[p]>> \in mediated
AllWritten == pc = "commanding" => todo = {}

\* What an attempt accounts for was mediated, and so is what is on record.
Unwritten == pc \in {"idle", "composing", "answered", "submitted", "applying"} => writes = {}
WritesMediated ==
    /\ pc = "commanding" => writes \subseteq Written
    /\ pc \in {"returned", "logged"} => \A p \in writes : <<p, Digest(p)>> \in mediated
Recorded == {m[2] : m \in mediated}
RecordsMediated ==
    /\ records \in [Paths -> Seq(Recorded)]
    /\ \A p \in Paths : \A i \in DOMAIN records[p] : <<p, records[p][i]>> \in mediated

\* From the moment the answer is accepted, the targets hold nothing else.
TargetsMediated == \A p \in Targets : tree[p] = dispatched[p] \/ <<p, tree[p]>> \in mediated
Working == \/ pc \in {"applying", "commanding"}
           \/ pc \in {"returned", "logged", "checking", "over"} /\ status = "completed"

Mediation ==
    /\ Shaped /\ Unmoved /\ Traced /\ StagedMediated /\ AllWritten /\ Unwritten /\ WritesMediated
    /\ RecordsMediated /\ (Working => TargetsMediated)

LEMMA InitMediation == Init => Mediation
BY DEF Init, BaseTree, Mediation, Shaped, Unmoved, Traced, StagedMediated, AllWritten, Unwritten,
       WritesMediated, RecordsMediated, Working, Asking

\* What the log of history says stays said.
LEMMA RecordsKept ==
    ASSUME RecordsMediated, mediated \subseteq mediated', UNCHANGED records
    PROVE  RecordsMediated'
<1>1. Recorded \subseteq Recorded'  BY DEF Recorded
<1>2. \A p \in Paths : records[p] \in Seq(Recorded')
  BY <1>1, SeqMonotonic DEF RecordsMediated
<1> QED  BY <1>2 DEF RecordsMediated

\* The steps that neither write nor account for anything.
LEMMA AskingMediation ==
    ASSUME Mediation,
           Begin \/ Collect \/ RefuseScope \/ RefuseSubmission \/ RejectStaging \/ ProviderFails
             \/ Submit \/ SubmitCandidate
    PROVE  Mediation'
<1>1. UNCHANGED <<tree, index, head, mediated, records>>
  BY DEF Begin, Collect, RefuseScope, RefuseSubmission, RejectStaging, ProviderFails,
         Submit, SubmitCandidate, HandIn, memory, store, history
<1>2. Shaped' /\ RecordsMediated'
  BY <1>1, RecordsKept DEF Mediation, Shaped
<1>3. pc' \in Asking \cup {"returned", "over"} /\ (pc' \in {"returned", "over"} => status' \in {"failed", "blocked"})
  BY DEF Begin, Collect, RefuseScope, RefuseSubmission, RejectStaging, GiveUp, Redispatch,
         Return, ProviderFails, EndUnchecked, Submit, SubmitCandidate, HandIn, Asking
<1>4. writes' = {}
  BY DEF Mediation, Unwritten, Begin, Collect, RefuseScope, RefuseSubmission, RejectStaging,
         Accepted, ProviderFails, Composing, Submit, SubmitCandidate, HandIn, memory
<1>5. Unmoved'
  BY <1>1, <1>3 DEF Mediation, Unmoved, Begin, Collect, RefuseScope, RefuseSubmission, RejectStaging,
         Accepted, ProviderFails, Composing, Submit, SubmitCandidate, HandIn, memory, history, Asking
<1>6. Traced'
  <2>1. CASE Begin
    <3> SUFFICES ASSUME NEW p \in Paths
                 PROVE  head[p] = BaseTree[p] \/ <<p, head[p]>> \in smuggled'
      BY <2>1 DEF Traced, Begin, BaseTree
    <3>1. smuggled \subseteq smuggled' /\ (head[p] # dispatched[p] => <<p, head[p]>> \in smuggled')
      BY <2>1 DEF Begin
    <3> QED  BY <3>1 DEF Mediation, Traced
  <2>2. CASE ~Begin
    <3>1. UNCHANGED <<dispatched, smuggled>>
      BY <2>2 DEF Collect, RefuseScope, RefuseSubmission, RejectStaging, ProviderFails, Submit,
                  SubmitCandidate, HandIn, history
    <3> QED  BY <3>1 DEF Mediation, Traced, BaseTree
  <2> QED  BY <2>1, <2>2
<1> QED
  BY <1>2, <1>3, <1>4, <1>5, <1>6 DEF Mediation, StagedMediated, AllWritten, Unwritten, WritesMediated, Working, Asking

\* Workers and crashes.
LEMMA WorkerMediation ==
    ASSUME Mediation, EditDirectly \/ StageDirectly \/ CommitDirectly \/ Retry \/ Crash
    PROVE  Mediation'
<1>1. UNCHANGED <<mediated, records, dispatched, smuggled>>
  BY DEF EditDirectly, StageDirectly, CommitDirectly, Retry, Crash, store
<1>2. RecordsMediated'  BY <1>1, RecordsKept DEF Mediation
<1>3. Shaped'
  BY DEF Mediation, Shaped, EditDirectly, StageDirectly, CommitDirectly, Retry, Crash
<1>4. CASE EditDirectly \/ StageDirectly \/ CommitDirectly
  BY <1>1, <1>2, <1>3, <1>4
  DEF Mediation, Unmoved, Traced, BaseTree, StagedMediated, AllWritten, Unwritten, WritesMediated,
      Working, Asking, EditDirectly, StageDirectly, CommitDirectly, Composing, memory, execution
<1>5. CASE Retry \/ Crash
  BY <1>1, <1>2, <1>3, <1>5
  DEF Mediation, Unmoved, Traced, BaseTree, StagedMediated, AllWritten, Unwritten, WritesMediated,
      Working, Asking, Retry, Crash, Forget
<1> QED  BY <1>4, <1>5

\* An accepted answer finds under the targets what HEAD has or what is on record.
LEMMA StageMediation == ASSUME Mediation, Stage PROVE Mediation'
<1>1. UNCHANGED <<tree, index, head, mediated, records, dispatched, smuggled, status>>
  BY DEF Stage, store, history
<1>2. Shaped' /\ RecordsMediated'  BY <1>1, RecordsKept DEF Mediation, Shaped
<1>3. TargetsMediated
  <2> SUFFICES ASSUME NEW p \in Targets
               PROVE  tree[p] = dispatched[p] \/ <<p, tree[p]>> \in mediated
    BY DEF TargetsMediated
  <2>1. head = dispatched /\ Unattributed = {}
    BY DEF Stage, Accepted, Refused, Mediation, Unmoved, Asking
  <2>2. p \in Paths  BY ExecutionAssumption
  <2>3. CASE tree[p] = head[p]  BY <2>1, <2>3
  <2>4. CASE tree[p] # head[p]
    <3>1. Covered(p)  BY <2>1, <2>2, <2>4 DEF Unattributed, Dirty
    <3>2. records[p] \in Seq(Recorded) /\ records[p] # <<>> /\ Head(records[p]) = tree[p]
      BY <2>2, <3>1 DEF Covered, Mediation, RecordsMediated
    <3>3. 1 \in DOMAIN records[p] /\ records[p][1] = tree[p]
      BY <3>2, EmptySeq, LenProperties
    <3> QED  BY <2>2, <3>3 DEF Mediation, RecordsMediated
  <2> QED  BY <2>3, <2>4
<1>4. pc' = "applying" /\ todo' = DOMAIN staged' /\ writes' = {}
  BY DEF Stage, Accepted, Mediation, Unwritten
<1> QED
  BY <1>1, <1>2, <1>3, <1>4
  DEF Mediation, Unmoved, Traced, BaseTree, StagedMediated, AllWritten, Unwritten, WritesMediated, TargetsMediated, Asking

LEMMA ApplyMediation == ASSUME Mediation, Apply PROVE Mediation'
<1>1. PICK p \in todo :
         /\ tree' = [tree EXCEPT ![p] = staged[p]]
         /\ todo' = todo \ {p}
         /\ mediated' = mediated \cup {<<p, staged[p]>>}
  BY DEF Apply
<1>2. pc = "applying" /\ UNCHANGED <<pc, index, head, staged, writes, dispatched, smuggled, records>>
  BY DEF Apply, store
<1>3. RecordsMediated'  BY <1>1, <1>2, RecordsKept DEF Mediation
<1>4. Shaped'  BY <1>1, <1>2 DEF Mediation, Shaped
<1>5. TargetsMediated'
  <2> SUFFICES ASSUME NEW q \in Targets
               PROVE  tree'[q] = dispatched[q] \/ <<q, tree'[q]>> \in mediated'
    BY <1>2 DEF TargetsMediated
  <2>1. q \in Paths /\ DOMAIN tree = Paths  BY ExecutionAssumption DEF Mediation, Shaped
  <2>2. CASE q = p  BY <1>1, <2>1, <2>2
  <2>3. CASE q # p  BY <1>1, <1>2, <2>1, <2>3 DEF Mediation, Working, TargetsMediated
  <2> QED  BY <2>2, <2>3
<1>6. StagedMediated'  BY <1>1, <1>2 DEF Mediation, StagedMediated
<1> QED
  BY <1>2, <1>3, <1>4, <1>5, <1>6
  DEF Mediation, Unmoved, Traced, BaseTree, AllWritten, Unwritten, WritesMediated, Asking

LEMMA AppliedMediation == ASSUME Mediation, Applied PROVE Mediation'
<1>1. UNCHANGED <<tree, index, head, mediated, records, dispatched, smuggled, staged, todo, status>>
  BY DEF Applied, store, history, execution
<1>2. Shaped' /\ RecordsMediated'  BY <1>1, RecordsKept DEF Mediation, Shaped
<1>3. pc = "applying" /\ todo = {} /\ pc' = "commanding" /\ writes' = Written /\ Written' = Written
  BY <1>1 DEF Applied, Written
<1> QED
  BY <1>1, <1>2, <1>3
  DEF Mediation, Unmoved, Traced, BaseTree, StagedMediated, AllWritten, Unwritten, WritesMediated, Working,
      TargetsMediated, Asking

LEMMA RunCommandMediation == ASSUME Mediation, RunCommand PROVE Mediation'
<1>1. PICK e \in Effects :
         tree' = e.tree /\ index' = e.index /\ mediated' = mediated \cup WrittenBy(e)
  BY DEF RunCommand
<1>2. pc = "commanding" /\ UNCHANGED <<pc, head, staged, todo, writes, dispatched, smuggled, records>>
  BY DEF RunCommand, store
<1>3. RecordsMediated'  BY <1>1, <1>2, RecordsKept DEF Mediation
<1>4. Shaped'  BY <1>1, <1>2 DEF Mediation, Shaped, Effects
<1>5. TargetsMediated'
  <2> SUFFICES ASSUME NEW q \in Targets
               PROVE  tree'[q] = dispatched[q] \/ <<q, tree'[q]>> \in mediated'
    BY <1>2 DEF TargetsMediated
  <2>1. CASE e.tree[q] = tree[q]  BY <1>1, <1>2, <2>1 DEF Mediation, Working, TargetsMediated
  <2>2. CASE e.tree[q] # tree[q]
    <3>1. CASE q \in ChangedBy(e)
      BY <1>1, <2>2, <3>1 DEF WrittenBy
    <3>2. CASE q \notin ChangedBy(e)
      <4>1. Identity(q, e.tree[q], e.index[q]) = Identity(q, tree[q], index[q])
        BY <3>2, ExecutionAssumption DEF ChangedBy
      <4> QED  BY <2>2, <4>1 DEF Identity, Clean
    <3> QED  BY <3>1, <3>2
  <2> QED  BY <2>1, <2>2
<1>6. StagedMediated' /\ Written' = Written
  BY <1>1, <1>2 DEF Mediation, StagedMediated, Written
<1> QED
  BY <1>2, <1>3, <1>4, <1>5, <1>6 DEF Mediation, Unmoved, Traced, BaseTree, AllWritten, Unwritten, WritesMediated, Asking

LEMMA FailedMediation == ASSUME Mediation, DenyCommand \/ FailCommands PROVE Mediation'
<1>1. mediated \subseteq mediated' /\ UNCHANGED <<head, staged, todo, writes, dispatched, smuggled, records>>
  BY DEF DenyCommand, FailCommands, store, history, execution
<1>2. pc = "commanding" /\ pc' = "returned" /\ status' = "failed"
  BY DEF DenyCommand, FailCommands, Return
<1>3. RecordsMediated'  BY <1>1, RecordsKept DEF Mediation
<1>4. Shaped'
  <2>1. CASE DenyCommand  BY <2>1 DEF Mediation, Shaped, DenyCommand
  <2>2. CASE FailCommands
    <3>1. PICK e \in Effects, P \in SUBSET Paths : tree' = Reverted(P, e.tree, e.index) /\ index' = e.index
      BY <2>2 DEF FailCommands, ChangedBy
    <3>2. index' = [p \in Paths |-> index'[p]]
      BY <3>1 DEF Mediation, Shaped, Effects
    <3> QED  BY <1>1, <3>1, <3>2 DEF Mediation, Shaped, Reverted
  <2> QED  BY <2>1, <2>2
<1>5. ASSUME NEW p \in writes PROVE p \in Written /\ Digest(p)' = staged[p] /\ <<p, staged[p]>> \in mediated'
  BY <1>1, <1>2, <1>5
  DEF Mediation, WritesMediated, AllWritten, StagedMediated, Digest, Written
<1>6. WritesMediated'  BY <1>1, <1>2, <1>5 DEF WritesMediated
<1> QED
  BY <1>1, <1>2, <1>3, <1>4, <1>6
  DEF Mediation, Unmoved, Traced, BaseTree, StagedMediated, AllWritten, Unwritten, Working, Asking

LEMMA CommandsOverMediation == ASSUME Mediation, CommandsOver PROVE Mediation'
<1>1. /\ mediated' = mediated \cup {<<p, tree[p]>> : p \in touched}
      /\ writes' = writes \cup {p \in touched : tree[p] # "gone"}
      /\ UNCHANGED <<tree, index, head, staged, todo, dispatched, smuggled, records>>
  BY DEF CommandsOver, store, execution
<1>2. pc = "commanding" /\ pc' = "returned"  BY DEF CommandsOver, Return
<1>3. Shaped' /\ RecordsMediated'  BY <1>1, RecordsKept DEF Mediation, Shaped
<1>4. TargetsMediated'  BY <1>1, <1>2 DEF Mediation, Working, TargetsMediated
<1>5. WritesMediated'
  <2> SUFFICES ASSUME NEW p \in writes' PROVE <<p, Digest(p)'>> \in mediated'
    BY <1>2 DEF WritesMediated
  <2>1. Digest(p)' = Digest(p) /\ Written' = Written  BY <1>1 DEF Digest, Written
  <2>2. CASE p \in Written
    <3>1. p \in DOMAIN staged /\ Digest(p) = staged[p]  BY <2>2 DEF Written, Digest
    <3> QED  BY <1>1, <1>2, <2>1, <3>1 DEF Mediation, AllWritten, StagedMediated
  <2>3. CASE p \notin Written
    <3>1. p \in touched /\ Digest(p) = tree[p]
      BY <1>1, <1>2, <2>3 DEF Mediation, WritesMediated, Digest
    <3> QED  BY <1>1, <2>1, <3>1
  <2> QED  BY <2>2, <2>3
<1> QED
  BY <1>1, <1>2, <1>3, <1>4, <1>5
  DEF Mediation, Unmoved, Traced, BaseTree, StagedMediated, AllWritten, Unwritten, Working, Asking

LEMMA AttributeMediation == ASSUME Mediation, Attribute PROVE Mediation'
<1>1. UNCHANGED <<tree, index, head, mediated, dispatched, smuggled, status>> /\ pc = "logged" /\ pc' = "checking"
  BY DEF Attribute, memory, history
<1>2. RecordsMediated'
  <2>1. ASSUME NEW p \in Paths
        PROVE  /\ records'[p] \in Seq(Recorded')
               /\ \A i \in DOMAIN records'[p] : <<p, records'[p][i]>> \in mediated'
    <3>0. records[p] \in Seq(Recorded) /\ Recorded' = Recorded
      BY <1>1 DEF Mediation, RecordsMediated, Recorded
    <3>1. CASE records'[p] = records[p]
      BY <1>1, <3>0, <3>1 DEF Mediation, RecordsMediated
    <3>2. CASE p \in writes /\ records'[p] = Append(records[p], Digest(p))
      <4>1. <<p, Digest(p)>> \in mediated  BY <1>1, <3>2 DEF Mediation, WritesMediated
      <4>2. <<p, Digest(p)>>[2] \in Recorded  BY <4>1 DEF Recorded
      <4>3. Digest(p) \in Recorded  BY <4>2
      <4>4. /\ Append(records[p], Digest(p)) \in Seq(Recorded)
            /\ \A i \in DOMAIN Append(records[p], Digest(p)) :
                  \/ i \in DOMAIN records[p] /\ Append(records[p], Digest(p))[i] = records[p][i]
                  \/ Append(records[p], Digest(p))[i] = Digest(p)
        BY <3>0, <4>3
      <4> QED  BY <1>1, <3>0, <3>2, <4>1, <4>4 DEF Mediation, RecordsMediated
    <3> QED  BY <3>1, <3>2 DEF Attribute
  <2>2. records' = [p \in Paths |-> records'[p]]  BY DEF Attribute
  <2> QED  BY <2>1, <2>2 DEF RecordsMediated
<1> QED
  BY <1>1, <1>2
  DEF Mediation, Shaped, Unmoved, Traced, BaseTree, StagedMediated, AllWritten, Unwritten, WritesMediated, Working,
      TargetsMediated, Asking

LEMMA CheckMediation == ASSUME Mediation, Check PROVE Mediation'
<1>1. UNCHANGED <<mediated, dispatched, smuggled, records>> /\ pc = "checking" /\ pc' = "over"
  BY DEF Check, store, history
<1>2. RecordsMediated'  BY <1>1, RecordsKept DEF Mediation
<1>3. Shaped'  BY DEF Mediation, Shaped, Check, Reverted
<1>4. ASSUME status' = "completed" PROVE TargetsMediated'
  <2>1. Violations = {} /\ status = "completed"  BY <1>4 DEF Check
  <2>2. \A p \in Paths : tree'[p] = tree[p]  BY <2>1 DEF Check, Reverted
  <2> QED  BY <1>1, <2>1, <2>2, ExecutionAssumption DEF Mediation, Working, TargetsMediated
<1> QED
  BY <1>1, <1>2, <1>3, <1>4
  DEF Mediation, Unmoved, Traced, BaseTree, StagedMediated, AllWritten, Unwritten, WritesMediated, Working, Asking

LEMMA LogMediation == ASSUME Mediation, LogChanges \/ ProceedOnDefault PROVE Mediation'
<1>1. UNCHANGED <<tree, index, head, staged, writes, mediated, dispatched, smuggled, records>>
  BY DEF LogChanges, ProceedOnDefault, memory, execution, store, history
<1>2. Shaped' /\ RecordsMediated'  BY <1>1, RecordsKept DEF Mediation, Shaped
<1>3. TargetsMediated' = TargetsMediated  BY <1>1 DEF TargetsMediated
<1>4. \/ pc = "returned" /\ pc' = "logged" /\ status' = status
      \/ pc = "returned" /\ pc' = "over" /\ status' = "failed"
  BY DEF LogChanges, ProceedOnDefault, EndUnchecked, memory
<1>5. WritesMediated'
  <2> SUFFICES ASSUME NEW p \in writes, pc' = "logged" PROVE <<p, Digest(p)'>> \in mediated'
    BY <1>1, <1>4 DEF WritesMediated
  <2>1. Digest(p)' = Digest(p)  BY <1>1 DEF Digest, Written
  <2> QED  BY <1>1, <1>4, <2>1 DEF Mediation, WritesMediated
<1> QED
  BY <1>1, <1>2, <1>3, <1>4, <1>5
  DEF Mediation, Unmoved, Traced, BaseTree, StagedMediated, AllWritten, Unwritten, Working, Asking

LEMMA MediationKept == Mediation /\ [Next]_vars => Mediation'
<1> SUFFICES ASSUME Mediation, [Next]_vars PROVE Mediation'  OBVIOUS
<1>1. CASE UNCHANGED vars
  BY <1>1
  DEF vars, memory, execution, store, history, Mediation, Shaped, Unmoved, Traced, BaseTree, StagedMediated, AllWritten,
      Unwritten, WritesMediated, RecordsMediated, Recorded, Working, TargetsMediated, Digest, Written
<1> QED
  BY <1>1, AskingMediation, WorkerMediation, StageMediation, ApplyMediation, AppliedMediation,
     RunCommandMediation, FailedMediation, CommandsOverMediation, AttributeMediation,
     CheckMediation, LogMediation
  DEF Next, Runtime, Worker

\* Whatever workers edit and stage, in this attempt or an earlier one, what a completed
\* task has changed under its targets since its first dispatch was mediated, or a worker
\* had committed it in an attempt that was over before the last one began.
THEOREM OnlyMediated == Spec => []OnlyMediatedWorkCompletes
<1>1. ASSUME Mediation, Completed, NEW p \in Targets
      PROVE  tree[p] = BaseTree[p] \/ <<p, tree[p]>> \in mediated \cup smuggled
  <2>1. tree[p] = dispatched[p] \/ <<p, tree[p]>> \in mediated
    BY <1>1 DEF Mediation, Working, TargetsMediated, Completed
  <2>2. dispatched[p] = BaseTree[p] \/ <<p, dispatched[p]>> \in smuggled
    BY <1>1, ExecutionAssumption DEF Mediation, Traced
  <2> QED  BY <2>1, <2>2
<1>2. Mediation => OnlyMediatedWorkCompletes  BY <1>1 DEF OnlyMediatedWorkCompletes
<1> QED  BY <1>2, InitMediation, MediationKept, PTL DEF Spec

(***************************************************************************)
(* What staging computes, change by change.                                *)
(***************************************************************************)
\* Every set of numbers that is not empty has a least one.
LEMMA Least ==
    ASSUME NEW T \in SUBSET Nat, T # {}
    PROVE  \E m \in T : \A k \in T : m <= k
<1> DEFINE R == StrictSubsetOrdering(Nat)
           F == {1..n : n \in T}
<1>1. IsWellFoundedOn(R, FiniteSubsetsOf(Nat))  BY FS_StrictSubsetOrderingWellFounded
<1>2. F \subseteq FiniteSubsetsOf(Nat) /\ F # {}
  <2>1. ASSUME NEW n \in T PROVE 1..n \in FiniteSubsetsOf(Nat)
    <3>1. n \in Int /\ 1 \in Int  OBVIOUS
    <3>2. IsFiniteSet(1..n)  BY <3>1, FS_Interval
    <3>3. 1..n \in SUBSET Nat  OBVIOUS
    <3> QED  BY <3>2, <3>3 DEF FiniteSubsetsOf
  <2>2. PICK n : n \in T  OBVIOUS
  <2>3. 1..n \in F  BY <2>2
  <2> QED  BY <2>1, <2>3
<1>3. PICK x \in F : \A y \in F : <<y, x>> \notin R
  <2> HIDE DEF R, F
  <2> QED  BY <1>1, <1>2, WFMin
<1>4. PICK m \in T : x = 1..m  BY <1>3
<1>5. ASSUME NEW k \in T, k < m PROVE FALSE
  <2>1. 1..k \subseteq 1..m /\ m \in 1..m /\ m \notin 1..k  BY <1>5
  <2>2. <<1..k, 1..m>> \in R  BY <2>1 DEF StrictSubsetOrdering
  <2> QED  BY <1>3, <1>4, <2>2
<1> QED  BY <1>5

LEMMA Induct ==
    ASSUME NEW S \in SUBSET Nat, 0 \in S, \A n \in S : n + 1 \in S
    PROVE  S = Nat
<1>1. SUFFICES ASSUME S # Nat PROVE FALSE
  OBVIOUS
<1> DEFINE T == Nat \ S
<1>2. PICK m \in T : \A k \in T : m <= k
  <2>1. T \in SUBSET Nat /\ T # {}  BY <1>1
  <2> HIDE DEF T
  <2> QED  BY <2>1, Least
<1>3. m # 0 /\ m - 1 \in Nat  BY <1>2
<1>4. m - 1 \in S  BY <1>2, <1>3
<1>5. (m - 1) + 1 = m  BY <1>3
<1> QED  BY <1>2, <1>4, <1>5

\* The overlays on the way, from the empty one.
Empty == [fits |-> TRUE, missing |-> FALSE, writes |-> <<>>, deletes |-> {}]
Overlays(f, changes, disk) ==
    f = [i \in 0..Len(changes) |-> IF i = 0 THEN Empty ELSE StageOne(f[i - 1], changes[i], disk)]

LEMMA OverlaysExist ==
    ASSUME NEW changes \in Seq(Changes), NEW disk
    PROVE  \E f : Overlays(f, changes, disk) /\ Staging(changes, disk) = f[Len(changes)]
<1> DEFINE n == Len(changes)
           To(f, k) == f = [i \in 0..k |-> IF i = 0 THEN Empty
                                           ELSE StageOne(f[i - 1], changes[i], disk)]
           Good == {k \in Nat : \E f : To(f, k)}
<1>0. n \in Nat  OBVIOUS
<1>1. 0 \in Good
  <2> DEFINE f == [i \in 0..0 |-> Empty]
  <2>1. To(f, 0)  OBVIOUS
  <2> HIDE DEF f, To
  <2> QED  BY <2>1
<1>2. ASSUME NEW k \in Good PROVE k + 1 \in Good
  <2>1. PICK f : To(f, k)  OBVIOUS
  <2> DEFINE g == [i \in 0..(k + 1) |-> IF i = 0 THEN Empty ELSE StageOne(f[i - 1], changes[i], disk)]
  <2>2. \A i \in 0..k : i \in 0..(k + 1) /\ g[i] = f[i]  BY <2>1
  <2>3. \A i \in 0..(k + 1) : i = 0 \/ i - 1 \in 0..k  OBVIOUS
  <2>4. \A i \in 0..(k + 1) : i # 0 => g[i - 1] = f[i - 1]  BY <2>2, <2>3
  <2>5. To(g, k + 1)  BY <2>4
  <2>6. k + 1 \in Nat  OBVIOUS
  <2> HIDE DEF g, To
  <2> QED  BY <2>5, <2>6
<1>3. \E f : To(f, n)
  <2>1. Good \in SUBSET Nat  OBVIOUS
  <2> HIDE DEF Good, To, n
  <2>2. Good = Nat  BY <1>1, <1>2, <2>1, Induct
  <2> QED  BY <1>0, <2>2 DEF Good
<1> DEFINE o == CHOOSE f : To(f, n)
<1>4. To(o, n)
  <2> HIDE DEF To, n
  <2> QED  BY <1>3
<1>5. Staging(changes, disk) = o[n]
  BY DEF Staging, Empty
<1> HIDE DEF o
<1>6. Overlays(o, changes, disk)  BY <1>4 DEF Overlays
<1> QED  BY <1>5, <1>6

\* Staging looks at no path the changes do not name.
LEMMA StagingLooks ==
    ASSUME NEW changes \in Seq(Changes), NEW d, NEW e,
           \A p \in ProposedPaths(changes) : d[p] = e[p]
    PROVE  Staging(changes, d) = Staging(changes, e)
<1> DEFINE n == Len(changes)
<1>0. n \in Nat /\ \A i \in 1..n : changes[i].path \in ProposedPaths(changes)
  BY DEF ProposedPaths, ToSet
<1>1. PICK f : Overlays(f, changes, d) /\ Staging(changes, d) = f[n]  BY OverlaysExist
<1>2. PICK g : Overlays(g, changes, e) /\ Staging(changes, e) = g[n]  BY OverlaysExist
<1> DEFINE Same == {k \in Nat : k <= n => f[k] = g[k]}
<1>3. 0 \in Same  BY <1>0, <1>1, <1>2 DEF Overlays
<1>4. ASSUME NEW k \in Same PROVE k + 1 \in Same
  <2> SUFFICES ASSUME k + 1 <= n PROVE f[k + 1] = g[k + 1]  OBVIOUS
  <2>1. k \in 0..n /\ k + 1 \in 0..n /\ k + 1 \in 1..n /\ k + 1 # 0 /\ (k + 1) - 1 = k  BY <1>0
  <2>2. f[k] = g[k]  BY <1>0
  <2>3. f[k + 1] = StageOne(f[k], changes[k + 1], d)  BY <1>1, <2>1 DEF Overlays
  <2>4. g[k + 1] = StageOne(g[k], changes[k + 1], e)  BY <1>2, <2>1 DEF Overlays
  <2>5. d[changes[k + 1].path] = e[changes[k + 1].path]  BY <1>0, <2>1
  <2>6. StageOne(f[k], changes[k + 1], d) = StageOne(f[k], changes[k + 1], e)
    BY <2>5 DEF StageOne
  <2> QED  BY <2>2, <2>3, <2>4, <2>6
<1>5. Same = Nat
  <2>1. Same \in SUBSET Nat  OBVIOUS
  <2> HIDE DEF Same
  <2> QED  BY <1>3, <1>4, <2>1, Induct
<1> QED  BY <1>0, <1>1, <1>2, <1>5

\* Staging that fits takes account of every path the changes name, and of no other.
Paired(o) == o = [fits |-> o.fits, missing |-> o.missing, writes |-> o.writes, deletes |-> o.deletes]
Entered(o) == DOMAIN o.writes \cup o.deletes

LEMMA StageOneEnters ==
    ASSUME NEW o, Paired(o), NEW change, NEW disk
    PROVE  /\ Paired(StageOne(o, change, disk))
           /\ StageOne(o, change, disk).fits =>
                 o.fits /\ Entered(StageOne(o, change, disk)) = Entered(o) \cup {change.path}
<1> DEFINE p == change.path
           base == IF p \in DOMAIN o.writes THEN o.writes[p] ELSE disk[p]
           r == StageOne(o, change, disk)
<1>1. CASE ~o.fits  BY <1>1 DEF StageOne, Paired
<1>2. CASE o.fits /\ change.op = "delete"
  <2>1. r = [o EXCEPT !.writes = [q \in DOMAIN @ \ {p} |-> @[q]], !.deletes = @ \cup {p}]
    BY <1>2 DEF StageOne
  <2>2. r = [fits |-> o.fits, missing |-> o.missing,
             writes |-> [q \in DOMAIN o.writes \ {p} |-> o.writes[q]], deletes |-> o.deletes \cup {p}]
    BY <2>1 DEF Paired
  <2> QED  BY <1>2, <2>2 DEF Paired, Entered
<1>3. CASE /\ o.fits /\ change.op = "patch"
           /\ base = "gone" \/ base # change.base \/ ~change.unique
  <2>1. r = [o EXCEPT !.fits = FALSE, !.missing = base = "gone"]
    BY <1>3 DEF StageOne
  <2>2. r = [fits |-> FALSE, missing |-> base = "gone", writes |-> o.writes, deletes |-> o.deletes]
    BY <2>1 DEF Paired
  <2> QED  BY <2>2 DEF Paired
<1>4. CASE /\ o.fits /\ change.op # "delete"
           /\ ~(change.op = "patch" /\ (base = "gone" \/ base # change.base \/ ~change.unique))
  <2>1. r = [o EXCEPT !.writes = [q \in DOMAIN @ \cup {p} |-> IF q = p THEN change.to ELSE @[q]],
                      !.deletes = @ \ {p}]
    BY <1>4 DEF StageOne
  <2>2. r = [fits |-> o.fits, missing |-> o.missing,
             writes |-> [q \in DOMAIN o.writes \cup {p} |-> IF q = p THEN change.to ELSE o.writes[q]],
             deletes |-> o.deletes \ {p}]
    BY <2>1 DEF Paired
  <2> QED  BY <1>4, <2>2 DEF Paired, Entered
<1> QED  BY <1>1, <1>2, <1>3, <1>4

LEMMA StagingEnters ==
    ASSUME NEW changes \in Seq(Changes), NEW disk, Staging(changes, disk).fits
    PROVE  Entered(Staging(changes, disk)) = ProposedPaths(changes)
<1> DEFINE n == Len(changes)
           Named(k) == {changes[j].path : j \in 1..k}
<1>0. n \in Nat /\ ProposedPaths(changes) = Named(n)  BY DEF ProposedPaths, ToSet
<1>1. PICK f : Overlays(f, changes, disk) /\ Staging(changes, disk) = f[n]  BY OverlaysExist
<1> DEFINE Done == {k \in Nat : k <= n => Paired(f[k]) /\ (f[k].fits => Entered(f[k]) = Named(k))}
<1>2. 0 \in Done
  <2>1. f[0] = Empty /\ Named(0) = {}  BY <1>0, <1>1 DEF Overlays
  <2> QED  BY <2>1 DEF Empty, Paired, Entered
<1>3. ASSUME NEW k \in Done PROVE k + 1 \in Done
  <2> SUFFICES ASSUME k + 1 <= n
               PROVE  Paired(f[k + 1]) /\ (f[k + 1].fits => Entered(f[k + 1]) = Named(k + 1))
    OBVIOUS
  <2>1. k + 1 \in 0..n /\ k + 1 # 0 /\ (k + 1) - 1 = k /\ k <= n  BY <1>0
  <2>2. f[k + 1] = StageOne(f[k], changes[k + 1], disk)  BY <1>1, <2>1 DEF Overlays
  <2>3. Paired(f[k]) /\ (f[k].fits => Entered(f[k]) = Named(k))  BY <2>1
  <2>4. Named(k + 1) = Named(k) \cup {changes[k + 1].path}
    <3>1. 1..(k + 1) = (1..k) \cup {k + 1}  OBVIOUS
    <3> QED  BY <3>1
  <2> HIDE DEF Named
  <2>5. /\ Paired(f[k + 1])
        /\ f[k + 1].fits => f[k].fits /\ Entered(f[k + 1]) = Entered(f[k]) \cup {changes[k + 1].path}
    BY <2>2, <2>3, StageOneEnters
  <2> QED  BY <2>3, <2>4, <2>5
<1>4. Done = Nat
  <2>1. Done \in SUBSET Nat  OBVIOUS
  <2> HIDE DEF Done
  <2> QED  BY <1>2, <1>3, <2>1, Induct
<1> HIDE DEF Named
<1> QED  BY <1>0, <1>1, <1>4

(***************************************************************************)
(* The rehearsal and the run.                                              *)
(***************************************************************************)

\* Until something is committed, the run's base revision is what HEAD has.
AtBase == ~strayed => head = BaseTree

LEMMA AtBaseKept == AtBase /\ [Next]_vars => AtBase'
<1> SUFFICES ASSUME AtBase, [Next]_vars PROVE AtBase'  OBVIOUS
<1>1. CASE CommitDirectly \/ Check
  BY <1>1 DEF AtBase, BaseTree, CommitDirectly, Check
<1>2. CASE ~(CommitDirectly \/ Check)
  <2>1. UNCHANGED <<head, strayed>>
    BY <1>2
    DEF Next, Runtime, Worker, Begin, Collect, RefuseScope, RefuseSubmission, RejectStaging, Stage,
        Apply, Applied, DenyCommand, RunCommand, FailCommands, CommandsOver, ProceedOnDefault,
        LogChanges, Attribute, Retry, Crash, EditDirectly, StageDirectly, Submit, SubmitCandidate, HandIn,
        ProviderFails, vars
  <2> QED  BY <2>1 DEF AtBase, BaseTree
<1> QED  BY <1>1, <1>2

\* What a rehearsal turns away the run would refuse too, whatever attempts, direct
\* edits and crashes have left, unless the draft mixes work in flight with other paths.
THEOREM RehearsalAgrees == Spec => []RehearsalRefusesRightly
<1>1. Init => AtBase  BY DEF Init, AtBase
<1>2. AtBase => RehearsalRefusesRightly
  <2> SUFFICES ASSUME AtBase, Composing, ~strayed, Logged, NEW changes \in Answers,
                      ~WouldRefuse(changes), ~Mixed(changes)
               PROVE  ~RehearsalRefuses(changes)
    BY DEF RehearsalRefusesRightly
  <2> DEFINE P == ProposedPaths(changes)
             run == Staging(changes, tree)
             base == Staging(changes, BaseTree)
  <2>1. changes \in Seq(Changes) /\ P \subseteq Targets /\ P \subseteq Paths
    BY ExecutionAssumption DEF WouldRefuse, Outside
  <2>2. run.fits /\ Guarded(Entered(run)) = {} /\ Unattributed = {}
    BY DEF WouldRefuse, Entered, Refused
  <2>3. Entered(run) = P  BY <2>1, <2>2, StagingEnters
  <2>4. CASE base.fits
    <3>1. Entered(base) = P  BY <2>1, <2>4, StagingEnters
    <3>2. Outside(Entered(base)) = {} /\ Guarded(Entered(base)) = {}
      BY <2>1, <2>2, <2>3, <3>1 DEF Outside
    <3> QED  BY <2>4, <3>2 DEF RehearsalRefuses, Entered
  <2>5. CASE ~base.fits
    <3>1. P \cap Dirty # {}
      <4> SUFFICES ASSUME P \cap Dirty = {} PROVE FALSE  OBVIOUS
      <4>1. \A p \in P : tree[p] = BaseTree[p]  BY <2>1 DEF Dirty, AtBase
      <4>2. run = base  BY <2>1, <4>1, StagingLooks
      <4> QED  BY <2>2, <2>5, <4>2
    <3>2. P \subseteq Dirty  BY <3>1 DEF Mixed
    <3>3. P \subseteq fileChanges
      BY <2>1, <2>2, <3>2 DEF Unattributed, Covered, Logged
    <3>4. Diverges(changes)  BY <2>2, <3>3 DEF Diverges
    <3> QED  BY <2>5, <3>4 DEF RehearsalRefuses
  <2> QED  BY <2>4, <2>5
<1> QED  BY <1>1, <1>2, AtBaseKept, PTL DEF Spec
=============================================================================
