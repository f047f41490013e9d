-------------------------- MODULE RunRecordsProofs --------------------------
(***************************************************************************)
(* What holds of a run's record for any number of processes, follow-ups,   *)
(* lines and deaths.                                                       *)
(***************************************************************************)
EXTENDS RunRecords, SequenceTheorems, TLAPS

(***************************************************************************)
(* Types.                                                                  *)
(***************************************************************************)
LEMMA UidsType == ASSUME NEW s \in Seq(Record) PROVE Uids(s) \in Seq(Nat)
<1>1. Len(s) \in Nat /\ DOMAIN s = 1..Len(s) /\ \A i \in 1..Len(s) : s[i] \in Record
  BY LenProperties, ElementOfSeq
<1>2. Uids(s) \in [1..Len(s) -> Nat]
  BY <1>1 DEF Uids, Record
<1> QED  BY <1>1, <1>2

LEMMA Last0Type == ASSUME NEW s \in Seq(Nat) PROVE Last0(s) \in Nat
BY DEF Last0, Last

LEMMA WrittenType ==
    ASSUME NEW s \in Seq(Record), NEW tail \in Tails, NEW rec \in Record,
           NEW w \in Written(s, tail, rec)
    PROVE  w[1] \in Seq(Record) /\ w[2] \in Tails
<1>1. Junk \in Record  BY DEF Junk, Record
<1>2. Front(s) \in Seq(Record)
  <2>1. Len(s) \in Nat /\ \A i \in 1..(Len(s) - 1) : s[i] \in Record
    BY LenProperties, ElementOfSeq
  <2> QED  BY <2>1, SubSeqProperties DEF Front
<1>3. CASE tail = "ended"  BY <1>3 DEF Written, Tails
<1>4. CASE tail = "fragment"  BY <1>1, <1>4 DEF Written, Tails
<1>5. CASE tail = "unended"
  <2>1. Append(Front(s), Junk) \in Seq(Record)  BY <1>1, <1>2
  <2>2. w \in {<<Append(Front(s), Junk), "ended">>, <<Front(s), "fragment">>}
    BY <1>5 DEF Written
  <2>3. CASE w = <<Append(Front(s), Junk), "ended">>  BY <2>1, <2>3 DEF Tails
  <2>4. CASE w = <<Front(s), "fragment">>  BY <1>2, <2>4 DEF Tails
  <2> QED  BY <2>2, <2>3, <2>4
<1> QED  BY <1>3, <1>4, <1>5 DEF Tails

LEMMA BlankType == Blank \in Minds
BY DEF Blank, Minds, FollowupsFile

LEMMA InitTypes == Init => TypeOK
<1>1. Blank.followups \in FollowupsFile  BY DEF Blank, FollowupsFile
<1> SUFFICES ASSUME Init PROVE TypeOK  OBVIOUS
<1>2. memory \in [Procs -> Minds]  BY BlankType DEF Init
<1>3. events \in Seq(Record) /\ evidence \in Seq(Record)  BY DEF Init
<1>4. attestation \in [n : Nat, head : Nat, ehead : Seq(Nat)]  BY DEF Init, None
<1>5. deaths \in 0..MaxDeaths  BY RecordsAssumption DEF Init
<1> QED  BY <1>1, <1>2, <1>3, <1>4, <1>5 DEF Init, TypeOK, Tails, Steps

LEMMA GoesType ==
    ASSUME TypeOK, NEW p \in Procs, NEW next \in Steps, NEW mind \in Minds, Goes(p, next, mind)
    PROVE  at' \in [Procs -> Steps] /\ memory' \in [Procs -> Minds]
BY BlankType DEF TypeOK, Goes, Steps

LEMMA DiesType ==
    ASSUME TypeOK, NEW p \in Procs, Dies(p)
    PROVE  at' \in [Procs -> Steps] /\ memory' \in [Procs -> Minds] /\ deaths' \in 0..MaxDeaths
<1>1. "dead" \in Steps  BY DEF Steps
<1> QED  BY <1>1, BlankType, GoesType, RecordsAssumption DEF TypeOK, Dies

LEMMA MindFields ==
    ASSUME TypeOK, NEW p \in Procs
    PROVE  /\ memory[p] \in Minds
           /\ memory[p].events \in Seq(Nat) /\ memory[p].evidence \in Seq(Nat)
           /\ memory[p].followups \in FollowupsFile /\ memory[p].job \in Followups \cup {"none"}
BY DEF TypeOK, Minds

LEMMA LineType ==
    ASSUME TypeOK, NEW p \in Procs, NEW lines \in Seq(Record), NEW mind \in Seq(Nat), NEW k \in Kinds
    PROVE  Line(p, lines, mind, k) \in Record
BY MindFields, Last0Type DEF Line, Record

LEMMA AppendEventType ==
    ASSUME TypeOK, NEW p \in Procs, NEW k \in Kinds, NEW next \in Steps,
           NEW job \in Followups \cup {"none"}, AppendEvent(p, k, next, job)
    PROVE  TypeOK'
<1> DEFINE rec == Line(p, events, memory[p].events, k)
           mind == [memory[p] EXCEPT !.events = Append(@, Len(events) + 1), !.job = job]
<1>1. PICK w \in Written(events, etail, rec) :
         /\ events' = w[1] /\ etail' = w[2]
         /\ \/ UNCHANGED deaths /\ Goes(p, next, mind)
            \/ Dies(p)
  BY DEF AppendEvent
<1>2. rec \in Record  BY MindFields, LineType DEF TypeOK
<1>3. events' \in Seq(Record) /\ etail' \in Tails
  <2>1. events \in Seq(Record) /\ etail \in Tails  BY DEF TypeOK
  <2> QED  BY <1>1, <1>2, <2>1, WrittenType
<1>4. mind \in Minds
  <2>1. Append(memory[p].events, Len(events) + 1) \in Seq(Nat)  BY MindFields DEF TypeOK
  <2> QED  BY <2>1, MindFields DEF Minds
<1>5. at' \in [Procs -> Steps] /\ memory' \in [Procs -> Minds] /\ deaths' \in 0..MaxDeaths
  BY <1>1, <1>4, GoesType, DiesType DEF TypeOK
<1> QED  BY <1>3, <1>5 DEF AppendEvent, TypeOK, Steps, proof, rest

LEMMA AdoptType ==
    ASSUME TypeOK, NEW mind \in Seq(Nat)
    PROVE  Adopt(mind) \in Seq(Nat)
<1>1. CASE evidence = <<>> \/ vtail = "fragment"  BY <1>1 DEF Adopt
<1>2. CASE evidence # <<>> /\ vtail # "fragment"
  <2>1. evidence \in Seq(Record) /\ Len(evidence) \in 1..Len(evidence)
    BY <1>2, EmptySeq, LenProperties DEF TypeOK
  <2>2. evidence[Len(evidence)] \in Record  BY <2>1, ElementOfSeq
  <2>3. Last(evidence).uid \in Nat  BY <2>2 DEF Last, Record
  <2>4. Append(mind, Last(evidence).uid) \in Seq(Nat)  BY <2>3
  <2> QED  BY <1>2, <2>4 DEF Adopt
<1> QED  BY <1>1, <1>2

LEMMA EvidenceTypes ==
    ASSUME TypeOK, NEW p \in Procs, AdoptTail(p) \/ AppendEvidence(p) \/ RecordEvidence(p)
    PROVE  TypeOK'
<1>1. CASE AdoptTail(p)
  <2>1. [memory[p] EXCEPT !.evidence = Adopt(@)] \in Minds
    BY MindFields, AdoptType DEF Minds
  <2>2. at' \in [Procs -> Steps] /\ memory' \in [Procs -> Minds]
    BY <1>1, <2>1, GoesType DEF AdoptTail, Steps
  <2>3. raced' \in BOOLEAN  BY <1>1 DEF AdoptTail, TypeOK
  <2> QED  BY <1>1, <2>2, <2>3 DEF AdoptTail, TypeOK, Steps, log, proof, rest
<1>2. CASE AppendEvidence(p)
  <2> DEFINE rec == Line(p, evidence, memory[p].evidence, "evidence")
             mind == [memory[p] EXCEPT !.evidence = Append(@, Len(evidence) + 1)]
  <2>1. PICK w \in Written(evidence, vtail, rec) :
           /\ evidence' = w[1] /\ vtail' = w[2]
           /\ \/ UNCHANGED deaths /\ Goes(p, "recording", mind)
              \/ Dies(p)
    BY <1>2 DEF AppendEvidence
  <2>2. rec \in Record  BY MindFields, LineType DEF TypeOK, Kinds
  <2>3. evidence' \in Seq(Record) /\ vtail' \in Tails
    <3>1. evidence \in Seq(Record) /\ vtail \in Tails  BY DEF TypeOK
    <3> QED  BY <2>1, <2>2, <3>1, WrittenType
  <2>4. mind \in Minds
    <3>1. Append(memory[p].evidence, Len(evidence) + 1) \in Seq(Nat)  BY MindFields DEF TypeOK
    <3> QED  BY <3>1, MindFields DEF Minds
  <2>5. at' \in [Procs -> Steps] /\ memory' \in [Procs -> Minds] /\ deaths' \in 0..MaxDeaths
    <3>1. "recording" \in Steps  BY DEF Steps
    <3> QED  BY <2>1, <2>4, <3>1, GoesType, DiesType DEF TypeOK
  <2>6. raced' \in BOOLEAN /\ late' \in BOOLEAN  BY <1>2 DEF AppendEvidence, TypeOK
  <2> QED  BY <1>2, <2>3, <2>5, <2>6 DEF AppendEvidence, TypeOK, Steps, log, rest
<1>3. CASE RecordEvidence(p)
  BY <1>3, AppendEventType, MindFields DEF RecordEvidence, Kinds, Steps
<1> QED  BY <1>1, <1>2, <1>3

LEMMA PersistType ==
    ASSUME TypeOK, NEW p \in Procs, NEW next \in Steps, NEW mind \in Minds, Persist(p, next, mind)
    PROVE  /\ at' \in [Procs -> Steps] /\ memory' \in [Procs -> Minds]
           /\ deaths' \in 0..MaxDeaths /\ followups' \in FollowupsFile /\ torn' \in BOOLEAN
<1>1. mind.followups \in FollowupsFile  BY DEF Minds
<1> QED  BY <1>1, GoesType, DiesType DEF Persist, TypeOK

LEMMA OpensType ==
    ASSUME TypeOK, NEW p \in Procs, NEW next \in Steps, NEW job \in Followups \cup {"none"},
           Opens(p, next, job)
    PROVE  TypeOK'
<1> DEFINE mind == [events |-> Uids(events), evidence |-> Uids(evidence),
                    followups |-> followups, job |-> job]
<1>1. mind \in Minds  BY UidsType DEF TypeOK, Minds
<1>2. at' \in [Procs -> Steps] /\ memory' \in [Procs -> Minds]
  BY <1>1, GoesType DEF Opens
<1>3. shared' \in BOOLEAN  BY DEF Opens, TypeOK
<1> QED  BY <1>2, <1>3 DEF Opens, TypeOK, Steps, log, proof, rest

LEMMA OwnerTypes == TypeOK /\ OwnerStep => TypeOK'
<1> SUFFICES ASSUME TypeOK, OwnerStep PROVE TypeOK'  OBVIOUS
<1>0. Owner \in Procs /\ memory[Owner] \in Minds  BY MindFields DEF Procs
<1>1. CASE AddEvidence
  <2>1. at' \in [Procs -> Steps] /\ memory' \in [Procs -> Minds]
    BY <1>0, <1>1, GoesType DEF AddEvidence, Steps
  <2> QED  BY <1>1, <2>1 DEF AddEvidence, TypeOK, Steps, log, proof, rest, history
<1>2. CASE DraftFollowup
  <2>1. PICK f \in Followups :
           Persist(Owner, "drafted", [memory[Owner] EXCEPT !.followups[f] = "open", !.job = f])
    BY <1>2 DEF DraftFollowup
  <2>2. [memory[Owner] EXCEPT !.followups[f] = "open", !.job = f] \in Minds
    BY <1>0 DEF Minds, FollowupsFile
  <2>3. "drafted" \in Steps  BY DEF Steps
  <2> QED  BY <1>0, <1>2, <2>1, <2>2, <2>3, PersistType DEF DraftFollowup, TypeOK, Steps, log, proof
<1>3. CASE TellFollowup
  BY <1>0, <1>3, AppendEventType DEF TellFollowup, Kinds, Steps
<1>4. CASE Complete
  BY <1>0, <1>4, AppendEventType DEF Complete, Kinds, Steps
<1>5. CASE Anchor
  <2>1. at' \in [Procs -> Steps] /\ memory' \in [Procs -> Minds]
    BY <1>0, <1>5, GoesType DEF Anchor, Steps
  <2>2. anchors' \subseteq [head : Nat, ehead : Seq(Nat)]
    BY <1>0, <1>5, MindFields, Last0Type DEF Anchor, TypeOK
  <2> QED  BY <1>5, <2>1, <2>2 DEF Anchor, TypeOK, Steps, log, proof, history
<1>6. CASE Attest
  <2>1. at' \in [Procs -> Steps] /\ memory' \in [Procs -> Minds]
    BY <1>0, <1>6, GoesType DEF Attest, Steps
  <2>2. attestation' \in [n : Nat, head : Nat, ehead : Seq(Nat)]
    BY <1>0, <1>6, MindFields, Last0Type DEF Attest
  <2> QED  BY <1>6, <2>1, <2>2 DEF Attest, TypeOK, Steps, log, proof, history
<1>7. CASE TellAttestation
  BY <1>0, <1>7, AppendEventType DEF TellAttestation, Kinds, Steps
<1>8. CASE Resume
  BY <1>0, <1>8, OpensType DEF Resume, Steps
<1> QED  BY <1>1, <1>2, <1>3, <1>4, <1>5, <1>6, <1>7, <1>8 DEF OwnerStep

LEMMA ResolverTypes ==
    ASSUME TypeOK, NEW r \in Resolvers, ResolverStep(r)
    PROVE  TypeOK'
<1>0. r \in Procs /\ memory[r] \in Minds  BY MindFields DEF Procs
<1>1. CASE OpenFollowup(r)
  BY <1>0, <1>1, OpensType DEF OpenFollowup, Steps
<1>2. CASE MarkResolved(r)
  <2> DEFINE mind == [memory[r] EXCEPT !.followups[memory[r].job] = "resolved"]
  <2>1. Persist(r, "marked", mind)  BY <1>2 DEF MarkResolved
  <2>2. mind \in Minds  BY <1>0 DEF Minds, FollowupsFile
  <2>3. "marked" \in Steps  BY DEF Steps
  <2> QED  BY <1>0, <1>2, <2>1, <2>2, <2>3, PersistType DEF MarkResolved, TypeOK, Steps, log, proof
<1>3. CASE TellResolved(r)
  BY <1>0, <1>3, AppendEventType, MindFields DEF TellResolved, Kinds, Steps
<1>4. CASE TellProperty(r)
  BY <1>0, <1>4, AppendEventType, MindFields DEF TellProperty, Kinds, Steps
<1> QED  BY <1>1, <1>2, <1>3, <1>4 DEF ResolverStep

LEMMA TypesKept == TypeOK /\ [Next]_vars => TypeOK'
<1> SUFFICES ASSUME TypeOK, [Next]_vars PROVE TypeOK'  OBVIOUS
<1>1. ASSUME NEW p \in Procs, Crash(p) PROVE TypeOK'
  BY <1>1, DiesType DEF Crash, TypeOK, Steps, log, proof, rest
<1>2. CASE UNCHANGED vars
  BY <1>2 DEF vars, process, log, proof, rest, history, TypeOK
<1> QED  BY <1>1, <1>2, OwnerTypes, ResolverTypes, EvidenceTypes DEF Next

\* The record is well typed in every reachable state.
THEOREM TypeCorrect == Spec => []TypeOK
BY InitTypes, TypesKept, PTL DEF Spec

(***************************************************************************)
(* However writers take turns, the evidence stays loadable.                *)
(***************************************************************************)

\* The file is the chain 1, 2, 3..., nobody has a digest that is not of it, and who
\* has adopted its end is alone and has its last record.
Numbered == \A i \in DOMAIN evidence : evidence[i].uid = i /\ evidence[i].chain = i - 1
Known == \A p \in Procs : \A i \in DOMAIN memory[p].evidence :
            memory[p].evidence[i] \in 1..Len(evidence)
Adopted == \A p \in Procs :
            at[p] = "adopted" /\ vtail = "ended" => Last0(memory[p].evidence) = Len(evidence)
Alone == \A p, q \in Procs : at[p] = "adopted" /\ at[q] = "adopted" => p = q
Genuine == \A i \in DOMAIN evidence : evidence[i].kind = "evidence"
Chained == ~raced => Numbered /\ Genuine /\ Known /\ Adopted /\ Alone

LEMMA InitChained == Init => Chained
BY DEF Init, Chained, Numbered, Genuine, Known, Adopted, Alone, Blank, Procs

LEMMA UidsKnown ==
    ASSUME TypeOK, Numbered, NEW i \in DOMAIN Uids(evidence)
    PROVE  Uids(evidence)[i] \in 1..Len(evidence)
<1>1. evidence \in Seq(Record)  BY DEF TypeOK
<1>2. i \in 1..Len(evidence) /\ Uids(evidence)[i] = i
  BY <1>1, LenProperties DEF Uids, Numbered
<1> QED  BY <1>2

\* A step that leaves the evidence alone, after which a process has the evidence it
\* had, that of the file or none, and nobody has newly adopted an end.
LEMMA QuietChained ==
    ASSUME TypeOK, Chained, UNCHANGED <<evidence, vtail, raced>>, NEW p \in Procs,
           NEW next \in Steps \ {"adopted"}, NEW mind \in Minds, Goes(p, next, mind),
           mind.evidence = memory[p].evidence \/ mind.evidence = Uids(evidence)
    PROVE  Chained'
<1> SUFFICES ASSUME ~raced PROVE Chained'  BY DEF Chained
<1>0. Numbered /\ Genuine /\ Known /\ Adopted /\ Alone  BY DEF Chained
<1>1. /\ at' = [at EXCEPT ![p] = next]
      /\ \A q \in Procs : q # p => memory'[q] = memory[q]
      /\ memory'[p] = Blank \/ memory'[p] = mind
  BY DEF Goes, TypeOK
<1>2. \A q \in Procs : at'[q] = "adopted" => at[q] = "adopted" /\ memory'[q] = memory[q]
  BY <1>1 DEF TypeOK
<1>3. Known'
  <2> SUFFICES ASSUME NEW q \in Procs, NEW i \in DOMAIN memory'[q].evidence
               PROVE  memory'[q].evidence[i] \in 1..Len(evidence)
    BY DEF Known
  <2>1. CASE memory'[q] = memory[q]  BY <1>0, <2>1 DEF Known
  <2>2. CASE memory'[q] = Blank  BY <2>2 DEF Blank
  <2>3. CASE q = p /\ memory'[q] = mind
    BY <1>0, <2>3, UidsKnown DEF Known
  <2> QED  BY <1>1, <2>1, <2>2, <2>3
<1>4. Adopted' /\ Alone'  BY <1>0, <1>2 DEF Adopted, Alone
<1> QED  BY <1>0, <1>3, <1>4 DEF Chained, Numbered, Genuine

LEMMA DiesChained ==
    ASSUME TypeOK, Chained, UNCHANGED <<evidence, vtail, raced>>, NEW p \in Procs, Dies(p)
    PROVE  Chained'
<1>1. Goes(p, "dead", Blank)  BY DEF Dies
<1>2. Goes(p, "dead", memory[p])  BY <1>1 DEF Goes, Gone
<1> QED  BY <1>2, QuietChained, MindFields DEF Steps

LEMMA AppendEventChained ==
    ASSUME TypeOK, Chained, NEW p \in Procs, NEW k \in Kinds, NEW next \in Steps \ {"adopted"},
           NEW job \in Followups \cup {"none"}, AppendEvent(p, k, next, job)
    PROVE  Chained'
<1> DEFINE mind == [memory[p] EXCEPT !.events = Append(@, Len(events) + 1), !.job = job]
<1>1. Goes(p, next, mind) \/ Dies(p)  BY DEF AppendEvent
<1>2. UNCHANGED <<evidence, vtail, raced>>  BY DEF AppendEvent, proof
<1>3. mind \in Minds /\ mind.evidence = memory[p].evidence
  <2>1. Append(memory[p].events, Len(events) + 1) \in Seq(Nat)  BY MindFields DEF TypeOK
  <2> QED  BY <2>1, MindFields DEF Minds
<1> QED  BY <1>1, <1>2, <1>3, QuietChained, DiesChained

LEMMA PersistChained ==
    ASSUME TypeOK, Chained, UNCHANGED <<evidence, vtail, raced>>, NEW p \in Procs,
           NEW next \in Steps \ {"adopted"}, NEW mind \in Minds, Persist(p, next, mind),
           mind.evidence = memory[p].evidence
    PROVE  Chained'
BY QuietChained, DiesChained DEF Persist

LEMMA OpensChained ==
    ASSUME TypeOK, Chained, NEW p \in Procs, NEW next \in Steps \ {"adopted"},
           NEW job \in Followups \cup {"none"}, Opens(p, next, job)
    PROVE  Chained'
<1> DEFINE mind == [events |-> Uids(events), evidence |-> Uids(evidence),
                    followups |-> followups, job |-> job]
<1>1. mind \in Minds  BY UidsType DEF TypeOK, Minds
<1>2. Goes(p, next, mind) /\ UNCHANGED <<evidence, vtail, raced>>  BY DEF Opens, proof
<1> QED  BY <1>1, <1>2, QuietChained

LEMMA AdoptTailChained ==
    ASSUME TypeOK, Chained, NEW p \in Procs, AdoptTail(p)
    PROVE  Chained'
<1> SUFFICES ASSUME ~raced' PROVE Chained'  BY DEF Chained
<1> DEFINE mine == memory[p].evidence
<1>0. evidence \in Seq(Record) /\ mine \in Seq(Nat)  BY MindFields DEF TypeOK
<1>1. ~raced /\ \A q \in Procs : at[q] # "adopted"  BY DEF AdoptTail
<1>2. Numbered /\ Genuine /\ Known  BY <1>1 DEF Chained
<1>3. UNCHANGED <<evidence, vtail>>  BY DEF AdoptTail, proof
<1>4. /\ at' = [at EXCEPT ![p] = "adopted"]
      /\ memory' = [memory EXCEPT ![p] = [memory[p] EXCEPT !.evidence = Adopt(mine)]]
  BY DEF AdoptTail, Goes, Gone
<1>5. memory'[p].evidence = Adopt(mine)  BY <1>4, MindFields DEF TypeOK, Minds
<1>6. CASE evidence = <<>>
  <2>1. Adopt(mine) = mine  BY <1>6 DEF Adopt
  <2>2. mine = <<>>  BY <1>0, <1>2, <1>6 DEF Known
  <2> QED
    BY <1>1, <1>2, <1>3, <1>4, <1>5, <1>6, <2>1, <2>2
    DEF Chained, Numbered, Genuine, Known, Adopted, Alone, Last0, TypeOK
<1>7. CASE evidence # <<>>
  <2>0. Len(evidence) \in Nat \ {0} /\ DOMAIN evidence = 1..Len(evidence)
    BY <1>0, <1>7, EmptySeq, LenProperties
  <2>1. Last(evidence).uid = Len(evidence)  BY <1>2, <2>0 DEF Last, Numbered
  <2>2. Adopt(mine) = mine \/ Adopt(mine) = Append(mine, Len(evidence))
    BY <1>7, <2>1 DEF Adopt
  <2>3. \A i \in DOMAIN Adopt(mine) : Adopt(mine)[i] \in 1..Len(evidence)
    <3>1. \A i \in DOMAIN mine : mine[i] \in 1..Len(evidence)  BY <1>2 DEF Known
    <3>2. CASE Adopt(mine) = Append(mine, Len(evidence))
      <4>1. DOMAIN mine = 1..Len(mine) /\ Len(mine) \in Nat  BY <1>0
      <4>2. /\ DOMAIN Adopt(mine) = 1..Len(mine) + 1
            /\ \A i \in 1..Len(mine) : Adopt(mine)[i] = mine[i]
            /\ Adopt(mine)[Len(mine) + 1] = Len(evidence)
        BY <1>0, <2>0, <3>2
      <4>3. ASSUME NEW i \in 1..Len(mine) + 1 PROVE Adopt(mine)[i] \in 1..Len(evidence)
        <5> HIDE DEF mine
        <5>1. CASE i = Len(mine) + 1  BY <2>0, <4>2, <5>1
        <5>2. CASE i # Len(mine) + 1
          <6>1. i \in 1..Len(mine) BY <4>1, <5>2
          <6> QED  BY <3>1, <4>1, <4>2, <6>1
        <5> QED  BY <5>1, <5>2
      <4> QED  BY <4>2, <4>3
    <3> QED  BY <2>2, <3>1, <3>2
  <2>4. vtail = "ended" => Last0(Adopt(mine)) = Len(evidence)
    <3> DEFINE longer == Append(mine, Len(evidence))
    <3>0. Len(longer) = Len(mine) + 1 /\ longer[Len(mine) + 1] = Len(evidence) /\ longer # <<>>
      BY <1>0, <2>0
    <3>1. Last0(longer) = Len(evidence)  BY <3>0 DEF Last0, Last
    <3>2. vtail = "ended" /\ Adopt(mine) = mine => Last0(mine) = Len(evidence)
      BY <1>7, <2>0, <2>1, <3>1 DEF Adopt
    <3> QED  BY <2>2, <3>1, <3>2
  <2>5. Known'  BY <1>2, <1>3, <1>4, <1>5, <2>3 DEF Known, TypeOK
  <2>6. Adopted' /\ Alone'  BY <1>1, <1>3, <1>4, <1>5, <2>4 DEF Adopted, Alone, TypeOK
  <2> QED  BY <1>2, <1>3, <2>5, <2>6 DEF Chained, Numbered, Genuine
<1> QED  BY <1>6, <1>7

LEMMA AppendEvidenceChained ==
    ASSUME TypeOK, Chained, NEW p \in Procs, AppendEvidence(p)
    PROVE  Chained'
<1> SUFFICES ASSUME ~raced' PROVE Chained'  BY DEF Chained
<1> DEFINE mine == memory[p].evidence
           rec == Line(p, evidence, mine, "evidence")
           mind == [memory[p] EXCEPT !.evidence = Append(@, Len(evidence) + 1)]
<1>0. evidence \in Seq(Record) /\ mine \in Seq(Nat)  BY MindFields DEF TypeOK
<1>1. ~raced /\ vtail = "ended" /\ at[p] = "adopted"  BY DEF AppendEvidence
<1>2. Numbered /\ Genuine /\ Known /\ Last0(mine) = Len(evidence)
      /\ \A q \in Procs : at[q] = "adopted" => q = p
  BY <1>1 DEF Chained, Adopted, Alone
<1>3. evidence' = evidence \/ evidence' = Append(evidence, rec)
  BY <1>1 DEF AppendEvidence, Written
<1>4. \/ Goes(p, "recording", mind) /\ evidence' = Append(evidence, rec)
      \/ Goes(p, "dead", Blank)
  BY <1>1 DEF AppendEvidence, Written, Dies
<1>5. rec.uid = Len(evidence) + 1 /\ rec.chain = Len(evidence) /\ rec.kind = "evidence"
  BY <1>2 DEF Line
<1>6. Numbered' /\ Genuine'
  <2>0. Len(evidence) \in Nat /\ DOMAIN evidence = 1..Len(evidence)
    BY <1>0, LenProperties
  <2>1. CASE evidence' = evidence  BY <1>2, <2>1 DEF Numbered, Genuine
  <2>2. CASE evidence' = Append(evidence, rec)
    <3>0. rec \in Record  BY MindFields, LineType DEF TypeOK, Kinds
    <3>1. /\ DOMAIN evidence' = 1..(Len(evidence) + 1)
          /\ \A i \in 1..Len(evidence) : evidence'[i] = evidence[i]
          /\ evidence'[Len(evidence) + 1] = rec
      BY <1>0, <2>0, <2>2, <3>0
    <3> QED  BY <1>2, <1>5, <2>0, <3>1 DEF Numbered, Genuine
  <2> QED  BY <1>3, <2>1, <2>2
<1>7. Len(evidence) \in Nat /\ Len(evidence') \in Nat /\ Len(evidence) <= Len(evidence')
  BY <1>0, <1>3
<1>8. Known'
  <2> SUFFICES ASSUME NEW q \in Procs, NEW i \in DOMAIN memory'[q].evidence
               PROVE  memory'[q].evidence[i] \in 1..Len(evidence')
    BY DEF Known
  <2>1. CASE memory'[q] = memory[q]  BY <1>2, <1>7, <2>1 DEF Known
  <2>2. CASE memory'[q] = Blank  BY <2>2 DEF Blank
  <2>3. CASE q = p /\ memory'[q] = mind /\ evidence' = Append(evidence, rec)
    <3>1. memory'[q].evidence = Append(mine, Len(evidence) + 1)
      BY <2>3, MindFields DEF Minds
    <3>2. Len(mine) \in Nat /\ Len(evidence) \in Nat /\ Len(evidence') = Len(evidence) + 1
      BY <1>0, <2>3
    <3>3. i \in 1..(Len(mine) + 1)  BY <1>0, <3>1
    <3> HIDE DEF mine
    <3>4. CASE i = Len(mine) + 1
      <4>1. memory'[q].evidence[i] = Len(evidence) + 1  BY <1>0, <3>1, <3>2, <3>4
      <4> QED  BY <3>2, <4>1
    <3>5. CASE i # Len(mine) + 1
      <4>1. i \in 1..Len(mine)  BY <3>2, <3>3, <3>5
      <4>2. memory'[q].evidence[i] = mine[i]  BY <1>0, <3>1, <3>2, <4>1
      <4>3. mine[i] \in 1..Len(evidence)  BY <1>0, <1>2, <4>1 DEF Known, mine
      <4> QED  BY <3>2, <4>2, <4>3
    <3> QED  BY <3>4, <3>5
  <2> QED  BY <1>4, <2>1, <2>2, <2>3 DEF Goes, Gone, TypeOK
<1>9. Adopted' /\ Alone'
  <2>1. at' = [at EXCEPT ![p] = "recording"] \/ at' = [at EXCEPT ![p] = "dead"]
    BY <1>4 DEF Goes
  <2>2. \A q \in Procs : at'[q] # "adopted"  BY <1>2, <2>1 DEF TypeOK
  <2> QED  BY <2>2 DEF Adopted, Alone
<1> QED  BY <1>6, <1>8, <1>9 DEF Chained

LEMMA OwnerChained == TypeOK /\ Chained /\ OwnerStep => Chained'
<1> SUFFICES ASSUME TypeOK, Chained, OwnerStep PROVE Chained'  OBVIOUS
<1>0. Owner \in Procs /\ memory[Owner] \in Minds  BY MindFields DEF Procs
<1>1. CASE AddEvidence
  BY <1>0, <1>1, QuietChained DEF AddEvidence, Steps, proof, history
<1>2. CASE DraftFollowup
  <2>1. PICK f \in Followups :
           Persist(Owner, "drafted", [memory[Owner] EXCEPT !.followups[f] = "open", !.job = f])
    BY <1>2 DEF DraftFollowup
  <2>2. [memory[Owner] EXCEPT !.followups[f] = "open", !.job = f] \in Minds
    BY <1>0 DEF Minds, FollowupsFile
  <2> QED  BY <1>0, <1>2, <2>1, <2>2, PersistChained DEF DraftFollowup, Steps, Minds, proof
<1>3. CASE TellFollowup
  BY <1>0, <1>3, AppendEventChained DEF TellFollowup, Kinds, Steps
<1>4. CASE Complete
  BY <1>0, <1>4, AppendEventChained DEF Complete, Kinds, Steps
<1>5. CASE Anchor \/ Attest
  BY <1>0, <1>5, QuietChained DEF Anchor, Attest, Steps, proof, history
<1>6. CASE TellAttestation
  BY <1>0, <1>6, AppendEventChained DEF TellAttestation, Kinds, Steps
<1>7. CASE Resume
  BY <1>0, <1>7, OpensChained DEF Resume, Steps
<1> QED  BY <1>1, <1>2, <1>3, <1>4, <1>5, <1>6, <1>7 DEF OwnerStep

LEMMA ResolverChained ==
    ASSUME TypeOK, Chained, NEW r \in Resolvers, ResolverStep(r)
    PROVE  Chained'
<1>0. r \in Procs /\ memory[r] \in Minds  BY MindFields DEF Procs
<1>1. CASE OpenFollowup(r)
  BY <1>0, <1>1, OpensChained DEF OpenFollowup, Steps
<1>2. CASE MarkResolved(r)
  <2> DEFINE mind == [memory[r] EXCEPT !.followups[memory[r].job] = "resolved"]
  <2>1. Persist(r, "marked", mind)  BY <1>2 DEF MarkResolved
  <2>2. mind \in Minds /\ mind.evidence = memory[r].evidence  BY <1>0 DEF Minds, FollowupsFile
  <2> QED  BY <1>0, <1>2, <2>1, <2>2, PersistChained DEF MarkResolved, Steps, proof
<1>3. CASE TellResolved(r)
  BY <1>0, <1>3, AppendEventChained, MindFields DEF TellResolved, Kinds, Steps
<1>4. CASE TellProperty(r)
  BY <1>0, <1>4, AppendEventChained, MindFields DEF TellProperty, Kinds, Steps
<1> QED  BY <1>1, <1>2, <1>3, <1>4 DEF ResolverStep

LEMMA ChainKept == TypeOK /\ Chained /\ [Next]_vars => Chained'
<1> SUFFICES ASSUME TypeOK, Chained, [Next]_vars PROVE Chained'  OBVIOUS
<1>1. ASSUME NEW p \in Procs, Crash(p) PROVE Chained'
  BY <1>1, DiesChained DEF Crash, proof
<1>2. ASSUME NEW p \in Procs, RecordEvidence(p) PROVE Chained'
  BY <1>2, AppendEventChained, MindFields DEF RecordEvidence, Kinds, Steps
<1>3. CASE UNCHANGED vars
  BY <1>3 DEF vars, process, log, proof, rest, history,
              Chained, Numbered, Genuine, Known, Adopted, Alone
<1> QED  BY <1>1, <1>2, <1>3, OwnerChained, ResolverChained, AdoptTailChained,
            AppendEvidenceChained DEF Next

\* Evidence that processes with old memories add in turns is a chain load accepts,
\* unless one add falls into another or onto a torn line.
THEOREM EvidenceSurvives == Spec => []AddsKeepEvidence
<1>1. TypeOK /\ Chained => AddsKeepEvidence
  <2> SUFFICES ASSUME TypeOK, Numbered, Genuine PROVE Loads(evidence)
    BY DEF Chained, AddsKeepEvidence, EvidenceLoads
  <2>1. DOMAIN evidence = 1..Len(evidence) /\ Len(evidence) \in Nat
    BY LenProperties DEF TypeOK
  <2> QED  BY <2>1 DEF Numbered, Genuine, Loads
<1> QED  BY <1>1, InitTypes, TypesKept, InitChained, ChainKept, PTL DEF Spec

(***************************************************************************)
(* The follow-ups file and the log.                                        *)
(***************************************************************************)

\* Whoever is underway appends an event before it rests again.
Resting == Gone \cup {"working"}
Underway == {p \in Procs : at[p] \notin Resting}
UpToDate(p) == Last0(memory[p].events) = Len(events)

\* The log can still be one that load accepts: a process underway with an old memory,
\* or a second one, will break its chain.
Clean ==
    /\ Loads(events)
    /\ \A p \in Underway : UpToDate(p)
    /\ \A p, q \in Underway : p = q

\* What is so while nobody has died.
Whole ==
    /\ ~torn /\ etail = "ended"
    /\ \A i \in DOMAIN events : events[i].uid = i
    /\ \A p \in Procs : at[p] # "dead" /\ Last0(memory[p].events) <= Len(events)

\* The file says what the log tells and what is about to be told.
Told(kind, f) == \E i \in DOMAIN events : events[i].kind = kind /\ events[i].f = f
Pending(step, f) == \E p \in Procs : at[p] = step /\ memory[p].job = f
FileTells ==
    \A f \in Followups :
        /\ followups[f] = "resolved" <=> Told("resolved", f) \/ Pending("marked", f)
        /\ followups[f] # "none" <=> Told("created", f) \/ Pending("drafted", f)

\* Who knows the last event knows the file, unless another is about to tell of it.
Telling == {p \in Procs : at[p] \in {"drafted", "marked"}}
Current ==
    \A p \in Procs : at[p] \notin Gone /\ UpToDate(p) /\ Telling \subseteq {p} =>
        memory[p].followups = followups
Opened ==
    \A p \in Procs : at[p] = "opened" => /\ memory[p].job \in Followups
                                         /\ memory[p].followups[memory[p].job] = "open"
Files == Opened /\ (deaths = 0 => Whole /\ (Clean => FileTells /\ Current))

LEMMA InitFiles == Init => Files
<1> SUFFICES ASSUME Init PROVE Files  OBVIOUS
<1>1. events = <<>> /\ DOMAIN events = {} /\ Len(events) = 0  BY DEF Init
<1>2. \A p \in Procs : /\ at[p] \in {"working", "out"} /\ memory[p] = Blank
                       /\ Last0(memory[p].events) = 0
  BY DEF Init, Blank, Last0
<1>3. Opened  BY <1>2 DEF Opened
<1>4. Whole  BY <1>1, <1>2 DEF Whole, Init
<1>5. FileTells  BY <1>1, <1>2 DEF FileTells, Told, Pending, Init, Blank
<1>6. Current  BY <1>2 DEF Current, Init, Blank
<1> QED  BY <1>3, <1>4, <1>5, <1>6 DEF Files

\* What a process that goes on changes.
LEMMA Going ==
    ASSUME TypeOK, NEW p \in Procs, NEW next \in Steps, NEW mind, Goes(p, next, mind)
    PROVE  /\ at'[p] = next /\ \A q \in Procs : q # p => at'[q] = at[q] /\ memory'[q] = memory[q]
           /\ memory'[p] = IF next \in Gone THEN Blank ELSE mind
BY DEF Goes, TypeOK

LEMMA OpenedKept ==
    ASSUME TypeOK, Opened, NEW p \in Procs, NEW next \in Steps \ {"opened"}, NEW mind,
           Goes(p, next, mind)
    PROVE  Opened'
BY Going DEF Opened

LEMMA DyingFiles ==
    ASSUME TypeOK, Files, NEW p \in Procs, Dies(p)
    PROVE  Files'
<1>1. Goes(p, "dead", Blank) /\ deaths' = deaths + 1 /\ deaths \in Nat
  BY RecordsAssumption DEF Dies, TypeOK
<1>2. Opened'  BY <1>1, OpenedKept DEF Files, Steps
<1>3. deaths' # 0  BY <1>1
<1> QED  BY <1>2, <1>3 DEF Files

\* A process underway, or at work, does something with neither the log nor the file.
LEMMA QuietFiles ==
    ASSUME TypeOK, Files, NEW p \in Procs, at[p] \notin Gone \cup {"opened", "drafted", "marked"},
           NEW next \in {"adding", "adopted", "recording", "anchored", "attested"},
           NEW mind \in Minds, Goes(p, next, mind), mind.events = memory[p].events,
           mind.followups = memory[p].followups,
           UNCHANGED <<events, etail, followups, torn, deaths>>
    PROVE  Files'
<1>0. /\ at'[p] = next /\ \A q \in Procs : q # p => at'[q] = at[q] /\ memory'[q] = memory[q]
      /\ memory'[p] = mind
  BY Going DEF Steps, Gone
<1>1. Opened'  BY <1>0, OpenedKept DEF Files, Steps
<1> SUFFICES ASSUME deaths = 0 PROVE Whole' /\ (Clean' => FileTells' /\ Current')
  BY <1>1 DEF Files
<1>2. Whole'  BY <1>0 DEF Files, Whole
<1> SUFFICES ASSUME Clean' PROVE FileTells' /\ Current'  BY <1>2
<1>3. \A q \in Procs : UpToDate(q)' <=> UpToDate(q)  BY <1>0 DEF UpToDate
<1>4. \A q \in Underway : q \in Underway'  BY <1>0 DEF Underway, Resting, Gone
<1>5. Clean
  <2>1. Loads(events)  BY DEF Clean, Loads
  <2>2. \A q \in Underway : q \in Procs  BY DEF Underway
  <2> QED  BY <1>3, <1>4, <2>1, <2>2 DEF Clean
<1>6. FileTells /\ Current  BY <1>5 DEF Files
<1>7. FileTells'
  <2>1. \A f \in Followups : /\ Pending("marked", f)' <=> Pending("marked", f)
                             /\ Pending("drafted", f)' <=> Pending("drafted", f)
    BY <1>0 DEF Pending
  <2>2. \A f \in Followups : /\ Told("resolved", f)' <=> Told("resolved", f)
                             /\ Told("created", f)' <=> Told("created", f)
    BY DEF Told
  <2> QED  BY <1>6, <2>1, <2>2 DEF FileTells
<1>8. Current'
  <2>1. Telling' = Telling  BY <1>0 DEF Telling
  <2>2. \A q \in Procs : /\ memory'[q].followups = memory[q].followups
                         /\ at'[q] \notin Gone => at[q] \notin Gone
    BY <1>0
  <2> QED  BY <1>3, <1>6, <2>1, <2>2 DEF Current
<1> QED  BY <1>7, <1>8

\* An event that nobody died of is in the log.
LEMMA Appended ==
    ASSUME TypeOK, NEW p \in Procs, NEW k \in Kinds, NEW next \in Steps,
           NEW job \in Followups \cup {"none"}, AppendEvent(p, k, next, job),
           etail = "ended", deaths = 0, deaths' = 0
    PROVE  LET rec == Line(p, events, memory[p].events, k)
               mind == [memory[p] EXCEPT !.events = Append(@, Len(events) + 1), !.job = job]
           IN  /\ rec \in Record /\ mind \in Minds
               /\ events' = Append(events, rec) /\ etail' = "ended"
               /\ Len(events') = Len(events) + 1 /\ events'[Len(events) + 1] = rec
               /\ DOMAIN events = 1..Len(events) /\ DOMAIN events' = 1..Len(events) + 1
               /\ \A i \in DOMAIN events : events'[i] = events[i]
               /\ Goes(p, next, mind)
<1> DEFINE rec == Line(p, events, memory[p].events, k)
           mind == [memory[p] EXCEPT !.events = Append(@, Len(events) + 1), !.job = job]
<1>0. events \in Seq(Record) /\ Len(events) \in Nat  BY DEF TypeOK
<1>1. rec \in Record  BY <1>0, MindFields, LineType
<1>2. mind \in Minds
  <2>1. Append(memory[p].events, Len(events) + 1) \in Seq(Nat)  BY <1>0, MindFields
  <2> QED  BY <2>1, MindFields DEF Minds
<1>3. PICK w \in Written(events, etail, rec) :
         /\ events' = w[1] /\ etail' = w[2]
         /\ \/ w[2] = "ended" /\ UNCHANGED deaths /\ Goes(p, next, mind)
            \/ w[2] # "ended" /\ Dies(p)
  BY DEF AppendEvent
<1>4. ~Dies(p)  BY DEF Dies
<1>5. w = <<Append(events, rec), "ended">> /\ Goes(p, next, mind)
  BY <1>3, <1>4 DEF Written
<1>6. events' = Append(events, rec) /\ etail' = "ended"  BY <1>3, <1>5
<1> HIDE DEF rec, mind
<1>7. /\ Len(events') = Len(events) + 1 /\ events'[Len(events) + 1] = rec
      /\ DOMAIN events = 1..Len(events) /\ DOMAIN events' = 1..Len(events) + 1
      /\ \A i \in DOMAIN events : events'[i] = events[i]
  BY <1>0, <1>1, <1>6
<1> QED  BY <1>1, <1>2, <1>5, <1>6, <1>7 DEF rec, mind

LEMMA LastAppended ==
    ASSUME NEW s \in Seq(Nat), NEW n \in Nat
    PROVE  Append(s, n) \in Seq(Nat) /\ Last0(Append(s, n)) = n
<1>1. /\ Append(s, n) \in Seq(Nat) /\ Len(Append(s, n)) = Len(s) + 1
      /\ Append(s, n)[Len(s) + 1] = n /\ Append(s, n) # <<>>
  OBVIOUS
<1> QED  BY <1>1 DEF Last0, Last

\* An event keeps the log loadable only if its writer knew the last one, and nobody
\* else is underway then.
LEMMA AppendEventFiles ==
    ASSUME TypeOK, Files, NEW p \in Procs, NEW k \in Kinds,
           NEW next \in Steps \ {"opened", "drafted", "marked", "dead"},
           NEW job \in Followups \cup {"none"}, at[p] \notin Gone \cup {"opened"},
           at[p] = "drafted" <=> k = "created", at[p] = "marked" <=> k = "resolved",
           AppendEvent(p, k, next, job)
    PROVE  Files'
<1> DEFINE L == Len(events)
           rec == Line(p, events, memory[p].events, k)
           mind == [memory[p] EXCEPT !.events = Append(@, L + 1), !.job = job]
<1>0. PICK w : /\ w \in Written(events, etail, rec)
               /\ \/ w[2] = "ended" /\ UNCHANGED deaths /\ Goes(p, next, mind)
                  \/ w[2] # "ended" /\ Dies(p)
  BY DEF AppendEvent
<1>1. CASE Dies(p)  BY <1>1, DyingFiles
<1>2. CASE UNCHANGED deaths /\ Goes(p, next, mind)
  <2>1. Opened'  BY <1>2, OpenedKept DEF Files
  <2> SUFFICES ASSUME deaths = 0, deaths' = 0 PROVE Whole' /\ (Clean' => FileTells' /\ Current')
    BY <1>2, <2>1 DEF Files
  <2>2. Whole  BY DEF Files
  <2>3. etail = "ended"  BY <2>2 DEF Whole
  <2>4. /\ rec \in Record /\ mind \in Minds
        /\ events' = Append(events, rec) /\ etail' = "ended"
        /\ Len(events') = L + 1 /\ events'[L + 1] = rec
        /\ DOMAIN events = 1..L /\ DOMAIN events' = 1..L + 1
        /\ \A i \in DOMAIN events : events'[i] = events[i]
    BY <2>3, Appended
  <2>5. /\ at'[p] = next /\ \A q \in Procs : q # p => at'[q] = at[q] /\ memory'[q] = memory[q]
        /\ memory'[p] = IF next \in Gone THEN Blank ELSE mind
    BY <1>2, Going
  <2>6. rec.uid = L + 1 /\ rec.chain = Last0(memory[p].events) /\ rec.kind = k
        /\ rec.f = memory[p].job
    BY DEF Line
  <2>7. mind.events = Append(memory[p].events, L + 1) /\ mind.followups = memory[p].followups
    BY MindFields DEF Minds
  <2>8. L \in Nat /\ torn' = torn /\ followups' = followups
    BY DEF TypeOK, AppendEvent, rest
  <2> HIDE DEF L, rec, mind
  <2>9. Last0(mind.events) = L + 1  BY <2>7, <2>8, LastAppended, MindFields
  <2>10. /\ \A q \in Procs : q # p => Last0(memory'[q].events) <= L
         /\ Last0(memory'[p].events) \in {0, L + 1}
    BY <2>2, <2>5, <2>9 DEF Whole, Blank, Last0, L
  <2>11. Whole'
    <3>1. \A i \in DOMAIN events' : events'[i].uid = i
      BY <2>2, <2>4, <2>6, <2>8 DEF Whole
    <3>2. \A q \in Procs : at'[q] # "dead" /\ Last0(memory'[q].events) <= L + 1
      <4> TAKE q \in Procs
      <4>1. CASE q = p  BY <2>5, <2>8, <2>10, <4>1
      <4>2. CASE q # p
        <5>1. Last0(memory'[q].events) \in Nat  BY <2>5, <4>2, MindFields, Last0Type
        <5> QED  BY <2>2, <2>5, <2>8, <2>10, <4>2, <5>1 DEF Whole
      <4> QED  BY <4>1, <4>2
    <3> QED  BY <2>2, <2>4, <2>8, <3>1, <3>2 DEF Whole
  <2> SUFFICES ASSUME Clean' PROVE FileTells' /\ Current'  BY <2>11
  <2>12. Loads(events')  BY DEF Clean
  <2>13. Loads(events) /\ Last0(memory[p].events) = L
    <3>1. \A i \in DOMAIN events : events[i].kind # "junk"
                                   /\ events[i].chain = IF i = 1 THEN 0 ELSE events[i - 1].uid
      <4> TAKE i \in DOMAIN events
      <4>1. i \in DOMAIN events' /\ events'[i] = events[i]  BY <2>4, <2>8
      <4>2. i # 1 => i - 1 \in DOMAIN events /\ events'[i - 1] = events[i - 1]
        BY <2>4, <2>8
      <4> QED  BY <2>12, <4>1, <4>2 DEF Loads
    <3>2. rec.chain = IF L + 1 = 1 THEN 0 ELSE events'[(L + 1) - 1].uid
      <4>1. L + 1 \in DOMAIN events'  BY <2>4, <2>8
      <4> QED  BY <2>4, <2>12, <4>1 DEF Loads
    <3>3. L # 0 => L \in DOMAIN events /\ events'[L].uid = L
      BY <2>2, <2>4, <2>8 DEF Whole
    <3> QED  BY <2>6, <2>8, <3>1, <3>2, <3>3 DEF Loads
  <2>14. Underway \subseteq {p}
    <3> SUFFICES ASSUME NEW q \in Procs, q \in Underway, q # p PROVE FALSE  BY DEF Underway
    <3>1. q \in Underway'  BY <2>5 DEF Underway
    <3>2. Last0(memory'[q].events) = L + 1  BY <2>4, <3>1 DEF Clean, UpToDate
    <3> QED  BY <2>8, <2>10, <3>2
  <2>15. Clean /\ UpToDate(p)
    BY <2>13, <2>14 DEF Clean, UpToDate, L
  <2>16. FileTells /\ Current  BY <2>15 DEF Files
  <2>17. \A q \in Procs : at[q] \in {"drafted", "marked"} => q = p
    BY <2>14 DEF Underway, Resting, Gone
  <2>18. FileTells'
    <3> SUFFICES ASSUME NEW f \in Followups
                 PROVE  /\ followups[f] = "resolved" <=> Told("resolved", f)' \/ Pending("marked", f)'
                        /\ followups[f] # "none" <=> Told("created", f)' \/ Pending("drafted", f)'
      BY <2>8 DEF FileTells
    <3>1. ~Pending("marked", f)' /\ ~Pending("drafted", f)'  BY <2>5, <2>17 DEF Pending
    <3>2. /\ Pending("marked", f) <=> k = "resolved" /\ memory[p].job = f
          /\ Pending("drafted", f) <=> k = "created" /\ memory[p].job = f
      BY <2>17 DEF Pending
    <3>3. ASSUME NEW kind PROVE Told(kind, f)' <=> Told(kind, f) \/ (k = kind /\ memory[p].job = f)
      <4>1. \A i : i \in DOMAIN events' <=> i \in DOMAIN events \/ i = L + 1  BY <2>4, <2>8
      <4> QED  BY <2>4, <2>6, <4>1 DEF Told
    <3>4. Told("resolved", f)' <=> Told("resolved", f) \/ (k = "resolved" /\ memory[p].job = f)
      BY <3>3
    <3>5. Told("created", f)' <=> Told("created", f) \/ (k = "created" /\ memory[p].job = f)
      BY <3>3
    <3> QED  BY <2>16, <3>1, <3>2, <3>4, <3>5 DEF FileTells
  <2>19. Current'
    <3> SUFFICES ASSUME NEW q \in Procs, at'[q] \notin Gone,
                        Last0(memory'[q].events) = L + 1
                 PROVE  memory'[q].followups = followups
      BY <2>4, <2>8 DEF Current, UpToDate
    <3>1. q = p  BY <2>8, <2>10
    <3>2. memory'[q].followups = memory[p].followups  BY <2>5, <2>7, <3>1
    <3>3. Telling \subseteq {p}  BY <2>17 DEF Telling
    <3> QED  BY <2>15, <2>16, <3>2, <3>3 DEF Current
  <2> QED  BY <2>18, <2>19
<1> QED  BY <1>0, <1>1, <1>2

\* The last digest of a log that is numbered from one is its length.
LEMMA LastUid ==
    ASSUME NEW lines \in Seq(Record), \A i \in DOMAIN lines : lines[i].uid = i
    PROVE  /\ Uids(lines) \in Seq(Nat) /\ Len(Uids(lines)) = Len(lines)
           /\ Last0(Uids(lines)) = Len(lines)
<1>1. Len(lines) \in Nat /\ DOMAIN lines = 1..Len(lines)  BY LenProperties
<1>2. Uids(lines) \in Seq(Nat) /\ Len(Uids(lines)) = Len(lines)
  <2>1. Uids(lines) \in Seq(Nat)  BY UidsType
  <2>2. DOMAIN Uids(lines) = 1..Len(lines)  BY <1>1 DEF Uids
  <2> QED  BY <1>1, <2>1, <2>2, LenProperties
<1>3. CASE Len(lines) = 0
  <2>1. Uids(lines) = <<>>  BY <1>2, <1>3, EmptySeq
  <2> QED  BY <1>2, <1>3, <2>1 DEF Last0
<1>4. CASE Len(lines) # 0
  <2>1. Len(lines) \in DOMAIN lines /\ Uids(lines) # <<>>  BY <1>1, <1>2, <1>4, EmptySeq
  <2>2. Uids(lines)[Len(lines)] = Len(lines)  BY <2>1 DEF Uids
  <2> QED  BY <1>2, <2>1, <2>2 DEF Last0, Last
<1> QED  BY <1>2, <1>3, <1>4

\* The file is rewritten before the event of it: by who draws up a follow-up, or by who
\* resolves one.
LEMMA PersistFiles ==
    ASSUME TypeOK, Files, NEW p \in Procs, at[p] \in {"working", "opened"},
           NEW next \in {"drafted", "marked"}, NEW f \in Followups,
           NEW mind \in Minds, mind.events = memory[p].events, mind.job = f,
           mind.followups = [memory[p].followups EXCEPT
                               ![f] = IF next = "drafted" THEN "open" ELSE "resolved"],
           memory[p].followups[f] = IF next = "drafted" THEN "none" ELSE "open",
           Persist(p, next, mind), UNCHANGED <<events, etail>>
    PROVE  Files'
<1>1. CASE Dies(p)  BY <1>1, DyingFiles
<1>2. CASE followups' = mind.followups /\ torn' = FALSE /\ Goes(p, next, mind) /\ UNCHANGED deaths
  <2>0. /\ at'[p] = next /\ \A q \in Procs : q # p => at'[q] = at[q] /\ memory'[q] = memory[q]
        /\ memory'[p] = mind
    BY <1>2, Going DEF Steps, Gone
  <2>1. Opened'  BY <1>2, OpenedKept DEF Files, Steps
  <2> SUFFICES ASSUME deaths = 0 PROVE Whole' /\ (Clean' => FileTells' /\ Current')
    BY <1>2, <2>1 DEF Files
  <2>2. Whole'  BY <1>2, <2>0 DEF Files, Whole
  <2> SUFFICES ASSUME Clean' PROVE FileTells' /\ Current'  BY <2>2
  <2>3. p \in Underway'  BY <2>0 DEF Underway, Resting, Gone
  <2>4. Underway \subseteq {p}
    <3> SUFFICES ASSUME NEW q \in Procs, q \in Underway, q # p PROVE FALSE  BY DEF Underway
    <3>1. q \in Underway'  BY <2>0 DEF Underway
    <3> QED  BY <2>3, <3>1 DEF Clean
  <2>5. UpToDate(p)
    <3>1. UpToDate(p)'  BY <2>3 DEF Clean
    <3> QED  BY <2>0, <3>1 DEF UpToDate
  <2>6. Loads(events)  BY DEF Clean, Loads
  <2>7. FileTells /\ Current  BY <2>4, <2>5, <2>6 DEF Files, Clean
  <2>8. \A q \in Procs : at[q] \notin {"drafted", "marked"}
    BY <2>4 DEF Underway, Resting, Gone
  <2>9. memory[p].followups = followups
    BY <2>5, <2>7, <2>8 DEF Current, Telling, Gone
  <2>10. followups \in FollowupsFile
         /\ followups' = [followups EXCEPT ![f] = IF next = "drafted" THEN "open" ELSE "resolved"]
    BY <1>2, <2>9 DEF TypeOK
  <2>11. FileTells'
    <3> SUFFICES ASSUME NEW g \in Followups
                 PROVE  /\ followups'[g] = "resolved" <=> Told("resolved", g)' \/ Pending("marked", g)'
                        /\ followups'[g] # "none" <=> Told("created", g)' \/ Pending("drafted", g)'
      BY DEF FileTells
    <3>1. /\ Told("resolved", g)' <=> Told("resolved", g)
          /\ Told("created", g)' <=> Told("created", g)
      BY DEF Told
    <3>2. ~Pending("marked", g) /\ ~Pending("drafted", g)  BY <2>8 DEF Pending
    <3>3. /\ Pending("marked", g)' <=> next = "marked" /\ g = f
          /\ Pending("drafted", g)' <=> next = "drafted" /\ g = f
      BY <2>0, <2>8 DEF Pending
    <3>4. /\ followups[g] = "resolved" <=> Told("resolved", g)
          /\ followups[g] # "none" <=> Told("created", g)
      BY <2>7, <3>2 DEF FileTells
    <3>5. CASE g # f  BY <2>10, <3>1, <3>3, <3>4, <3>5 DEF FollowupsFile
    <3>6. CASE g = f
      <4>1. followups[g] = IF next = "drafted" THEN "none" ELSE "open"  BY <2>9, <3>6
      <4>2. followups'[g] = IF next = "drafted" THEN "open" ELSE "resolved"
        BY <2>10, <3>6 DEF FollowupsFile
      <4>3. CASE next = "drafted"  BY <3>1, <3>3, <3>4, <3>6, <4>1, <4>2, <4>3
      <4>4. CASE next = "marked"  BY <3>1, <3>3, <3>4, <3>6, <4>1, <4>2, <4>4
      <4> QED  BY <4>3, <4>4
    <3> QED  BY <3>5, <3>6
  <2>12. Current'
    <3>1. Telling' = {p}  BY <2>0, <2>8 DEF Telling
    <3>2. memory'[p].followups = followups'  BY <1>2, <2>0
    <3> QED  BY <3>1, <3>2 DEF Current
  <2> QED  BY <2>11, <2>12
<1> QED  BY <1>1, <1>2 DEF Persist

\* Who opens the record reads the file as it is.
LEMMA OpensFiles ==
    ASSUME TypeOK, Files, NEW p \in Procs, at[p] \in Gone, NEW f \in Followups,
           followups[f] = "open", Opens(p, "opened", f)
    PROVE  Files'
<1> DEFINE mind == [events |-> Uids(events), evidence |-> Uids(evidence),
                    followups |-> followups, job |-> f]
<1>0. /\ at'[p] = "opened" /\ memory'[p] = mind
      /\ \A q \in Procs : q # p => at'[q] = at[q] /\ memory'[q] = memory[q]
  BY Going DEF Opens, Steps, Gone
<1>1. UNCHANGED <<events, etail, followups, torn, deaths>>  BY DEF Opens, log, rest
<1>2. Opened'  BY <1>0 DEF Files, Opened
<1> SUFFICES ASSUME deaths = 0 PROVE Whole' /\ (Clean' => FileTells' /\ Current')
  BY <1>1, <1>2 DEF Files
<1>3. Whole  BY DEF Files
<1>4. Last0(Uids(events)) = Len(events)  BY <1>3, LastUid DEF Whole, TypeOK
<1>5. Whole'
  <2>1. Last0(memory'[p].events) <= Len(events)
    <3>1. Len(events) \in Nat  BY DEF TypeOK
    <3> QED  BY <1>0, <1>4, <3>1
  <2> QED  BY <1>0, <1>1, <1>3, <2>1 DEF Whole
<1> SUFFICES ASSUME Clean' PROVE FileTells' /\ Current'  BY <1>5
<1>6. Underway = {}
  <2> SUFFICES ASSUME NEW q \in Procs, q \in Underway PROVE FALSE  BY DEF Underway
  <2>1. q # p  BY DEF Underway, Resting
  <2>2. q \in Underway' /\ p \in Underway'
    BY <1>0, <2>1 DEF Underway, Resting, Gone
  <2> QED  BY <2>1, <2>2 DEF Clean
<1>7. Loads(events)  BY <1>1 DEF Clean, Loads
<1>8. FileTells /\ Current  BY <1>6, <1>7 DEF Files, Clean
<1>9. \A q \in Procs : at[q] \notin {"drafted", "marked"}
  BY <1>6 DEF Underway, Resting, Gone
<1>10. FileTells'
  <2>1. \A g \in Followups : /\ Pending("marked", g)' <=> Pending("marked", g)
                             /\ Pending("drafted", g)' <=> Pending("drafted", g)
    BY <1>0, <1>9 DEF Pending
  <2>2. \A g \in Followups : /\ Told("resolved", g)' <=> Told("resolved", g)
                             /\ Told("created", g)' <=> Told("created", g)
    BY <1>1 DEF Told
  <2> QED  BY <1>1, <1>8, <2>1, <2>2 DEF FileTells
<1>11. Current'
  <2> SUFFICES ASSUME NEW q \in Procs, at'[q] \notin Gone, UpToDate(q)'
               PROVE  memory'[q].followups = followups
    BY <1>1 DEF Current
  <2>1. CASE q = p  BY <1>0, <2>1
  <2>2. CASE q # p
    <3>1. UpToDate(q) /\ at[q] \notin Gone  BY <1>0, <1>1, <2>2 DEF UpToDate
    <3>2. Telling \subseteq {q}  BY <1>9 DEF Telling
    <3> QED  BY <1>0, <1>8, <2>2, <3>1, <3>2 DEF Current
  <2> QED  BY <2>1, <2>2
<1> QED  BY <1>10, <1>11

LEMMA OwnerFiles == TypeOK /\ Files /\ OwnerStep => Files'
<1> SUFFICES ASSUME TypeOK, Files, OwnerStep PROVE Files'  OBVIOUS
<1>0. Owner \in Procs /\ memory[Owner] \in Minds  BY MindFields DEF Procs
<1>1. CASE AddEvidence
  BY <1>0, <1>1, QuietFiles DEF AddEvidence, Gone, log, rest, history
<1>2. CASE DraftFollowup
  <2>1. PICK f \in Followups :
           /\ memory[Owner].followups[f] = "none"
           /\ Persist(Owner, "drafted", [memory[Owner] EXCEPT !.followups[f] = "open", !.job = f])
    BY <1>2 DEF DraftFollowup
  <2> DEFINE mind == [memory[Owner] EXCEPT !.followups[f] = "open", !.job = f]
  <2>2. mind \in Minds  BY <1>0 DEF Minds, FollowupsFile
  <2>3. /\ mind.events = memory[Owner].events /\ mind.job = f
        /\ mind.followups = [memory[Owner].followups EXCEPT ![f] = "open"]
    BY <1>0 DEF Minds
  <2>4. at[Owner] = "working" /\ UNCHANGED <<events, etail>>  BY <1>2 DEF DraftFollowup, log
  <2> HIDE DEF mind
  <2>5. Persist(Owner, "drafted", mind)  BY <2>1 DEF mind
  <2> QED  BY <1>0, <2>1, <2>2, <2>3, <2>4, <2>5, PersistFiles
<1>3. CASE TellFollowup
  BY <1>0, <1>3, AppendEventFiles DEF TellFollowup, Kinds, Steps, Gone
<1>4. CASE Complete
  BY <1>0, <1>4, AppendEventFiles DEF Complete, Kinds, Steps, Gone
<1>5. CASE Anchor \/ Attest
  BY <1>0, <1>5, QuietFiles DEF Anchor, Attest, Gone, log, history
<1>6. CASE TellAttestation
  BY <1>0, <1>6, AppendEventFiles DEF TellAttestation, Kinds, Steps, Gone
<1>7. CASE Resume
  <2>1. Opens(Owner, "working", "none") /\ at[Owner] = "dead"  BY <1>7 DEF Resume
  <2>2. deaths # 0 /\ deaths' = deaths  BY <1>0, <2>1 DEF Files, Whole, Opens
  <2>3. Opened'  BY <1>0, <2>1, OpenedKept DEF Opens, Files, Steps
  <2> QED  BY <2>2, <2>3 DEF Files
<1> QED  BY <1>1, <1>2, <1>3, <1>4, <1>5, <1>6, <1>7 DEF OwnerStep

LEMMA ResolverFiles ==
    ASSUME TypeOK, Files, NEW r \in Resolvers, ResolverStep(r)
    PROVE  Files'
<1>0. r \in Procs /\ memory[r] \in Minds  BY MindFields DEF Procs
<1>1. CASE OpenFollowup(r)
  BY <1>0, <1>1, OpensFiles DEF OpenFollowup
<1>2. CASE MarkResolved(r)
  <2> DEFINE f == memory[r].job
             mind == [memory[r] EXCEPT !.followups[f] = "resolved"]
  <2>1. f \in Followups /\ memory[r].followups[f] = "open"
    BY <1>0, <1>2 DEF MarkResolved, Files, Opened
  <2>2. mind \in Minds  BY <1>0 DEF Minds, FollowupsFile
  <2>3. /\ mind.events = memory[r].events /\ mind.job = f
        /\ mind.followups = [memory[r].followups EXCEPT ![f] = "resolved"]
    BY <1>0 DEF Minds
  <2>4. at[r] = "opened" /\ UNCHANGED <<events, etail>> /\ Persist(r, "marked", mind)
    BY <1>2 DEF MarkResolved, log
  <2> HIDE DEF mind
  <2> QED  BY <1>0, <2>1, <2>2, <2>3, <2>4, PersistFiles
<1>3. CASE TellResolved(r)
  BY <1>0, <1>3, AppendEventFiles, MindFields DEF TellResolved, Kinds, Steps, Gone
<1>4. CASE TellProperty(r)
  BY <1>0, <1>4, AppendEventFiles, MindFields DEF TellProperty, Kinds, Steps, Gone
<1> QED  BY <1>1, <1>2, <1>3, <1>4 DEF ResolverStep

LEMMA EvidenceFiles ==
    ASSUME TypeOK, Files, NEW p \in Procs, AdoptTail(p) \/ AppendEvidence(p) \/ RecordEvidence(p)
    PROVE  Files'
<1>0. memory[p] \in Minds  BY MindFields
<1>1. CASE AdoptTail(p)
  <2> DEFINE mind == [memory[p] EXCEPT !.evidence = Adopt(@)]
  <2>1. mind \in Minds  BY <1>0, MindFields, AdoptType DEF Minds
  <2>2. mind.events = memory[p].events /\ mind.followups = memory[p].followups
    BY <1>0 DEF Minds
  <2>3. Goes(p, "adopted", mind) /\ at[p] = "adding"
        /\ UNCHANGED <<events, etail, followups, torn, deaths>>
    BY <1>1 DEF AdoptTail, log, rest
  <2> HIDE DEF mind
  <2> QED  BY <2>1, <2>2, <2>3, QuietFiles DEF Gone
<1>2. CASE AppendEvidence(p)
  <2> DEFINE mind == [memory[p] EXCEPT !.evidence = Append(@, Len(evidence) + 1)]
  <2>1. Append(memory[p].evidence, Len(evidence) + 1) \in Seq(Nat)  BY MindFields DEF TypeOK
  <2>2. mind \in Minds /\ mind.events = memory[p].events /\ mind.followups = memory[p].followups
    BY <1>0, <2>1 DEF Minds
  <2>3. Dies(p) \/ (Goes(p, "recording", mind) /\ UNCHANGED deaths)  BY <1>2 DEF AppendEvidence
  <2>4. at[p] = "adopted" /\ UNCHANGED <<events, etail, followups, torn>>
    BY <1>2 DEF AppendEvidence, log, rest
  <2> HIDE DEF mind
  <2> QED  BY <2>2, <2>3, <2>4, QuietFiles, DyingFiles DEF Gone
<1>3. CASE RecordEvidence(p)
  BY <1>3, AppendEventFiles, MindFields DEF RecordEvidence, Kinds, Steps, Gone
<1> QED  BY <1>1, <1>2, <1>3

LEMMA FilesKept == TypeOK /\ Files /\ [Next]_vars => Files'
<1> SUFFICES ASSUME TypeOK, Files, [Next]_vars PROVE Files'  OBVIOUS
<1>1. ASSUME NEW p \in Procs, Crash(p) PROVE Files'  BY <1>1, DyingFiles DEF Crash
<1>2. CASE UNCHANGED vars
  <2>1. UNCHANGED <<at, memory, events, etail, followups, torn, deaths>>
    BY <1>2 DEF vars, process, log, rest, history
  <2> QED
    BY <2>1 DEF Files, Opened, Whole, Clean, Loads, FileTells, Told, Pending, Current, Telling,
                Underway, UpToDate
<1> QED  BY <1>1, <1>2, OwnerFiles, ResolverFiles, EvidenceFiles DEF Next

\* Between the writes of any number of resolutions and of the owner, a log that load
\* accepts and the follow-ups file, which every writer rewrites whole from its own
\* memory, tell of the same follow-ups, as long as nobody dies.
THEOREM FilesAgree == Spec => []Agreement
<1>1. TypeOK /\ Files => Agreement
  <2> SUFFICES ASSUME TypeOK, Files, deaths = 0, Loads(events),
                      \A p \in Procs : at[p] \in {"out", "working", "done"}, NEW f \in Followups
               PROVE  /\ followups[f] = "resolved" <=> Told("resolved", f)
                      /\ followups[f] # "none" <=> Told("created", f)
    BY DEF Agreement, Told
  <2>1. Underway = {}  BY DEF Underway, Resting, Gone
  <2>2. Clean  BY <2>1 DEF Clean
  <2>3. ~Pending("marked", f) /\ ~Pending("drafted", f)  BY DEF Pending
  <2> QED  BY <2>2, <2>3 DEF Files, FileTells
<1> QED  BY <1>1, InitTypes, TypesKept, InitFiles, FilesKept, PTL DEF Spec

(***************************************************************************)
(* A record whose writers come one after another.                          *)
(***************************************************************************)

\* One process at most has the record open, and knows what is in it.
Lone == \A p, q \in Procs : at[p] \notin Gone /\ at[q] \notin Gone => p = q
Knowing == \A p \in Procs : at[p] \notin Gone =>
               memory[p].events = Uids(events) /\ memory[p].evidence = Uids(evidence)

\* Both logs are the chain 1, 2, 3... and end well.
Straight(lines) == \A i \in DOMAIN lines : /\ lines[i].kind # "junk"
                                           /\ lines[i].uid = i /\ lines[i].chain = i - 1
Intact ==
    /\ ~torn /\ etail = "ended" /\ vtail = "ended"
    /\ Straight(events) /\ Straight(evidence)

\* How far the owner is with the end of the run tells what it has left of the commitment.
Early == {"working", "adding", "adopted", "recording", "drafted"}
Sealed ==
    /\ at[Owner] \in Early \cup {"attesting", "anchored", "attested", "done"}
    /\ at[Owner] \in {"attesting", "anchored"} => events # <<>>
    /\ at[Owner] \in Early \cup {"attesting"} => anchors = {}
    /\ at[Owner] \in Early \cup {"attesting", "anchored"} => attestation = None
    /\ at[Owner] = "anchored" =>
          anchors = {[head |-> Last0(Uids(events)), ehead |-> Uids(evidence)]}
    /\ at[Owner] \in {"attested", "done"} =>
          /\ attestation.n \in 1..Len(events) /\ attestation.head = attestation.n
          /\ ~late => attestation.ehead = Uids(evidence)
          /\ anchors \subseteq {[head |-> attestation.head, ehead |-> attestation.ehead]}

Honest == ~shared /\ deaths = 0 => Lone /\ Intact /\ Knowing /\ Sealed

LEMMA InitHonest == Init => Honest
<1> SUFFICES ASSUME Init PROVE Honest  OBVIOUS
<1>1. Owner \in Procs /\ at[Owner] = "working" /\ \A p \in Procs : p # Owner => at[p] = "out"
  BY DEF Init, Procs
<1>2. Lone  BY <1>1 DEF Lone, Gone
<1>3. Intact  BY DEF Init, Intact, Straight
<1>4. Knowing
  <2>1. Uids(<<>>) = <<>>  BY DEF Uids
  <2> QED  BY <2>1 DEF Init, Knowing, Blank
<1>5. Sealed  BY <1>1 DEF Init, Sealed, Early
<1> QED  BY <1>2, <1>3, <1>4, <1>5 DEF Honest

LEMMA DyingHonest == ASSUME TypeOK, NEW p \in Procs, Dies(p) PROVE Honest'
<1>1. deaths' = deaths + 1 /\ deaths \in Nat  BY RecordsAssumption DEF Dies, TypeOK
<1> QED  BY <1>1 DEF Honest

LEMMA StraightAppended ==
    ASSUME NEW lines \in Seq(Record), NEW rec \in Record, Straight(lines),
           rec.kind # "junk", rec.uid = Len(lines) + 1, rec.chain = Len(lines)
    PROVE  /\ Straight(Append(lines, rec))
           /\ Uids(Append(lines, rec)) = Append(Uids(lines), Len(lines) + 1)
<1> DEFINE more == Append(lines, rec)
           L == Len(lines)
<1>1. L \in Nat /\ DOMAIN lines = 1..L  BY LenProperties
<1>2. /\ DOMAIN more = 1..(L + 1) /\ \A i \in 1..L : more[i] = lines[i]
      /\ more[L + 1] = rec
  BY <1>1
<1>3. Straight(more)
  <2> HIDE DEF more, L
  <2> SUFFICES ASSUME NEW i \in 1..(L + 1)
               PROVE  more[i].kind # "junk" /\ more[i].uid = i /\ more[i].chain = i - 1
    BY <1>2 DEF Straight
  <2>1. CASE i = L + 1  BY <1>1, <1>2, <2>1 DEF L
  <2>2. CASE i # L + 1
    <3>1. i \in 1..L  BY <1>1, <2>2
    <3> QED  BY <1>1, <1>2, <3>1 DEF Straight
  <2> QED  BY <2>1, <2>2
<1>4. Uids(lines) \in Seq(Nat) /\ Len(Uids(lines)) = L  BY LastUid DEF Straight
<1>5. Uids(more) = [i \in 1..(L + 1) |-> more[i].uid]  BY <1>2 DEF Uids
<1>6. Append(Uids(lines), L + 1) = [i \in 1..(L + 1) |-> IF i <= L THEN Uids(lines)[i] ELSE L + 1]
  BY <1>1, <1>4
<1>7. \A i \in 1..(L + 1) : more[i].uid = IF i <= L THEN Uids(lines)[i] ELSE L + 1
  <2> TAKE i \in 1..(L + 1)
  <2> HIDE DEF more
  <2>1. CASE i <= L
    <3>1. i \in 1..L  BY <1>1, <2>1
    <3>2. Uids(lines)[i] = lines[i].uid  BY <1>1, <3>1 DEF Uids
    <3> QED  BY <1>2, <2>1, <3>1, <3>2
  <2>2. CASE ~(i <= L)
    <3>1. i = L + 1  BY <1>1, <2>2
    <3> QED  BY <1>2, <2>2, <3>1
  <2> QED  BY <2>1, <2>2
<1> QED  BY <1>3, <1>5, <1>6, <1>7

\* What is known of the process that acts.
LEMMA Acting ==
    ASSUME TypeOK, Honest, ~shared, deaths = 0, NEW p \in Procs, at[p] \notin Gone
    PROVE  /\ Lone /\ Intact /\ Knowing /\ Sealed
           /\ \A q \in Procs : q # p => at[q] \in Gone
           /\ p # Owner => at[Owner] = "done"
           /\ memory[p].events = Uids(events) /\ memory[p].evidence = Uids(evidence)
           /\ Last0(Uids(events)) = Len(events) /\ Last0(Uids(evidence)) = Len(evidence)
<1>1. Lone /\ Intact /\ Knowing /\ Sealed  BY DEF Honest
<1>2. \A q \in Procs : q # p => at[q] \in Gone  BY <1>1 DEF Lone
<1>3. p # Owner => at[Owner] = "done"
  BY <1>1, <1>2 DEF Sealed, Early, Gone, Procs
<1>4. Last0(Uids(events)) = Len(events) /\ Last0(Uids(evidence)) = Len(evidence)
  BY <1>1, LastUid DEF Intact, Straight, TypeOK
<1> QED  BY <1>1, <1>2, <1>3, <1>4 DEF Knowing

\* The process that has the record open is the only one still, after a step of its own.
LEMMA LoneStays ==
    ASSUME TypeOK, NEW p \in Procs, \A q \in Procs : q # p => at[q] \in Gone,
           NEW next \in Steps, NEW mind, Goes(p, next, mind)
    PROVE  /\ Lone'
           /\ \A q \in Procs : at'[q] \notin Gone => q = p /\ memory'[q] = mind
BY Going DEF Lone

\* A step that touches neither a log nor what attests it.
LEMMA QuietHonest ==
    ASSUME TypeOK, Honest, NEW p \in Procs, at[p] \notin Gone, NEW next \in Steps,
           p = Owner => at[p] \in Early /\ next \in Early,
           NEW mind \in Minds, Goes(p, next, mind), mind.events = memory[p].events,
           ~shared /\ deaths = 0 => mind.evidence = memory[p].evidence,
           torn' => torn,
           UNCHANGED <<events, etail, evidence, vtail, attestation, anchors, deaths, shared, late>>
    PROVE  Honest'
<1> SUFFICES ASSUME ~shared, deaths = 0 PROVE Lone' /\ Intact' /\ Knowing' /\ Sealed'
  BY DEF Honest
<1>1. /\ Lone /\ Intact /\ Knowing /\ Sealed
      /\ \A q \in Procs : q # p => at[q] \in Gone
      /\ p # Owner => at[Owner] = "done"
      /\ memory[p].events = Uids(events) /\ memory[p].evidence = Uids(evidence)
  BY Acting
<1>2. Lone' /\ \A q \in Procs : at'[q] \notin Gone => q = p /\ memory'[q] = mind
  BY <1>1, LoneStays
<1>3. Intact'  BY <1>1 DEF Intact, Straight
<1>4. Knowing'  BY <1>1, <1>2 DEF Knowing, Uids
<1>5. Sealed'
  <2>1. CASE p = Owner
    <3>1. at[Owner] \in Early /\ at'[Owner] \in Early  BY <2>1, Going
    <3> QED  BY <1>1, <3>1 DEF Sealed, Early
  <2>2. CASE p # Owner
    <3>1. at'[Owner] = at[Owner]  BY <2>2, Going DEF Procs
    <3> QED  BY <1>1, <3>1 DEF Sealed, Uids
  <2> QED  BY <2>1, <2>2
<1> QED  BY <1>2, <1>3, <1>4, <1>5

LEMMA AppendEventHonest ==
    ASSUME TypeOK, Honest, NEW p \in Procs, at[p] \notin Gone, NEW k \in Kinds,
           NEW next \in Steps, NEW job \in Followups \cup {"none"},
           p = Owner => \/ at[p] \in Early /\ next \in Early \cup {"attesting"}
                        \/ at[p] = "attested" /\ next = "done",
           AppendEvent(p, k, next, job)
    PROVE  Honest'
<1> DEFINE L == Len(events)
           rec == Line(p, events, memory[p].events, k)
           mind == [memory[p] EXCEPT !.events = Append(@, L + 1), !.job = job]
<1>0. PICK w : /\ w \in Written(events, etail, rec)
               /\ \/ w[2] = "ended" /\ UNCHANGED deaths
                  \/ w[2] # "ended" /\ Dies(p)
  BY DEF AppendEvent
<1>1. CASE Dies(p)  BY <1>1, DyingHonest
<1>2. CASE UNCHANGED deaths
  <2>0. UNCHANGED <<evidence, vtail, followups, torn, attestation, anchors, shared, late>>
    BY DEF AppendEvent, proof, rest
  <2> SUFFICES ASSUME ~shared, deaths = 0, deaths' = 0
               PROVE  Lone' /\ Intact' /\ Knowing' /\ Sealed'
    BY <1>2, <2>0 DEF Honest
  <2>1. /\ Lone /\ Intact /\ Knowing /\ Sealed
        /\ \A q \in Procs : q # p => at[q] \in Gone
        /\ p # Owner => at[Owner] = "done"
        /\ memory[p].events = Uids(events) /\ memory[p].evidence = Uids(evidence)
        /\ Last0(Uids(events)) = L
    BY Acting
  <2>2. etail = "ended"  BY <2>1 DEF Intact
  <2>3. /\ rec \in Record /\ mind \in Minds
        /\ events' = Append(events, rec) /\ etail' = "ended"
        /\ Len(events') = L + 1
        /\ Goes(p, next, mind)
    BY <2>2, Appended
  <2>4. rec.uid = L + 1 /\ rec.chain = L /\ rec.kind # "junk"
    BY <2>1 DEF Line, Kinds
  <2>5. mind.events = Append(Uids(events), L + 1) /\ mind.evidence = Uids(evidence)
    BY <2>1, MindFields DEF Minds
  <2> HIDE DEF rec, mind
  <2>6. Straight(events') /\ Uids(events') = Append(Uids(events), L + 1)
    BY <2>1, <2>3, <2>4, StraightAppended DEF Intact, TypeOK
  <2>7. Lone' /\ \A q \in Procs : at'[q] \notin Gone => q = p /\ memory'[q] = mind
    BY <2>1, <2>3, LoneStays
  <2>8. Intact'  BY <2>0, <2>1, <2>3, <2>6 DEF Intact, Straight
  <2>9. Knowing'  BY <2>0, <2>5, <2>6, <2>7 DEF Knowing, Uids
  <2>10. L \in Nat /\ events' # <<>>
    <3>1. L \in Nat  BY DEF TypeOK
    <3>2. Len(events') # 0  BY <2>3, <3>1
    <3> QED  BY <3>1, <3>2
  <2>11. attestation.n \in 1..L => attestation.n \in 1..Len(events')  BY <2>3, <2>10
  <2>12. Sealed'
    <3>1. CASE p = Owner /\ at[p] \in Early /\ next \in Early \cup {"attesting"}
      <4>1. at'[Owner] \in Early \cup {"attesting"}  BY <2>3, <3>1, Going
      <4> QED  BY <2>0, <2>1, <2>10, <3>1, <4>1 DEF Sealed, Early
    <3>2. CASE at[Owner] \in {"attested", "done"} /\ at'[Owner] = "done"
      BY <2>0, <2>1, <2>11, <3>2 DEF Sealed, Early, Uids
    <3>3. CASE p # Owner
      <4>1. at'[Owner] = "done"  BY <2>1, <2>3, <3>3, Going DEF Procs
      <4> QED  BY <2>1, <3>2, <3>3, <4>1
    <3>4. CASE p = Owner /\ at[p] = "attested" /\ next = "done"
      <4>1. at'[Owner] = "done"  BY <2>3, <3>4, Going
      <4> QED  BY <3>2, <3>4, <4>1
    <3> QED  BY <3>1, <3>3, <3>4
  <2> QED  BY <2>7, <2>8, <2>9, <2>12
<1> QED  BY <1>0, <1>1, <1>2

LEMMA AdoptHonest ==
    ASSUME TypeOK, Honest, NEW p \in Procs, AdoptTail(p)
    PROVE  Honest'
<1> DEFINE mind == [memory[p] EXCEPT !.evidence = Adopt(@)]
<1>0. at[p] = "adding" /\ Goes(p, "adopted", mind)  BY DEF AdoptTail
<1>1. mind \in Minds /\ mind.events = memory[p].events /\ mind.evidence = Adopt(memory[p].evidence)
  BY MindFields, AdoptType DEF Minds
<1>2. UNCHANGED <<events, etail, evidence, vtail, torn, attestation, anchors, deaths, shared, late>>
  BY DEF AdoptTail, log, proof, rest
<1>3. ASSUME ~shared, deaths = 0 PROVE Adopt(memory[p].evidence) = memory[p].evidence
  <2>1. /\ Intact /\ memory[p].evidence = Uids(evidence)
        /\ Last0(Uids(evidence)) = Len(evidence)
    BY <1>0, <1>3, Acting DEF Gone
  <2>2. CASE evidence = <<>>  BY <2>2 DEF Adopt
  <2>3. CASE evidence # <<>>
    <3>1. Len(evidence) \in DOMAIN evidence  BY <2>3, EmptySeq, LenProperties DEF TypeOK
    <3>2. Last(evidence).uid = Len(evidence)  BY <2>1, <3>1 DEF Last, Intact, Straight
    <3> QED  BY <2>1, <3>2 DEF Adopt
  <2> QED  BY <2>2, <2>3
<1> HIDE DEF mind
<1>4. p = Owner => at[p] \in Early /\ "adopted" \in Early  BY <1>0 DEF Early
<1>5. at[p] \notin Gone /\ "adopted" \in Steps  BY <1>0 DEF Gone, Steps
<1>6. ~shared /\ deaths = 0 => mind.evidence = memory[p].evidence  BY <1>1, <1>3
<1> QED  BY <1>0, <1>1, <1>2, <1>4, <1>5, <1>6, QuietHonest

LEMMA AppendEvidenceHonest ==
    ASSUME TypeOK, Honest, NEW p \in Procs, AppendEvidence(p)
    PROVE  Honest'
<1> DEFINE L == Len(evidence)
           rec == Line(p, evidence, memory[p].evidence, "evidence")
           mind == [memory[p] EXCEPT !.evidence = Append(@, L + 1)]
<1>0. PICK w \in Written(evidence, vtail, rec) :
         /\ evidence' = w[1] /\ vtail' = w[2]
         /\ \/ w[2] = "ended" /\ UNCHANGED deaths /\ Goes(p, "recording", mind)
            \/ w[2] # "ended" /\ Dies(p)
  BY DEF AppendEvidence
<1>1. CASE Dies(p)  BY <1>1, DyingHonest
<1>2. CASE w[2] = "ended" /\ UNCHANGED deaths /\ Goes(p, "recording", mind)
  <2>0. /\ UNCHANGED <<events, etail, torn, attestation, anchors, shared>>
        /\ late' = (late \/ attestation # None) /\ at[p] = "adopted"
    BY DEF AppendEvidence, log, rest
  <2> SUFFICES ASSUME ~shared, deaths = 0
               PROVE  Lone' /\ Intact' /\ Knowing' /\ Sealed'
    BY <1>2, <2>0 DEF Honest
  <2>1. /\ Lone /\ Intact /\ Knowing /\ Sealed
        /\ \A q \in Procs : q # p => at[q] \in Gone
        /\ p # Owner => at[Owner] = "done"
        /\ memory[p].events = Uids(events) /\ memory[p].evidence = Uids(evidence)
        /\ Last0(Uids(evidence)) = L
    BY <2>0, Acting DEF Gone
  <2>2. evidence' = Append(evidence, rec) /\ vtail' = "ended"
    BY <1>0, <1>2, <2>1 DEF Written, Intact
  <2>3. rec.uid = L + 1 /\ rec.chain = L /\ rec.kind # "junk" /\ rec \in Record
    BY <2>1, LineType, MindFields DEF Line, Kinds, TypeOK
  <2>4. mind.events = Uids(events) /\ mind.evidence = Append(Uids(evidence), L + 1)
    BY <2>1, MindFields DEF Minds
  <2> HIDE DEF rec, mind
  <2>5. Straight(evidence') /\ Uids(evidence') = Append(Uids(evidence), L + 1)
    BY <2>1, <2>2, <2>3, StraightAppended DEF Intact, TypeOK
  <2>6. Lone' /\ \A q \in Procs : at'[q] \notin Gone => q = p /\ memory'[q] = mind
    BY <1>2, <2>1, LoneStays DEF Steps
  <2>7. Intact'  BY <2>0, <2>1, <2>2, <2>5 DEF Intact, Straight
  <2>8. Knowing'  BY <2>0, <2>4, <2>5, <2>6 DEF Knowing, Uids
  <2>9. Sealed'
    <3>1. CASE p = Owner
      <4>1. at[Owner] = "adopted" /\ at'[Owner] = "recording"
        BY <1>2, <2>0, <3>1, Going DEF Steps
      <4> QED  BY <2>0, <2>1, <4>1 DEF Sealed, Early
    <3>2. CASE p # Owner
      <4>1. at[Owner] = "done" /\ at'[Owner] = "done"
        BY <1>2, <2>1, <3>2, Going DEF Procs, Steps
      <4>2. attestation.n # 0
        <5>1. attestation.n \in 1..Len(events)  BY <2>1, <4>1 DEF Sealed
        <5> QED  BY <5>1
      <4>3. attestation # None  BY <4>2 DEF None
      <4>4. late'  BY <2>0, <4>3, Zenon
      <4> QED  BY <2>0, <2>1, <4>1, <4>4 DEF Sealed, Early
    <3> QED  BY <3>1, <3>2
  <2> QED  BY <2>6, <2>7, <2>8, <2>9
<1> QED  BY <1>0, <1>1, <1>2

\* The commitment is of what the files hold, as far as the owner knows them.
LEMMA SealingHonest ==
    ASSUME TypeOK, Honest, Anchor \/ Attest
    PROVE  Honest'
<1>0. Owner \in Procs  BY DEF Procs
<1>1. /\ at[Owner] \in {"attesting", "anchored"} /\ at[Owner] \notin Gone
      /\ UNCHANGED <<events, etail, evidence, vtail, torn, deaths, shared, late>>
  BY DEF Anchor, Attest, Gone, log, proof, history
<1> SUFFICES ASSUME ~shared, deaths = 0
             PROVE  Lone' /\ Intact' /\ Knowing' /\ Sealed'
  BY <1>1 DEF Honest
<1>2. /\ Lone /\ Intact /\ Knowing /\ Sealed
      /\ \A q \in Procs : q # Owner => at[q] \in Gone
      /\ memory[Owner].events = Uids(events) /\ memory[Owner].evidence = Uids(evidence)
      /\ Last0(Uids(events)) = Len(events)
  BY <1>0, <1>1, Acting
<1>3. Intact'  BY <1>1, <1>2 DEF Intact, Straight
<1>4. PICK next \in {"anchored", "attested"} : Goes(Owner, next, memory[Owner])
  BY DEF Anchor, Attest
<1>5. next \in Steps /\ at'[Owner] = next  BY <1>0, <1>4, Going DEF Steps
<1>6. Lone' /\ \A q \in Procs : at'[q] \notin Gone => q = Owner /\ memory'[q] = memory[Owner]
  BY <1>0, <1>2, <1>4, <1>5, LoneStays
<1>7. Knowing'  BY <1>1, <1>2, <1>6 DEF Knowing, Uids
<1>8. Sealed'
  <2>1. CASE Anchor
    <3>1. /\ at[Owner] = "attesting" /\ at'[Owner] = "anchored" /\ UNCHANGED attestation
          /\ anchors' = anchors \cup {[head |-> Last0(Uids(events)), ehead |-> Uids(evidence)]}
      BY <1>0, <1>2, <2>1, Going DEF Anchor, Steps
    <3>2. anchors = {} /\ attestation = None /\ events # <<>>  BY <1>2, <3>1 DEF Sealed
    <3> QED  BY <1>1, <3>1, <3>2 DEF Sealed, Early, Uids
  <2>2. CASE Attest
    <3>1. /\ at'[Owner] = "attested" /\ UNCHANGED anchors
          /\ attestation' = [n |-> Len(Uids(events)), head |-> Last0(Uids(events)),
                             ehead |-> Uids(evidence)]
      BY <1>0, <1>2, <2>2, Going DEF Attest, Steps
    <3>2. Len(Uids(events)) = Len(events)  BY <1>2, LastUid DEF Intact, Straight, TypeOK
    <3>3. Len(events) \in 1..Len(events)
      <4>1. events # <<>>  BY <1>1, <1>2 DEF Sealed
      <4> QED  BY <4>1, EmptySeq, LenProperties DEF TypeOK
    <3>4. anchors \subseteq {[head |-> Last0(Uids(events)), ehead |-> Uids(evidence)]}
      BY <1>1, <1>2 DEF Sealed
    <3>5. Uids(evidence') = Uids(evidence) /\ Len(events') = Len(events)  BY <1>1
    <3>6. /\ attestation'.n = Len(events) /\ attestation'.head = Len(events)
          /\ attestation'.ehead = Uids(evidence)
      BY <1>2, <3>1, <3>2
    <3>7. anchors' \subseteq {[head |-> attestation'.head, ehead |-> attestation'.ehead]}
      BY <1>2, <3>1, <3>4, <3>6
    <3> QED  BY <3>1, <3>3, <3>5, <3>6, <3>7 DEF Sealed, Early
  <2> QED  BY <2>1, <2>2
<1> QED  BY <1>3, <1>6, <1>7, <1>8

\* A record is opened by one process while no other has it open.
LEMMA OpensHonest ==
    ASSUME TypeOK, Honest, NEW r \in Procs, NEW next \in Steps, NEW job, Opens(r, next, job),
           r # Owner
    PROVE  Honest'
<1> DEFINE mind == [events |-> Uids(events), evidence |-> Uids(evidence),
                    followups |-> followups, job |-> job]
<1>0. /\ Goes(r, next, mind)
      /\ shared' = (shared \/ \E q \in Procs \ {r} : at[q] \notin Gone)
      /\ UNCHANGED <<events, etail, evidence, vtail, torn, attestation, anchors, deaths, late>>
  BY DEF Opens, log, proof, rest
<1> SUFFICES ASSUME ~shared', deaths' = 0 PROVE Lone' /\ Intact' /\ Knowing' /\ Sealed'
  BY DEF Honest
<1>1. Lone /\ Intact /\ Knowing /\ Sealed /\ \A q \in Procs : q # r => at[q] \in Gone
  BY <1>0 DEF Honest
<1>2. mind.events = Uids(events) /\ mind.evidence = Uids(evidence)  OBVIOUS
<1> HIDE DEF mind
<1>3. Lone' /\ \A q \in Procs : at'[q] \notin Gone => q = r /\ memory'[q] = mind
  BY <1>0, <1>1, LoneStays
<1>4. Intact'  BY <1>0, <1>1 DEF Intact, Straight
<1>5. Knowing'  BY <1>0, <1>2, <1>3 DEF Knowing, Uids
<1>6. Sealed'
  <2>1. at'[Owner] = at[Owner]  BY <1>0, Going DEF Procs
  <2> QED  BY <1>0, <1>1, <2>1 DEF Sealed, Uids
<1> QED  BY <1>3, <1>4, <1>5, <1>6

LEMMA OwnerHonest == TypeOK /\ Honest /\ OwnerStep => Honest'
<1> SUFFICES ASSUME TypeOK, Honest, OwnerStep PROVE Honest'  OBVIOUS
<1>0. Owner \in Procs /\ memory[Owner] \in Minds  BY MindFields DEF Procs
<1>1. CASE AddEvidence
  <2>1. /\ at[Owner] = "working" /\ Goes(Owner, "adding", memory[Owner])
        /\ UNCHANGED <<events, etail, evidence, vtail, torn, attestation, anchors, deaths,
                       shared, late>>
    BY <1>1 DEF AddEvidence, log, proof, rest, history
  <2> QED  BY <1>0, <2>1, QuietHonest DEF Early, Gone, Steps
<1>2. CASE DraftFollowup
  <2>1. PICK f \in Followups :
           Persist(Owner, "drafted", [memory[Owner] EXCEPT !.followups[f] = "open", !.job = f])
    BY <1>2 DEF DraftFollowup
  <2> DEFINE mind == [memory[Owner] EXCEPT !.followups[f] = "open", !.job = f]
  <2>2. mind \in Minds /\ mind.events = memory[Owner].events
        /\ mind.evidence = memory[Owner].evidence
    BY <1>0 DEF Minds, FollowupsFile
  <2>3. /\ at[Owner] = "working"
        /\ UNCHANGED <<events, etail, evidence, vtail, attestation, anchors, shared, late>>
    BY <1>2 DEF DraftFollowup, log, proof
  <2>4. Dies(Owner) \/ (torn' = FALSE /\ Goes(Owner, "drafted", mind) /\ UNCHANGED deaths)
    BY <2>1 DEF Persist
  <2> HIDE DEF mind
  <2>5. CASE Dies(Owner)  BY <1>0, <2>5, DyingHonest
  <2>6. CASE torn' = FALSE /\ Goes(Owner, "drafted", mind) /\ UNCHANGED deaths
    BY <1>0, <2>2, <2>3, <2>6, QuietHonest DEF Early, Gone, Steps
  <2> QED  BY <2>4, <2>5, <2>6
<1>3. CASE TellFollowup
  BY <1>0, <1>3, AppendEventHonest DEF TellFollowup, Kinds, Steps, Gone, Early
<1>4. CASE Complete
  BY <1>0, <1>4, AppendEventHonest DEF Complete, Kinds, Steps, Gone, Early
<1>5. CASE Anchor \/ Attest  BY <1>5, SealingHonest
<1>6. CASE TellAttestation
  BY <1>0, <1>6, AppendEventHonest DEF TellAttestation, Kinds, Steps, Gone
<1>7. CASE Resume
  <2>1. at[Owner] = "dead" /\ deaths' = deaths /\ (shared => shared')
    BY <1>7 DEF Resume, Opens
  <2>2. "dead" \notin Early \cup {"attesting", "anchored", "attested", "done"}  BY DEF Early
  <2> QED  BY <2>1, <2>2 DEF Honest, Sealed
<1> QED  BY <1>1, <1>2, <1>3, <1>4, <1>5, <1>6, <1>7 DEF OwnerStep

LEMMA ResolverHonest ==
    ASSUME TypeOK, Honest, NEW r \in Resolvers, ResolverStep(r)
    PROVE  Honest'
<1>0. r \in Procs /\ memory[r] \in Minds /\ r # Owner
  BY MindFields, RecordsAssumption DEF Procs
<1>1. CASE OpenFollowup(r)
  BY <1>0, <1>1, OpensHonest DEF OpenFollowup, Steps
<1>2. CASE MarkResolved(r)
  <2> DEFINE mind == [memory[r] EXCEPT !.followups[memory[r].job] = "resolved"]
  <2>1. mind \in Minds /\ mind.events = memory[r].events /\ mind.evidence = memory[r].evidence
    BY <1>0 DEF Minds, FollowupsFile
  <2>2. /\ at[r] = "opened"
        /\ UNCHANGED <<events, etail, evidence, vtail, attestation, anchors, shared, late>>
        /\ Dies(r) \/ (torn' = FALSE /\ Goes(r, "marked", mind) /\ UNCHANGED deaths)
    BY <1>2 DEF MarkResolved, Persist, log, proof
  <2> HIDE DEF mind
  <2>3. CASE Dies(r)  BY <1>0, <2>3, DyingHonest
  <2>4. CASE torn' = FALSE /\ Goes(r, "marked", mind) /\ UNCHANGED deaths
    BY <1>0, <2>1, <2>2, <2>4, QuietHonest DEF Gone, Steps
  <2> QED  BY <2>2, <2>3, <2>4
<1>3. CASE TellResolved(r)
  BY <1>0, <1>3, AppendEventHonest, MindFields DEF TellResolved, Kinds, Steps, Gone
<1>4. CASE TellProperty(r)
  BY <1>0, <1>4, AppendEventHonest, MindFields DEF TellProperty, Kinds, Steps, Gone
<1> QED  BY <1>1, <1>2, <1>3, <1>4 DEF ResolverStep

LEMMA HonestKept == TypeOK /\ Honest /\ [Next]_vars => Honest'
<1> SUFFICES ASSUME TypeOK, Honest, [Next]_vars PROVE Honest'  OBVIOUS
<1>1. ASSUME NEW p \in Procs, Crash(p) PROVE Honest'  BY <1>1, DyingHonest DEF Crash
<1>2. ASSUME NEW p \in Procs, RecordEvidence(p) PROVE Honest'
  <2> DEFINE next == IF p = Owner THEN "working" ELSE "judging"
  <2>1. at[p] = "recording" /\ AppendEvent(p, "evidence", next, memory[p].job)
    BY <1>2 DEF RecordEvidence
  <2>2. next \in Steps /\ (p = Owner => next \in Early)  BY DEF Steps, Early
  <2> HIDE DEF next
  <2> QED  BY <2>1, <2>2, AppendEventHonest, MindFields DEF Kinds, Gone, Early
<1>3. CASE UNCHANGED vars
  BY <1>3 DEF vars, process, log, proof, rest, history, Honest, Lone, Intact, Straight,
              Knowing, Uids, Sealed
<1> QED  BY <1>1, <1>2, <1>3, OwnerHonest, ResolverHonest, AdoptHonest, AppendEvidenceHonest
            DEF Next

\* A run whose owner and later resolutions come one after another, and do not die, can
\* be loaded, and replay finds its attestation and the commitments in git to be of it.
THEOREM HonestReplays == Spec => []HonestRunReplays
<1>1. TypeOK /\ Honest => HonestRunReplays
  <2> SUFFICES ASSUME TypeOK, Honest, ~shared, deaths = 0
               PROVE  /\ Readable
                      /\ ~late => Verdict # "broken"
                      /\ at[Owner] # "anchored" => AnchorVerdict \in {"unanchored", "verified"}
    BY DEF HonestRunReplays
  <2>1. Intact /\ Sealed  BY DEF Honest
  <2>2. ASSUME NEW lines \in Seq(Record), Straight(lines) PROVE Loads(lines)
    <3> SUFFICES ASSUME NEW i \in DOMAIN lines
                 PROVE  lines[i].chain = IF i = 1 THEN 0 ELSE lines[i - 1].uid
      BY <2>2 DEF Straight, Loads
    <3>1. Len(lines) \in Nat /\ DOMAIN lines = 1..Len(lines)  BY LenProperties
    <3>2. i # 1 => i - 1 \in DOMAIN lines  BY <3>1
    <3> QED  BY <2>2, <3>1, <3>2 DEF Straight
  <2>3. Readable
    BY <2>1, <2>2 DEF Readable, EvidenceLoads, FollowupsLoad, Intact, TypeOK
  <2>4. CASE at[Owner] \in {"attested", "done"}
    <3>1. /\ attestation.n \in 1..Len(events) /\ attestation.head = attestation.n
          /\ ~late => attestation.ehead = Uids(evidence)
          /\ anchors \subseteq {[head |-> attestation.head, ehead |-> attestation.ehead]}
      BY <2>1, <2>4 DEF Sealed
    <3>2. Len(events) \in Nat /\ attestation.n \in DOMAIN events /\ ~(Len(events) < attestation.n)
      BY <3>1, LenProperties DEF TypeOK
    <3>3. events[attestation.n].uid = attestation.head  BY <2>1, <3>1, <3>2 DEF Intact, Straight
    <3>4. attestation # None
      <4>1. attestation.n # 0  BY <3>1
      <4> QED  BY <4>1 DEF None
    <3>5. ~late => Verdict # "broken"  BY <3>1, <3>2, <3>3, <3>4 DEF Verdict
    <3>6. AnchorVerdict \in {"unanchored", "verified"}  BY <3>1, <3>4 DEF AnchorVerdict
    <3> QED  BY <2>3, <3>5, <3>6
  <2>5. CASE at[Owner] \notin {"attested", "done"}
    <3>1. at[Owner] \in Early \cup {"attesting", "anchored"}  BY <2>1, <2>5 DEF Sealed
    <3>2. attestation = None /\ (at[Owner] # "anchored" => anchors = {})
      BY <2>1, <3>1 DEF Sealed
    <3>3. Verdict = "missing"  BY <3>2 DEF Verdict
    <3>4. at[Owner] # "anchored" => AnchorVerdict = "unanchored"  BY <3>2 DEF AnchorVerdict
    <3> QED  BY <2>3, <3>3, <3>4
  <2> QED  BY <2>4, <2>5
<1> QED  BY <1>1, InitTypes, TypesKept, InitHonest, HonestKept, PTL DEF Spec
=============================================================================
