----------------------------- MODULE RunRecords -----------------------------
(***************************************************************************)
(* The files of a run's record, and the processes that write them: the     *)
(* owner of the run, which ends by attesting it, and `spc followup resolve' *)
(* processes, which take no lock.                                          *)
(*                                                                         *)
(* events.jsonl and evidence.jsonl are hash-chained and appended to from   *)
(* what the process has in memory; followups.json is rewritten whole.  A   *)
(* digest is the position an event had when it was written, since no two   *)
(* records are alike.  A process may die at any step, also within a write, *)
(* which then leaves a fragment or a line without its newline.             *)
(***************************************************************************)
EXTENDS Naturals, Sequences, SequencesExt, FiniteSets

CONSTANTS
    Owner, Resolvers,    \* processes
    Followups,
    MaxLines,            \* bound: no operation starts with as many events
    MaxDeaths            \* bound: processes that die

ASSUME RecordsAssumption ==
    /\ Owner \notin Resolvers
    /\ MaxLines \in Nat /\ MaxDeaths \in Nat

Procs == {Owner} \cup Resolvers
Kinds == {"created", "resolved", "evidence", "verified", "completed", "attested"}
Junk == [uid |-> 0, chain |-> 0, kind |-> "junk", f |-> "none"]

VARIABLES
    at,          \* where a process is in its operation
    memory,      \* what it has of each file, by digest, and the follow-up it is about
    events, etail,       \* events.jsonl, and how it ends
    evidence, vtail,     \* evidence.jsonl
    followups,           \* followups.json: "none", "open" or "resolved"
    torn,                \* a rewrite of it was cut off
    attestation,         \* attestation.json; n = 0 where there is none
    anchors,             \* commitments that git commits or notes carry
    deaths,
    raced,               \* history: two adds of evidence overlapped
    shared, late         \* history: two processes had the record open at once; evidence
                         \* came after the attestation
process == <<at, memory>>
log == <<events, etail>>
proof == <<evidence, vtail>>
rest == <<followups, torn, attestation, anchors>>
history == <<deaths, raced, shared, late>>
vars == <<process, log, proof, rest, history>>

Steps == {"out", "dead", "done", "working", "adding", "adopted", "recording", "drafted",
          "attesting", "anchored", "attested", "opened", "marked", "judging"}
Tails == {"ended", "fragment", "unended"}
None == [n |-> 0, head |-> 0, ehead |-> <<>>]
Blank == [events |-> <<>>, evidence |-> <<>>, followups |-> [f \in Followups |-> "none"],
          job |-> "none"]

Init ==
    /\ at = [p \in Procs |-> IF p = Owner THEN "working" ELSE "out"]
    /\ memory = [p \in Procs |-> Blank]
    /\ events = <<>> /\ etail = "ended" /\ evidence = <<>> /\ vtail = "ended"
    /\ followups = Blank.followups /\ torn = FALSE
    /\ attestation = None /\ anchors = {}
    /\ deaths = 0 /\ raced = FALSE /\ shared = FALSE /\ late = FALSE

Record == [uid : Nat, chain : Nat, kind : Kinds \cup {"junk"}, f : Followups \cup {"none"}]
FollowupsFile == [Followups -> {"none", "open", "resolved"}]
Minds == [events : Seq(Nat), evidence : Seq(Nat), followups : FollowupsFile,
          job : Followups \cup {"none"}]
TypeOK ==
    /\ at \in [Procs -> Steps]
    /\ memory \in [Procs -> Minds]
    /\ events \in Seq(Record) /\ evidence \in Seq(Record) /\ {etail, vtail} \subseteq Tails
    /\ followups \in FollowupsFile /\ torn \in BOOLEAN
    /\ attestation \in [n : Nat, head : Nat, ehead : Seq(Nat)]
    /\ anchors \subseteq [head : Nat, ehead : Seq(Nat)]
    /\ deaths \in 0..MaxDeaths /\ {raced, shared, late} \subseteq BOOLEAN

-----------------------------------------------------------------------------
(* The two logs. *)

Last0(s) == IF s = <<>> THEN 0 ELSE Last(s)
Uids(lines) == [i \in DOMAIN lines |-> lines[i].uid]

\* Broken: the chain is not checked.
LoadsUnchained(lines) == \A i \in DOMAIN lines : lines[i].kind # "junk"

\* load: every line parses, and each record points at the one before.  A fragment
\* at the end, no record of the model, is passed over.
Loads(lines) ==
    \A i \in DOMAIN lines :
        /\ lines[i].kind # "junk"
        /\ lines[i].chain = IF i = 1 THEN 0 ELSE lines[i - 1].uid

\* One appendFileSync onto a file with this end: the file and its end once it is
\* done, or was cut off within the line or before its newline.
Written(lines, tail, rec) ==
    CASE tail = "ended"    -> {<<Append(lines, rec), "ended">>, <<lines, "fragment">>,
                               <<Append(lines, rec), "unended">>}
      [] tail = "fragment" -> {<<Append(lines, Junk), "ended">>, <<lines, "fragment">>}
      [] tail = "unended"  -> {<<Append(Front(lines), Junk), "ended">>,
                               <<Front(lines), "fragment">>}

\* A process goes on with what it has in mind, or is gone and forgets it.
Gone == {"out", "dead", "done"}
Goes(p, next, mind) ==
    /\ at' = [at EXCEPT ![p] = next]
    /\ memory' = [memory EXCEPT ![p] = IF next \in Gone THEN Blank ELSE mind]
Dies(p) == deaths < MaxDeaths /\ deaths' = deaths + 1 /\ Goes(p, "dead", Blank)

\* What a process writes: the line is chained to the last one in its memory.
Line(p, lines, mind, kind) ==
    [uid |-> Len(lines) + 1, chain |-> Last0(mind), kind |-> kind, f |-> memory[p].job]

\* EventStore.append: the process goes on only if its line was written to the end.
AppendEvent(p, kind, next, job) ==
    /\ \E w \in Written(events, etail, Line(p, events, memory[p].events, kind)) :
          /\ events' = w[1] /\ etail' = w[2]
          /\ \/ /\ w[2] = "ended" /\ UNCHANGED deaths
                /\ Goes(p, next, [memory[p] EXCEPT !.events = Append(@, Len(events) + 1),
                                                   !.job = job])
             \/ w[2] # "ended" /\ Dies(p)
    /\ UNCHANGED <<proof, rest, raced, shared, late>>

-----------------------------------------------------------------------------
(* EvidenceStore.add: adoptDiskTail, then the append. *)

\* Broken: what others have written is not looked at.
AdoptNothing(mind) == mind

\* The last record of the file, where it can be read and is not the last in memory.
Adopt(mind) ==
    IF evidence = <<>> \/ vtail = "fragment" THEN mind
    ELSE IF Last(evidence).uid \in {0, Last0(mind)} THEN mind
    ELSE Append(mind, Last(evidence).uid)

AdoptTail(p) ==
    /\ at[p] = "adding"
    /\ Goes(p, "adopted", [memory[p] EXCEPT !.evidence = Adopt(@)])
    /\ raced' = (raced \/ \E q \in Procs : at[q] = "adopted")
    /\ UNCHANGED <<log, proof, rest, deaths, shared, late>>

AppendEvidence(p) ==
    LET mind == memory[p].evidence IN
    /\ at[p] = "adopted"
    /\ \E w \in Written(evidence, vtail, Line(p, evidence, mind, "evidence")) :
          /\ evidence' = w[1] /\ vtail' = w[2]
          /\ \/ /\ w[2] = "ended" /\ UNCHANGED deaths
                /\ Goes(p, "recording", [memory[p] EXCEPT !.evidence = Append(@, Len(evidence) + 1)])
             \/ w[2] # "ended" /\ Dies(p)
    /\ raced' = (raced \/ vtail # "ended")
    /\ late' = (late \/ attestation # None)
    /\ UNCHANGED <<log, rest, shared>>

\* EVIDENCE_RECORDED; a resolution goes on to the state of the property.
RecordEvidence(p) ==
    /\ at[p] = "recording"
    /\ AppendEvent(p, "evidence", IF p = Owner THEN "working" ELSE "judging", memory[p].job)

-----------------------------------------------------------------------------
(* The owner: evidence and follow-ups in any order, then the end of the run. *)

Busy == Len(events) < MaxLines

AddEvidence ==
    /\ at[Owner] = "working" /\ Busy
    /\ Goes(Owner, "adding", memory[Owner])
    /\ UNCHANGED <<log, proof, rest, history>>

\* FollowupStore.persist: the file is truncated and written anew from memory.
Persist(p, next, mind) ==
    \/ /\ followups' = mind.followups /\ torn' = FALSE /\ Goes(p, next, mind) /\ UNCHANGED deaths
    \/ torn' = TRUE /\ Dies(p) /\ UNCHANGED followups

\* FollowupStore.create: the file is written from memory...
DraftFollowup ==
    /\ at[Owner] = "working" /\ Busy
    /\ \E f \in Followups :
          /\ memory[Owner].followups[f] = "none"
          /\ Persist(Owner, "drafted", [memory[Owner] EXCEPT !.followups[f] = "open", !.job = f])
    /\ UNCHANGED <<log, proof, attestation, anchors, raced, shared, late>>

\* ...and FOLLOWUP_CREATED follows.
TellFollowup == at[Owner] = "drafted" /\ AppendEvent(Owner, "created", "working", "none")

Complete == at[Owner] = "working" /\ AppendEvent(Owner, "completed", "attesting", "none")

\* attestRun: with attestInGit, the commitment first goes into git...
Anchor ==
    LET mine == memory[Owner] IN
    /\ at[Owner] = "attesting"
    /\ anchors' = anchors \cup {[head |-> Last0(mine.events), ehead |-> mine.evidence]}
    /\ Goes(Owner, "anchored", mine)
    /\ UNCHANGED <<log, proof, followups, torn, attestation, history>>

\* Broken: the event that tells of the attestation is counted in it.
AttestOneMore ==
    LET mine == memory[Owner] IN
    /\ at[Owner] \in {"attesting", "anchored"}
    /\ attestation' = [n |-> Len(mine.events) + 1, head |-> Last0(mine.events),
                       ehead |-> mine.evidence]
    /\ Goes(Owner, "attested", mine)
    /\ UNCHANGED <<log, proof, followups, torn, anchors, history>>

\* ...then the number of events, their head and the evidence, as in memory, into
\* attestation.json...
Attest ==
    LET mine == memory[Owner] IN
    /\ at[Owner] \in {"attesting", "anchored"}
    /\ attestation' = [n |-> Len(mine.events), head |-> Last0(mine.events), ehead |-> mine.evidence]
    /\ Goes(Owner, "attested", mine)
    /\ UNCHANGED <<log, proof, followups, torn, anchors, history>>

\* ...and RUN_ATTESTED.
TellAttestation == at[Owner] = "attested" /\ AppendEvent(Owner, "attested", "done", "none")

-----------------------------------------------------------------------------
(* Opening a record: a resumed owner, or resolveFollowup. *)

\* EvidenceStore.load and FollowupStore.load, which a cut off file makes throw.
EvidenceLoads == Loads(evidence)
FollowupsLoad == ~torn
Readable == Loads(events) /\ EvidenceLoads /\ FollowupsLoad

Opens(p, next, job) ==
    /\ Readable
    /\ Goes(p, next, [events |-> Uids(events), evidence |-> Uids(evidence),
                      followups |-> followups, job |-> job])
    /\ shared' = (shared \/ \E q \in Procs \ {p} : at[q] \notin Gone)
    /\ UNCHANGED <<log, proof, rest, deaths, raced, late>>

\* resumeRun: not of a run that is completed.
Resume ==
    /\ at[Owner] = "dead" /\ Busy
    /\ \A i \in DOMAIN events : events[i].kind # "completed"
    /\ Opens(Owner, "working", "none")

\* An open follow-up; one that is resolved is left alone.
OpenFollowup(r) ==
    /\ at[r] \in Gone /\ Busy
    /\ \E f \in Followups : followups[f] = "open" /\ Opens(r, "opened", f)

\* FollowupStore.resolve...
MarkResolved(r) ==
    LET mine == memory[r] IN
    /\ at[r] = "opened"
    /\ Persist(r, "marked", [mine EXCEPT !.followups[mine.job] = "resolved"])
    /\ UNCHANGED <<log, proof, attestation, anchors, raced, shared, late>>

\* ...FOLLOWUP_RESOLVED, the human evidence and its event...
TellResolved(r) == at[r] = "marked" /\ AppendEvent(r, "resolved", "adding", memory[r].job)

\* ...and PROPERTY_VERIFIED.
TellProperty(r) == at[r] = "judging" /\ AppendEvent(r, "verified", "out", "none")

Crash(p) ==
    /\ at[p] \notin Gone /\ Dies(p)
    /\ UNCHANGED <<log, proof, rest, raced, shared, late>>

OwnerStep == AddEvidence \/ DraftFollowup \/ TellFollowup \/ Complete \/ Anchor \/ Attest \/ TellAttestation
             \/ Resume
ResolverStep(r) == OpenFollowup(r) \/ MarkResolved(r) \/ TellResolved(r) \/ TellProperty(r)
Next ==
    \/ OwnerStep
    \/ \E r \in Resolvers : ResolverStep(r)
    \/ \E p \in Procs : AdoptTail(p) \/ AppendEvidence(p) \/ RecordEvidence(p) \/ Crash(p)

Spec == Init /\ [][Next]_vars
-----------------------------------------------------------------------------
(* replayRun's verdicts on the attestation and its anchors. *)

Verdict ==
    LET a == attestation IN
    IF a = None THEN "missing"
    ELSE IF Len(events) < a.n \/ events[a.n].uid # a.head \/ Uids(evidence) # a.ehead THEN "broken"
    ELSE IF \A i \in (a.n + 1)..Len(events) : events[i].kind = "attested" THEN "verified"
    ELSE "extended"

AnchorVerdict ==
    IF anchors = {} THEN "unanchored"
    ELSE IF attestation = None THEN "unavailable"
    ELSE IF \E c \in anchors : c # [head |-> attestation.head, ehead |-> attestation.ehead]
    THEN "mismatch" ELSE "verified"

-----------------------------------------------------------------------------
(* What the record promises. *)

\* "a competing or late-joining writer must continue the FILE's chain"
\* (EvidenceStore.add): however writers with old memories take turns, the evidence
\* stays loadable, unless one add falls into another or onto a torn line.
AddsKeepEvidence == ~raced => EvidenceLoads

\* Once no one is writing and no one died, the follow-ups file and a log that load
\* accepts agree on what was created and resolved: rewriting the file from memory
\* loses nothing without breaking the chain.
Agreement ==
    (\A p \in Procs : at[p] \in {"out", "working", "done"}) /\ deaths = 0 /\ Loads(events) =>
        \A f \in Followups :
            LET told(k) == \E i \in DOMAIN events : events[i].kind = k /\ events[i].f = f IN
            /\ followups[f] = "resolved" <=> told("resolved")
            /\ followups[f] # "none" <=> told("created")

\* Writers that come one after another and do not die leave a record that loads, and
\* whose attestation replay does not call broken, as long as no evidence came after it,
\* and whose anchors agree with it.
HonestRunReplays ==
    ~shared /\ deaths = 0 =>
        /\ Readable
        /\ ~late => Verdict # "broken"
        /\ at[Owner] # "anchored" => AnchorVerdict \in {"unanchored", "verified"}

=============================================================================
