----------------------------- MODULE VerifyCache -----------------------------
(***************************************************************************)
(* `spc verify' in its three forms, while somebody edits the repository:   *)
(* the full sweep over all specs, which skips a spec it finds fresh and    *)
(* reuses what a command gave before; the sweep of one run's result in a   *)
(* worktree; and the partial sweep against a diff.  Invocations share the  *)
(* cache file and the records of runs and take no lock.  Somebody answers  *)
(* the questions that a run has left open, when it is over.                *)
(*                                                                         *)
(* The content of a package is a version; what a build leaves is the       *)
(* version it was built from, and git ignores it.  A command passes on     *)
(* good versions of all it reads.  A digest is the content it stands for.  *)
(* The texts of specs and suites do not change.  Evidence of agents alone  *)
(* is allowed.  A criterion that a person judges, or an agent where there  *)
(* is none, is as a command that every config denies: it is not executed,  *)
(* and leaves a question.                                                  *)
(***************************************************************************)
EXTENDS Naturals, Sequences, SequencesExt, FiniteSets

CONSTANTS
    Invokers,             \* processes
    Pkgs, Deps,           \* packages, and the workspace packages each depends on
    Versions, Good,       \* contents of a package, and those its commands pass on
    SpecOrder, Acceptance,\* specs, and the criteria of each in order
    Kind, Id, Prop, Must, \* of a criterion: its type, id and property; the musts
    Command,              \* of a criterion, its command or, of a file criterion, the package
    Filter, WithDeps,     \* of a command, the packages it names, the ... form;
    Reads, Builds, Slow,  \* what it reads in truth; the commands that build first;
                          \* those that may run into their timeout
    Denied, Origin,       \* the commands a config denies; the config at first
    First, Results,       \* the contents at first; those that apply runs commit
    MaxEdits, MaxCommits, MaxStarts, MaxLosses \* bounds

Specs == Range(SpecOrder)
Criteria == UNION {Range(Acceptance[s]) : s \in Specs}
Commands == DOMAIN Filter
Configs == DOMAIN Denied

ASSUME VerifyCacheAssumption ==
    /\ Deps \in [Pkgs -> SUBSET Pkgs] /\ Good \subseteq Versions
    /\ Kind \in [Criteria -> {"command", "file", "agent"}] /\ First \cup Results \subseteq [Pkgs -> Versions]
    /\ \A c \in Criteria : Kind[c] = "command" => Command[c] \in Commands
    /\ \A c \in Criteria : Kind[c] = "file" => Command[c] \in Pkgs
    \* the empty filter is that of a command with no scope
    /\ Filter \in [Commands -> SUBSET Pkgs] /\ WithDeps \in [Commands -> BOOLEAN]
    /\ Reads \in [Commands -> SUBSET Pkgs] /\ Builds \cup Slow \subseteq Commands
    /\ Denied \in [Configs -> SUBSET Commands] /\ Origin \in Configs
    /\ {MaxEdits, MaxCommits, MaxStarts, MaxLosses} \subseteq Nat

VARIABLES
    src, dist, config,    \* the working tree, what git ignores in it, .spc/config.yaml
    commits, head,        \* every commit, with its parent; the one checked out
    file,                 \* .spc/cache/verify-commands.json, an entry by command
    runs,                 \* .spc/runs
    pc, mode, rules,      \* an invocation, and the config it loaded
    specs, todo, run,     \* specs and criteria it has left, the run it records
    about,                \* the commit a sweep of a run or against a diff is about
    cache, memo,          \* its copy of the cache, and its executions, by command
    saw, good, asked,     \* what its command gives; what held, and what somebody is to
                          \* decide, in the sweep so far
    touched,              \* history: the repository changed since it started, or
                          \* since its command did
    edits, starts,        \* bounds
    losses                \* bound: timeouts and deaths
tree == <<src, dist, config>>
repo == <<commits, head>>
invocation == <<pc, mode, rules, specs, todo, run, about, cache, memo, saw, good, asked>>
counts == <<edits, starts, losses>>
vars == <<tree, repo, file, runs, invocation, touched, counts>>

None == [is |-> "none", torn |-> FALSE]
Nothing == [c \in {} |-> None]
Put(f, c, v) == [x \in DOMAIN f \cup {c} |-> IF x = c THEN v ELSE f[x]]
Quiet == [all |-> FALSE, now |-> FALSE]
Shaken(i) == IF pc[i] = "out" THEN Quiet ELSE [all |-> TRUE, now |-> pc[i] = "executing"]

Init ==
    /\ src \in First /\ dist = [p \in Pkgs |-> "absent"]
    /\ config = Origin
    /\ commits = <<[parent |-> 0, content |-> src]>> /\ head = 1
    /\ file = Nothing /\ runs = <<>>
    /\ pc = [i \in Invokers |-> "out"] /\ mode = [i \in Invokers |-> "normal"]
    /\ rules = [i \in Invokers |-> Origin] /\ run = [i \in Invokers |-> 0]
    /\ specs = [i \in Invokers |-> <<>>] /\ todo = [i \in Invokers |-> <<>>]
    /\ about = [i \in Invokers |-> 0] /\ good = [i \in Invokers |-> {}]
    /\ asked = [i \in Invokers |-> {}] /\ cache = [i \in Invokers |-> file]
    /\ memo = [i \in Invokers |-> Nothing] /\ saw = [i \in Invokers |-> None]
    /\ touched = [i \in Invokers |-> Quiet]
    /\ edits = 0 /\ starts = 0 /\ losses = 0

-----------------------------------------------------------------------------
(* git *)

Dirty == src # commits[head].content
ContentOf(r) == commits[r].content
Ancestors(r) ==
    LET up[x \in 0..Len(commits)] == IF x = 0 THEN {} ELSE {x} \cup up[commits[x].parent] IN up[r]
Changed(a, b) == {p \in Pkgs : ContentOf(a)[p] # ContentOf(b)[p]}

-----------------------------------------------------------------------------
(* The command cache. *)

\* resolveScopeDirs: with `...' also what these depend on, in turn.
ScopeDirs == [c \in Commands |->
    LET reach[n \in Nat] == IF n = 0 THEN Filter[c]
                            ELSE reach[n - 1] \cup UNION {Deps[p] : p \in reach[n - 1]}
    IN IF WithDeps[c] THEN reach[Cardinality(Pkgs)] ELSE Filter[c]]

Scoped(c) == Filter[c] # {}
Digest(f, c) == [p \in ScopeDirs[c] |-> f[p]]

\* CommandCache.record: under what the tree is once the command is over.
Entry(c, torn) == [src |-> Digest(src, c), dist |-> Digest(dist, c), torn |-> torn]

\* Broken: what the command left in dist is not looked at.
ReusableUnbuilt(c, f) == Scoped(c) /\ c \in DOMAIN f /\ f[c].src = Digest(src, c)

\* CommandCache.reusable; an entry only ever holds a pass.
Reusable(c, f) ==
    Scoped(c) /\ c \in DOMAIN f /\ f[c].src = Digest(src, c) /\ f[c].dist = Digest(dist, c)

-----------------------------------------------------------------------------
(* freshnessCheck and postureFor. *)

\* trackedDrift
Drifted(anchor, cfg) ==
    \/ Dirty \/ cfg # config
    \/ anchor \notin Ancestors(head) \/ Changed(anchor, head) # {}

Latest(rs) == CHOOSE r \in rs : \A q \in rs : q <= r
RunsOf(s) == {r \in DOMAIN runs : runs[r].spec = s}
VerifyRunsOf(s) == {r \in RunsOf(s) : runs[r].kind = "verify"}

\* The properties of a spec, and the criteria of one.
PropsOf(s) == {Prop[c] : c \in Range(Acceptance[s])}
CriteriaOf(s, p) == {c \in Range(Acceptance[s]) : Prop[c] = p}

\* evaluateProperty over evidence that supports these criteria: every criterion needs
\* it, unless there is a waiver.
Satisfied(s, ok, waived) == {p \in PropsOf(s) : p \in waived \/ CriteriaOf(s, p) \subseteq ok}

\* In state.json all these properties are satisfied or waived.
HeldAll(r, props) == props \subseteq runs[r].green

\* Broken: the latest run that satisfied everything will do.
FreshOnceGreen(s) ==
    LET green == {r \in VerifyRunsOf(s) : HeldAll(r, PropsOf(s))} IN
    /\ ~Dirty /\ green # {}
    /\ LET r == Latest(green) IN
       /\ runs[r].loads /\ ~runs[r].dirty
       /\ runs[r].base \in Ancestors(head)

\* The latest verify run of the spec, whole and of a clean tree, held everything as its
\* state.json has it now, and nothing tracked has changed since the revision it names.
Fresh(s) ==
    /\ ~Dirty /\ VerifyRunsOf(s) # {}
    /\ LET r == Latest(VerifyRunsOf(s)) IN
       /\ runs[r].loads /\ ~runs[r].dirty
       /\ runs[r].closed /\ HeldAll(r, PropsOf(s))
       /\ ~Drifted(runs[r].base, runs[r].config)

\* Broken: any run describes what it began from.
AnchorBase(r) == runs[r].base

\* A verify run describes its base, an apply run its result.
Anchor(r) == IF runs[r].kind = "apply" THEN runs[r].result ELSE runs[r].base

Valid(s) == {r \in RunsOf(s) : runs[r].loads}
Posture(s) ==
    IF Valid(s) = {} THEN "unverified"
    ELSE LET r == Latest(Valid(s)) IN
         IF ~HeldAll(r, Must \cap PropsOf(s)) THEN "active"
         ELSE IF runs[r].kind = "verify" /\ runs[r].dirty THEN "stale"
         ELSE IF Drifted(Anchor(r), runs[r].config) THEN "stale" ELSE "standing"

-----------------------------------------------------------------------------
(* Somebody works in the repository meanwhile. *)

\* What the tracked files say of a criterion, whatever was built from them.
Holds(c, content) ==
    CASE Kind[c] = "command" -> \A p \in Reads[Command[c]] : content[p] \in Good
      [] Kind[c] = "file" -> content[Command[c]] \in Good
      [] OTHER -> TRUE

Touch == touched' = [i \in Invokers |-> Shaken(i)]

\* Sources, a build of everything or its removal, the config.
Edit ==
    /\ edits < MaxEdits /\ edits' = edits + 1 /\ Touch
    /\ \/ \E p \in Pkgs, v \in Versions : v # src[p] /\ src' = [src EXCEPT ![p] = v] /\ UNCHANGED <<dist, config>>
       \/ dist' \in {src, [p \in Pkgs |-> "absent"]} \ {dist} /\ UNCHANGED <<src, config>>
       \/ config' \in Configs \ {config} /\ UNCHANGED <<src, dist>>
    /\ UNCHANGED <<repo, file, runs, invocation, starts, losses>>

CommitAll ==
    /\ Dirty /\ Len(commits) < MaxCommits
    /\ commits' = Append(commits, [parent |-> head, content |-> src])
    /\ head' = Len(commits) + 1
    /\ UNCHANGED <<tree, file, runs, invocation, touched, counts>>

Checkout ==
    /\ ~Dirty /\ edits < MaxEdits /\ edits' = edits + 1 /\ Touch
    /\ \E r \in DOMAIN commits \ {head} : head' = r /\ src' = ContentOf(r)
    /\ UNCHANGED <<dist, config, commits, file, runs, invocation, starts, losses>>

\* An apply run, on a branch of its own or in place: it commits a result, and its last
\* sweep finds what holds there, of what it may execute.
ApplyRun ==
    /\ Len(commits) < MaxCommits /\ starts < MaxStarts
    /\ \E s \in Specs, v \in Results :
          LET denied == {c \in Range(Acceptance[s]) : Kind[c] = "command" /\ Command[c] \in Denied[config]}
              ok == {c \in Range(Acceptance[s]) \ denied : Holds(c, v)} IN
          /\ commits' = Append(commits, [parent |-> head, content |-> v])
          /\ \/ UNCHANGED <<src, head, touched>>
             \/ ~Dirty /\ src' = v /\ head' = Len(commits) + 1 /\ Touch
          /\ runs' = Append(runs, [kind |-> "apply", spec |-> s, base |-> head, result |-> Len(commits) + 1,
                                   dirty |-> FALSE, config |-> config, loads |-> TRUE, sound |-> TRUE,
                                   supported |-> ok, asked |-> denied, answered |-> {}, waived |-> {},
                                   closed |-> TRUE, green |-> Satisfied(s, ok, {})])
    /\ starts' = starts + 1
    /\ UNCHANGED <<dist, config, file, invocation, edits, losses>>

\* The evidence of a decision, and the properties as they are with it: all that is
\* recorded counts, whatever the tree is by now.
Decided(r, c, d) ==
    [runs[r] EXCEPT !.asked = @ \ {c},
                    !.answered = IF d = "other" THEN @ ELSE @ \cup {c},
                    !.waived = IF d = "waive" THEN @ \cup {Prop[c]} ELSE @]
Reevaluated(x, p) ==
    [x EXCEPT !.green = (@ \ {p}) \cup ({p} \cap Satisfied(x.spec, x.supported \cup x.answered, x.waived))]

\* resolveFollowup: somebody waives, confirms, or decides otherwise on a question that
\* a run has left open; its property is rewritten in state.json, which a death leaves as
\* it was, or torn.  What is resolved while a run is on does not reach the state.json
\* that it writes in the end, and is left out.
Resolve ==
    \E r \in DOMAIN runs : \E c \in runs[r].asked, d \in {"waive", "confirm", "other"} :
        /\ runs[r].closed /\ runs[r].loads
        /\ \/ runs' = [runs EXCEPT ![r] = Reevaluated(Decided(r, c, d), Prop[c])] /\ UNCHANGED losses
           \/ /\ losses < MaxLosses /\ losses' = losses + 1
              /\ \E l \in BOOLEAN : runs' = [runs EXCEPT ![r] = [Decided(r, c, d) EXCEPT !.loads = l]]
        /\ UNCHANGED <<tree, repo, file, invocation, touched, edits, starts>>

-----------------------------------------------------------------------------
(* An invocation. *)

\* CommandCache: the file as it is when the cache is made, and all of the cache again.
Loaded(i) == cache' = [cache EXCEPT ![i] = file]
Persisted(i) == file' = cache[i]

Enter(i, m, at, work, rev) ==
    /\ pc[i] = "out" /\ starts < MaxStarts
    /\ starts' = starts + 1
    /\ pc' = [pc EXCEPT ![i] = at] /\ mode' = [mode EXCEPT ![i] = m]
    /\ rules' = [rules EXCEPT ![i] = config]
    /\ specs' = [specs EXCEPT ![i] = work]
    /\ about' = [about EXCEPT ![i] = rev]
    /\ Loaded(i)
    /\ touched' = [touched EXCEPT ![i] = [all |-> m = "scoped" /\ Dirty, now |-> FALSE]]
    /\ UNCHANGED <<tree, repo, file, memo, saw, good, asked, edits, losses>>
kept == <<tree, repo, file, mode, rules, specs, run, about>>

\* A run in .spc/runs, begun in the repository as it is.
Begin(i, s, sound) ==
    /\ runs' = Append(runs, [kind |-> "verify", spec |-> s, base |-> head, result |-> 0,
                             dirty |-> Dirty, config |-> config, loads |-> TRUE, sound |-> sound,
                             supported |-> {}, asked |-> {}, answered |-> {}, waived |-> {},
                             closed |-> FALSE, green |-> {}])
    /\ run' = [run EXCEPT ![i] = Len(runs) + 1]
    /\ todo' = [todo EXCEPT ![i] = Acceptance[s]]

\* Bare, or with --all.
Start(i) ==
    /\ Enter(i, "normal", "loaded", SpecOrder, 0)
    /\ UNCHANGED <<runs, run, todo>>

\* The cache is written back as it was read, before a sweep against a diff too.
PersistFirst(i) ==
    /\ pc[i] = "loaded"
    /\ Persisted(i)
    /\ pc' = [pc EXCEPT ![i] = IF mode[i] = "scoped" THEN "narrow" ELSE "next"]
    /\ UNCHANGED <<tree, repo, runs, mode, rules, specs, todo, run, about, cache, memo,
                   saw, good, asked, touched, counts>>

\* verify --run: in a worktree of its result, recorded as of the repository's HEAD.
StartOfRun(i) ==
    /\ \E r \in DOMAIN runs :
          /\ runs[r].result # 0
          /\ \E m \in {"run", "unprepared"} : Enter(i, m, "sweep", <<>>, runs[r].result)
          /\ Begin(i, runs[r].spec, FALSE)

\* Broken: a command without a scope is taken to read nothing.
DisjointUnscoped(c, base) ==
    CASE Kind[c] = "file" -> Command[c] \notin Changed(base, head)
      [] Kind[c] = "command" -> ScopeDirs[Command[c]] \cap Changed(base, head) = {}
      [] OTHER -> FALSE

\* Skipped against a base: a file it does not touch, a scope disjoint from it.
Disjoint(c, base) ==
    CASE Kind[c] = "file" -> Command[c] \notin Changed(base, head)
      [] Kind[c] = "command" -> Scoped(Command[c]) /\ ScopeDirs[Command[c]] \cap Changed(base, head) = {}
      [] OTHER -> FALSE

\* By the id, which is only unique within its spec.
Skipped(base) == {c \in Criteria : \E d \in Criteria : Id[d] = Id[c] /\ Disjoint(d, base)}

\* verify --scoped-to-diff: one sweep over the rest, on no record.
StartScoped(i) ==
    /\ \E base \in DOMAIN commits : Enter(i, "scoped", "loaded", <<>>, base)
    /\ UNCHANGED <<runs, run, todo>>
Narrow(i) ==
    /\ pc[i] = "narrow"
    /\ pc' = [pc EXCEPT ![i] = "sweep"]
    /\ todo' = [todo EXCEPT ![i] =
          SelectSeq(FlattenSeq([k \in DOMAIN SpecOrder |-> Acceptance[SpecOrder[k]]]),
                    LAMBDA c : c \notin Skipped(about[i]))]
    /\ UNCHANGED <<kept, runs, cache, memo, saw, good, asked, touched, counts>>

\* The next spec: fresh, and passed over, or verified, as it is with --all even if it
\* is fresh; an invocation does either at every spec, and so what one with or without
\* --all does.
NextSpec(i) ==
    /\ pc[i] = "next" /\ specs[i] # <<>>
    /\ specs' = [specs EXCEPT ![i] = Tail(@)]
    /\ \/ Fresh(Head(specs[i])) /\ UNCHANGED <<pc, runs, run, todo>>
       \/ pc' = [pc EXCEPT ![i] = "sweep"] /\ Begin(i, Head(specs[i]), ~touched[i].all)
    /\ UNCHANGED <<tree, repo, file, mode, rules, about, cache, memo, saw, good, asked, touched, counts>>

-----------------------------------------------------------------------------
(* A criterion. *)

At(i, kind) == pc[i] = "sweep" /\ todo[i] # <<>> /\ Kind[Head(todo[i])] = kind
Now(i) == Command[Head(todo[i])]

\* What a tree gives.  A worktree has nothing built, or what its command builds.
Passes(c, content, built) ==
    \A p \in Reads[c] : content[p] \in Good /\ (c \notin Builds => built[p] \in Good)
Here(i) == mode[i] \in {"normal", "scoped"}
Content(i) == IF Here(i) THEN src ELSE ContentOf(about[i])
Built(i) == IF Here(i) THEN dist ELSE [p \in Pkgs |-> "absent"]

\* The evidence of a criterion, and a follow-up if somebody is to decide; a run stays
\* sound while all it has describes the repository it names.
Record(i, is, torn) ==
    /\ good' = IF is = "supports" THEN [good EXCEPT ![i] = @ \cup {Head(todo[i])}] ELSE good
    /\ asked' = IF is = "asks" THEN [asked EXCEPT ![i] = @ \cup {Head(todo[i])}] ELSE asked
    /\ runs' = IF run[i] = 0 THEN runs ELSE [runs EXCEPT ![run[i]].sound = @ /\ ~torn /\ ~touched[i].all]
    /\ todo' = [todo EXCEPT ![i] = Tail(@)]

\* The command's scope takes in all it reads.
Covered(c) == Scoped(c) => Reads[c] \subseteq ScopeDirs[c]

\* The same command ran before in this invocation, and not into its timeout.
Known(i, c) == c \in DOMAIN memo[i] /\ memo[i][c].is # "timeout"
Recall(i) ==
    /\ At(i, "command") /\ mode[i] # "unprepared" /\ Known(i, Now(i))
    /\ Record(i, memo[i][Now(i)].is, memo[i][Now(i)].torn)
    /\ UNCHANGED <<kept, pc, cache, memo, saw, touched, counts>>

Looks(i) == mode[i] # "scoped" /\ Now(i) \notin DOMAIN memo[i]

\* The cache has it; a sweep against a diff does not look.
Reuse(i) ==
    /\ At(i, "command") /\ mode[i] # "unprepared" /\ Looks(i) /\ Reusable(Now(i), cache[i])
    /\ Record(i, "supports", cache[i][Now(i)].torn \/ ~Covered(Now(i)))
    /\ UNCHANGED <<kept, pc, cache, memo, saw, touched, counts>>

\* Without an environment nothing is executed, and nobody is asked.
Unprepared(i) ==
    /\ At(i, "command") /\ mode[i] = "unprepared"
    /\ Record(i, "inconclusive", FALSE)
    /\ UNCHANGED <<kept, pc, cache, memo, saw, touched, counts>>

\* Otherwise the command executes, if the policy lets it, and may time out, twice.
Execute(i) ==
    LET c == Now(i)
        denied == c \in Denied[rules[i]] IN
    /\ At(i, "command") /\ mode[i] # "unprepared" /\ ~Known(i, c)
    /\ ~(Looks(i) /\ Reusable(c, cache[i]))
    /\ \/ /\ saw' = [saw EXCEPT ![i].is = IF denied THEN "asks"
                                      ELSE IF Passes(c, Content(i), Built(i)) THEN "supports"
                                      ELSE "contradicts"]
          /\ UNCHANGED losses
       \/ /\ ~denied /\ c \in Slow /\ losses < MaxLosses /\ losses' = losses + 1
          /\ saw' = [saw EXCEPT ![i].is = "timeout"]
    /\ dist' = IF c \in Builds /\ ~denied /\ Here(i)
               THEN [p \in Pkgs |-> IF p \in Reads[c] THEN src[p] ELSE dist[p]] ELSE dist
    /\ pc' = [pc EXCEPT ![i] = "executing"]
    /\ touched' = [j \in Invokers |-> IF j # i /\ dist' # dist THEN Shaken(j) ELSE touched[j]]
    /\ UNCHANGED <<src, config, repo, file, runs, mode, rules, specs, todo, run, about,
                   cache, memo, good, asked, edits, starts>>

\* Kept for this invocation and, if it passed, in the cache, under the digests of
\* the repository as it is now.
Finish(i) ==
    LET c == Now(i)
        torn == touched[i].now \/ ~Here(i) IN
    /\ pc[i] = "executing"
    /\ pc' = [pc EXCEPT ![i] = "sweep"]
    /\ memo' = [memo EXCEPT ![i] = Put(@, c, [saw[i] EXCEPT !.torn = torn])]
    /\ cache' = IF mode[i] # "scoped" /\ saw[i].is = "supports" /\ Scoped(c)
                THEN [cache EXCEPT ![i] = Put(@, c, Entry(c, torn))] ELSE cache
    /\ saw' = [saw EXCEPT ![i] = None]
    /\ Record(i, saw[i].is, torn)
    /\ touched' = [touched EXCEPT ![i].now = FALSE]
    /\ UNCHANGED <<kept, counts>>

ReadFile(i) ==
    /\ At(i, "file")
    /\ Record(i, IF Content(i)[Now(i)] \in Good THEN "supports" ELSE "contradicts", FALSE)
    /\ UNCHANGED <<kept, pc, cache, memo, saw, touched, counts>>

\* An agent finds that it holds, or not; what it leaves open does not hold by it either.
Judge(i) ==
    /\ At(i, "agent")
    /\ \E is \in {"supports", "contradicts"} : Record(i, is, FALSE)
    /\ UNCHANGED <<kept, pc, cache, memo, saw, touched, counts>>

-----------------------------------------------------------------------------
(* The end of a run and of an invocation. *)

Clear(i) == good' = [good EXCEPT ![i] = {}] /\ asked' = [asked EXCEPT ![i] = {}]
Leave(i) ==
    /\ pc' = [pc EXCEPT ![i] = "out"]
    /\ mode' = [mode EXCEPT ![i] = "normal"] /\ about' = [about EXCEPT ![i] = 0]
    /\ run' = [run EXCEPT ![i] = 0] /\ todo' = [todo EXCEPT ![i] = <<>>]
    /\ specs' = [specs EXCEPT ![i] = <<>>] /\ saw' = [saw EXCEPT ![i] = None]
    /\ memo' = [memo EXCEPT ![i] = Nothing] /\ Clear(i)
    /\ cache' = [cache EXCEPT ![i] = Nothing]
    /\ touched' = [touched EXCEPT ![i] = Quiet] /\ rules' = [rules EXCEPT ![i] = Origin]
    /\ UNCHANGED <<tree, repo, edits, starts>>

\* The evidence and the follow-ups of a run are all there, and state.json tells what
\* holds by them.
Closed(i, green) ==
    runs' = [runs EXCEPT ![run[i]].sound = @ /\ ~touched[i].all, ![run[i]].closed = TRUE,
                         ![run[i]].supported = good[i], ![run[i]].asked = asked[i],
                         ![run[i]].green = green]

\* The next spec follows; nothing in the sweep of a run.
Conclude(i) ==
    /\ pc[i] = "sweep" /\ todo[i] = <<>> /\ run[i] # 0
    /\ Closed(i, Satisfied(runs[run[i]].spec, good[i], {}))
    /\ IF mode[i] = "normal"
       THEN /\ pc' = [pc EXCEPT ![i] = "next"] /\ run' = [run EXCEPT ![i] = 0] /\ Clear(i)
            /\ UNCHANGED <<tree, repo, mode, rules, specs, todo, about, cache, memo, saw,
                           touched, edits, starts>>
       ELSE Leave(i)
    /\ UNCHANGED <<file, losses>>

\* A sweep against a diff ends in a report and writes nothing.
Report(i) ==
    /\ pc[i] = "sweep" /\ todo[i] = <<>> /\ run[i] = 0
    /\ pc' = [pc EXCEPT ![i] = "reported"]
    /\ UNCHANGED <<kept, runs, todo, cache, memo, saw, good, asked, touched, counts>>

Exit(i) == pc[i] = "reported" /\ Leave(i) /\ UNCHANGED <<file, runs, losses>>

\* All specs are done; the cache is written as a whole.
Persist(i) ==
    /\ pc[i] = "next" /\ specs[i] = <<>>
    /\ Persisted(i)
    /\ Leave(i)
    /\ UNCHANGED <<runs, losses>>

\* No answer in time: the run is closed as timed out, with nothing held, and the
\* invocation fails.
Expire(i) ==
    /\ At(i, "agent") /\ Leave(i)
    /\ IF run[i] = 0 THEN UNCHANGED runs ELSE Closed(i, {})
    /\ UNCHANGED <<file, losses>>

\* The process dies; a run it was in has no state.json, or half of one, which is
\* not loaded.
Die(i) ==
    /\ pc[i] # "out" /\ losses < MaxLosses /\ losses' = losses + 1
    /\ \/ UNCHANGED runs
       \/ /\ pc[i] = "sweep" /\ todo[i] = <<>> /\ run[i] # 0
          /\ runs' = [runs EXCEPT ![run[i]].loads = FALSE]
    /\ Leave(i)
    /\ UNCHANGED file

Step(i) ==
    \/ Start(i) \/ PersistFirst(i) \/ StartOfRun(i) \/ StartScoped(i) \/ Narrow(i) \/ NextSpec(i)
    \/ Recall(i) \/ Reuse(i) \/ Unprepared(i) \/ Execute(i) \/ Finish(i) \/ ReadFile(i) \/ Judge(i)
    \/ Conclude(i) \/ Report(i) \/ Exit(i) \/ Persist(i) \/ Expire(i) \/ Die(i)
Next == Edit \/ CommitAll \/ Checkout \/ ApplyRun \/ Resolve \/ \E i \in Invokers : Step(i)
Spec == Init /\ [][Next]_vars
-----------------------------------------------------------------------------
(* What reuse and freshness promise. *)

\* "Reuse holds exactly when re-execution would be a deterministic no-op"
\* (command-cache.ts): an entry that may be reused is of a command that would pass
\* now, unless the repository changed while it ran or its scope leaves out what it
\* reads; whichever invocations wrote the file last.
ReuseIsSound ==
    \A f \in {file} \cup {cache[i] : i \in Invokers} : \A c \in DOMAIN f :
        Reusable(c, f) /\ ~f[c].torn /\ Covered(c) => Passes(c, src, dist)

\* Somebody has waived the property of the criterion, or answered for it.
Vouched(r, c) == c \in runs[r].answered \/ Prop[c] \in runs[r].waived

\* "An unverified change can never inherit verified status" (freshness.ts): every
\* criterion of a spec passed over as fresh would hold on the tracked files now, unless
\* somebody has vouched for it; if the evidence of the run it relies on was collected
\* in the repository that the run names.
CachedHolds ==
    \A s \in Specs :
        LET r == Latest(VerifyRunsOf(s)) IN
        Fresh(s) /\ runs[r].sound =>
            \A c \in Range(Acceptance[s]) : Vouched(r, c) \/ Holds(c, src)

\* The posture `standing': all criteria of the musts of the spec hold on the tracked
\* files now, with the same exception and condition, for runs of either kind, of any
\* result, and after any work since.
StandingHolds ==
    \A s \in Specs :
        LET r == Latest(Valid(s)) IN
        Posture(s) = "standing" /\ runs[r].sound =>
            \A c \in Range(Acceptance[s]) : Prop[c] \in Must => Vouched(r, c) \/ Holds(c, src)

\* A sweep against a diff, of a clean tree: a criterion that it skipped, or found to
\* hold, and that held at the base, holds now, if its id is its own and its scope takes
\* in all it reads.
PartialIsHonest ==
    \A i \in Invokers :
        LET base == about[i]
            owned == {c \in Criteria : \A d \in Criteria \ {c} : Id[d] # Id[c]} IN
        pc[i] = "reported" /\ ~touched[i].all =>
            \A c \in owned \cap (Skipped(base) \cup good[i]) :
                (Kind[c] = "command" => Covered(Command[c])) /\ Holds(c, ContentOf(base)) => Holds(c, src)
=============================================================================
