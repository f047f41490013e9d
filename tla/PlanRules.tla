----------------------------- MODULE PlanRules -----------------------------
(***************************************************************************)
(* What makes a plan usable and what an amendment makes of it: the graph   *)
(* searches, the overlap test on write targets, validatePlan,              *)
(* applyPlanAmendment and the risk tiers, as functions of their inputs.    *)
(*                                                                         *)
(* A plan is the sequence of its tasks.  A write target is the sequence of *)
(* the segments of a pattern, in which "*" stands for any segment and "**" *)
(* for any number of them; a pattern without either is a path.             *)
(***************************************************************************)
EXTENDS Naturals, Sequences, SequencesExt, FiniteSetsExt

CONSTANTS
    Properties, Must,   \* the properties of the spec, those of priority must
    Deterministic,      \* properties with a command or file criterion
    Directories,        \* paths of directories of the repository
    HighRisk            \* patterns whose change needs approval

\* A task of a plan.
PlanTask(id, kind, deps, satisfies, verifies, writes) ==
    [id |-> id, kind |-> kind, deps |-> deps, satisfies |-> satisfies, verifies |-> verifies,
     writes |-> writes, risk |-> "low"]

Ids(p) == {p[i].id : i \in DOMAIN p}

\* Dependencies by id: the first task of that id counts, an unknown one has none.
DepsOf(p, t) ==
    UNION {p[i].deps : i \in {j \in DOMAIN p : /\ p[j].id = t
                                               /\ \A k \in 1..(j - 1) : p[k].id # t}}
WritesOf(p, t) == UNION {p[i].writes : i \in {j \in DOMAIN p : p[j].id = t}}

-----------------------------------------------------------------------------
(* Graph searches. *)

\* Every node an edge of the plan mentions.
Nodes(p) == Ids(p) \cup UNION {p[i].deps : i \in DOMAIN p}

\* A search that has come to the end of a path, and is done with some nodes.
Ahead(p, s) == DepsOf(p, Last(s.path)) \ s.done
Searching(p) == [path : Seq(Nodes(p)), done : SUBSET Nodes(p)]

\* Broken: nodes on the stack are not told from finished ones.
FindCycleForgetful(p) ==
    LET Search[s \in Searching(p)] ==
          IF s.path = <<>>
          THEN IF Ids(p) \subseteq s.done THEN FALSE
               ELSE Search[[s EXCEPT !.path = <<CHOOSE n \in Ids(p) \ s.done : TRUE>>]]
          ELSE IF Ahead(p, s) \subseteq Range(s.path)
          THEN Search[[path |-> Front(s.path), done |-> s.done \cup {Last(s.path)}]]
          ELSE Search[[s EXCEPT !.path = Append(@, CHOOSE m \in Ahead(p, s) \ Range(@) : TRUE)]]
    IN  Search[[path |-> <<>>, done |-> {}]]

\* Depth first: the nodes on the path are gray, those done are black, and a cycle is an
\* edge from the end of the path to a gray node.
FindCycle(p) ==
    LET Search[s \in Searching(p)] ==
          IF s.path = <<>>
          THEN IF Ids(p) \subseteq s.done THEN FALSE
               ELSE Search[[s EXCEPT !.path = <<CHOOSE n \in Ids(p) \ s.done : TRUE>>]]
          ELSE IF Ahead(p, s) \cap Range(s.path) # {} THEN TRUE
          ELSE IF Ahead(p, s) = {}
          THEN Search[[path |-> Front(s.path), done |-> s.done \cup {Last(s.path)}]]
          ELSE Search[[s EXCEPT !.path = Append(@, CHOOSE m \in Ahead(p, s) : TRUE)]]
    IN  Search[[path |-> <<>>, done |-> {}]]

\* Every node a chain of dependencies leads to.
ReachableFrom(p, t) ==
    LET Walk[w \in [queue : SUBSET Nodes(p), out : SUBSET Nodes(p)]] ==
          LET n == CHOOSE m \in w.queue : TRUE IN
          IF w.queue = {} THEN w.out
          ELSE IF n \in w.out THEN Walk[[w EXCEPT !.queue = @ \ {n}]]
          ELSE Walk[[queue |-> (w.queue \ {n}) \cup DepsOf(p, n), out |-> w.out \cup {n}]]
    IN  Walk[[queue |-> DepsOf(p, t), out |-> {}]]

-----------------------------------------------------------------------------
(* Write targets. *)

\* globMatch: a final "**" takes at least one segment, an inner one may take none.
GlobMatch(pattern, path) ==
    LET Match[i \in 1..(Len(pattern) + 1), j \in 1..(Len(path) + 1)] ==
          IF i > Len(pattern) THEN j > Len(path)
          ELSE IF pattern[i] = "**"
          THEN IF i = Len(pattern) THEN j <= Len(path)
               ELSE Match[i + 1, j] \/ (j <= Len(path) /\ Match[i, j + 1])
          ELSE j <= Len(path) /\ pattern[i] \in {"*", path[j]} /\ Match[i + 1, j + 1]
    IN  Match[1, 1]

Wild == {"*", "**"}

\* The segments before the first wildcard.
LiteralPrefix(pattern) ==
    SubSeq(pattern, 1, CHOOSE n \in 0..Len(pattern) :
               /\ \A i \in 1..n : pattern[i] \notin Wild
               /\ n = Len(pattern) \/ pattern[n + 1] \in Wild)

\* "Could these two patterns match a common path?", by their literal prefixes.
PatternsOverlap(a, b) ==
    \/ a = b
    \/ LiteralPrefix(a) = <<>> \/ LiteralPrefix(b) = <<>>
    \/ GlobMatch(a, LiteralPrefix(b)) \/ GlobMatch(b, LiteralPrefix(a))

WritesOverlap(ws, vs) == \E a \in ws, b \in vs : PatternsOverlap(a, b)

-----------------------------------------------------------------------------
(* Validation. *)

Ordered(p, s, t) == s \in ReachableFrom(p, t) \/ t \in ReachableFrom(p, s)

\* validatePlan: the errors of a plan.
PlanErrors(p) ==
    LET addressed == UNION {p[i].satisfies \cup p[i].verifies : i \in DOMAIN p}
        verified == UNION {p[i].verifies : i \in DOMAIN p}
        code(c, holds) == IF holds THEN {c} ELSE {}
    IN  UNION {
          code("duplicate_task", \E i, j \in DOMAIN p : i # j /\ p[i].id = p[j].id),
          code("unknown_dependency", \E i \in DOMAIN p : ~(p[i].deps \subseteq Ids(p))),
          code("cycle", FindCycle(p)),
          code("unknown_property", ~(addressed \subseteq Properties)),
          code("not_addressed", ~(Must \subseteq addressed)),
          code("not_verified", ~(Must \subseteq Deterministic \cup verified)),
          code("write_conflict",
               \E i, j \in DOMAIN p : /\ i < j
                                      /\ WritesOverlap(p[i].writes, p[j].writes)
                                      /\ ~Ordered(p, p[i].id, p[j].id)),
          code("inspect_writes", \E i \in DOMAIN p : p[i].kind = "inspect" /\ p[i].writes # {}),
          code("bare_directory", \E i \in DOMAIN p : p[i].writes \cap Directories # {})}

-----------------------------------------------------------------------------
(* Amendments: a sequence of operations on the tasks. *)

Without(p, t) ==
    LET kept[i \in 0..Len(p)] ==
          IF i = 0 THEN <<>>
          ELSE IF p[i].id = t THEN kept[i - 1] ELSE Append(kept[i - 1], p[i])
    IN  kept[Len(p)]

\* Whoever depends on t depends on ts instead.
Rewire(p, t, ts) ==
    [i \in DOMAIN p |-> [p[i] EXCEPT !.deps = IF t \in @ THEN (@ \ {t}) \cup ts ELSE @]]
AddDep(p, t, d) ==
    [i \in DOMAIN p |-> IF p[i].id = t THEN [p[i] EXCEPT !.deps = @ \cup {d}] ELSE p[i]]

\* Broken: what has executed may be removed.
OperationForgetful(p, op, executed) ==
    CASE op.op = "removeTask" -> Rewire(Without(p, op.task), op.task, {})
      [] OTHER -> p

\* One operation on a plan that was fine so far: the new plan, or <<>> where
\* it is refused (a plan has at least one task).
Operation(p, op, executed) ==
    LET known == op.task \in Ids(p)
        replaced == [i \in DOMAIN p |-> IF p[i].id = op.task THEN op.by ELSE p[i]]
    IN  CASE op.op = "addTask" /\ op.by.id \notin Ids(p) -> Append(p, op.by)
          [] op.op = "removeTask" /\ known /\ op.task \notin executed ->
                Rewire(Without(p, op.task), op.task, {})
          [] op.op = "replaceTask" /\ known /\ op.task \notin executed
                /\ op.by.id \notin Ids(p) \ {op.task} ->
                IF op.by.id = op.task THEN replaced
                ELSE Rewire(replaced, op.task, {op.by.id})
          [] op.op = "addDependency" /\ {op.task, op.on} \subseteq Ids(p)
                /\ ~FindCycle(AddDep(p, op.task, op.on)) -> AddDep(p, op.task, op.on)
          [] op.op = "changeTarget" /\ known /\ op.task \notin executed ->
                [i \in DOMAIN p |-> IF p[i].id = op.task THEN [p[i] EXCEPT !.writes = op.writes]
                                    ELSE p[i]]
          [] OTHER -> <<>>

\* applyPlanAmendment: one refused operation refuses the amendment, and so does
\* a cycle in the end.
ApplyAmendment(p, ops, executed) ==
    LET after[i \in 0..Len(ops)] ==
          IF i = 0 THEN p
          ELSE IF after[i - 1] = <<>> THEN <<>> ELSE Operation(after[i - 1], ops[i], executed)
        q == after[Len(ops)]
    IN  IF q = <<>> \/ FindCycle(q) THEN <<>> ELSE q

\* classifyAmendmentRisk: only tasks that are added or replace another are
\* looked at, by their own word or a write target on the list.
HighRiskAmendment(ops) ==
    \E i \in DOMAIN ops :
        /\ ops[i].op \in {"addTask", "replaceTask"}
        /\ \/ ops[i].by.risk = "high"
           \/ \E w \in ops[i].by.writes, h \in HighRisk : GlobMatch(h, w)

-----------------------------------------------------------------------------
(* The definitions these algorithms answer to. *)

\* In every non-empty set of tasks there is one that depends on none of them.
Acyclic(p) == \A S \in (SUBSET Nodes(p)) \ {{}} : \E t \in S : DepsOf(p, t) \cap S = {}

\* Whatever holds t and all its dependencies holds s.
Precedes(p, s, t) ==
    \A S \in SUBSET Nodes(p) : t \in S /\ (\A u \in S : DepsOf(p, u) \subseteq S) => s \in S

MayCollide(paths, ws, vs) ==
    \E a \in ws, b \in vs : \E q \in paths : GlobMatch(a, q) /\ GlobMatch(b, q)
=============================================================================
