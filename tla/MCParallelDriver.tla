-------------------------- MODULE MCParallelDriver --------------------------
(* Plans for the model checking of ParallelDriver: two builders and a task *)
(* that depends on both of them; two plans the planner must repair. *)
EXTENDS ParallelDriver, TLC

Task(id, deps, writes) == PlanTask(id, "modify", deps, {"P"}, {}, writes)
All(d) == <<d, "**">>

\* Disjoint builders, and a task that depends on both and goes over what one of them wrote.
Fan == <<Task("a", {}, {All("src")}), Task("b", {}, {All("lib")}),
         Task("c", {"a", "b"}, {All("src")})>>

\* "src/**" and "src/*" share files, but the overlap test does not see it.
Unseen == <<Task("a", {}, {All("src")}), Task("b", {}, {<<"src", "*">>})>>

Unordered == <<Task("a", {}, {All("src")}), Task("b", {}, {<<"src", "x">>})>>
Cyclic == <<Task("a", {"b"}, {All("src")}), Task("b", {"a"}, {All("lib")})>>

MCTasks == {"a", "b", "c"}
MCCandidates == {Fan, Unseen, Unordered, Cyclic}
MCPaths == {<<"src", "x">>, <<"lib", "x">>}
=============================================================================
