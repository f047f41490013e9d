---------------------------- MODULE MCRunDriver ----------------------------
(* A plan for the model checking of RunDriver: a build task, a task that   *)
(* depends on it, and a verification of both; its amendments.              *)
EXTENDS RunDriver, TLC

Writes(d) == {<<d, "**">>}
A == PlanTask("a", "modify", {}, {"P"}, {}, Writes("a"))
B == PlanTask("b", "modify", {"a"}, {}, {}, Writes("b"))
C == PlanTask("c", "modify", {"a"}, {}, {}, Writes("b"))
V == PlanTask("v", "verify", {"a", "b"}, {}, {"P"}, {})

MCTasks == {"a", "b", "c", "v"}

\* One plan that validates, and plans that must not come to a run: unordered
\* writers, a cycle, a must-property nobody addresses, an unknown dependency.
MCFirstPlans == {
    <<A, B, V>>,
    <<A, B, C, V>>,
    <<[A EXCEPT !.deps = {"b"}], B, V>>,
    <<[A EXCEPT !.satisfies = {}], B>>,
    <<A, V>>}

MCDirts == {{}, {<<"notes">>}, {<<"a", "x">>}, {<<"b", "x">>}, {<<"c", "x">>}}
MCAllowedDirt == {<<"a", "*">>, <<"notes">>}

RemoveTask(t) == [op |-> "removeTask", task |-> t]
ReplaceTask(t, by) == [op |-> "replaceTask", task |-> t, by |-> by]
AddTask(by) == [op |-> "addTask", task |-> by.id, by |-> by]
DependOn(t, d) == [op |-> "addDependency", task |-> t, on |-> d]
Retarget(t, ws) == [op |-> "changeTarget", task |-> t, writes |-> ws]

\* Some of these are refused: by a cycle, over what was executed, by validation
\* where two writers are unordered, or as too risky.
MCAmendments == {
    <<ReplaceTask("b", C)>>,
    <<RemoveTask("a")>>,
    <<AddTask([C EXCEPT !.writes = Writes("c")]), DependOn("b", "c")>>,
    <<DependOn("a", "b")>>,
    <<Retarget("b", Writes("a"))>>,
    <<ReplaceTask("b", [B EXCEPT !.writes = {<<"lock">>}])>>,
    <<AddTask(C)>>}

MCHighRisk == {<<"lock">>}
=============================================================================
