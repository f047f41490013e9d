-------------------------- MODULE MCTaskExecution --------------------------
(* A task that may write two of three paths.                               *)
EXTENDS TaskExecution

MCPaths == {"src", "lib", "test"}
MCTargets == {"src", "lib"}
MCProtected == {"test"}
MCContents == {"base", "new", "gone"}

Rewrite(p, c) == [op |-> "write", path |-> p, to |-> c]
Removal(p) == [op |-> "delete", path |-> p]
PatchOf(p, b, c, u) == [op |-> "patch", path |-> p, base |-> b, unique |-> u, to |-> c]

\* Change sets: none, a patch of the base, a removal, one out of scope, a
\* patch over what an earlier attempt left, alone and with a new path, and one
\* over a removal.
MCAnswers ==
    {<<>>, <<PatchOf("src", "base", "new", TRUE)>>, <<Removal("src")>>,
     <<Rewrite("test", "new")>>,
     <<PatchOf("src", "new", "base", TRUE)>>,
     <<Removal("src"), PatchOf("src", "base", "new", TRUE)>>,
     <<PatchOf("src", "new", "base", TRUE), Rewrite("lib", "new")>>}
\* By hand "src" is changed, put back or removed, and "test" changed.
MCHandEdits == {<<"src", "new">>, <<"src", "base">>, <<"src", "gone">>, <<"test", "new">>}
MCTouchSets == {{}, {"src", "test"}}
=============================================================================
