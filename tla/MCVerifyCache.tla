---------------------------- MODULE MCVerifyCache ----------------------------
(* Three packages, of which app depends on lib and doc is by itself, and two  *)
(* specs that share an id.  `unit' names app with the dots; `raw' has no      *)
(* filter and builds, and two criteria have it.                               *)
EXTENDS VerifyCache, TLC

MCPkgs == {"app", "lib", "doc"}
MCDeps == "app" :> {"lib"} @@ "lib" :> {} @@ "doc" :> {}
MCSpecs == <<"s", "t">>
MCAcceptance == "s" :> <<"s1", "s2", "s3">> @@ "t" :> <<"t1", "t2">>
MCKind == "s1" :> "command" @@ "s2" :> "command" @@ "s3" :> "file" @@ "t1" :> "command" @@ "t2" :> "agent"
MCCommand == "s1" :> "raw" @@ "s2" :> "raw" @@ "s3" :> "doc" @@ "t1" :> "unit" @@ "t2" :> "none"
MCId == "s1" :> "A" @@ "s2" :> "E" @@ "s3" :> "B" @@ "t1" :> "C" @@ "t2" :> "B"
MCProp == "s1" :> "p" @@ "s2" :> "p" @@ "s3" :> "q" @@ "t1" :> "x" @@ "t2" :> "y"
MCMust == {"q", "x"}
MCFilter == "unit" :> {"app"} @@ "raw" :> {}
MCWithDeps == "unit" :> TRUE @@ "raw" :> FALSE
MCReads == "unit" :> {"app", "lib"} @@ "raw" :> {"app", "lib"}
MCBuilds == {"raw"}
MCSlow == {"raw"}
MCDenied == "open" :> {} @@ "strict" :> {"unit"}
\* At first doc is bad; an apply run mends it, and leaves app behind.
MCFirst == {[p \in MCPkgs |-> IF p = "doc" THEN "bad" ELSE "good"]}
MCResults == {[p \in MCPkgs |-> IF p = "app" THEN "bad" ELSE "good"]}
\* Invocations are alike.
Symmetry == Permutations(Invokers)
=============================================================================
