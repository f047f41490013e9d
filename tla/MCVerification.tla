--------------------------- MODULE MCVerification ---------------------------
(* A chain of runs over two properties that commands and a file decide,    *)
(* and one run whose properties wait for agents, humans and approvals.     *)
EXTENDS Verification, TLC

MCTrees == {"old", "new", "bad"}

\* The test does not parse on the bad tree and passes anywhere beside a dirty
\* path that its command names.
ChainOrder == <<"test", "doc", "accept">>
ChainPropertyOf == "test" :> "P1" @@ "doc" :> "P2" @@ "accept" :> "P2"
ChainKind == "test" :> "command" @@ "doc" :> "file" @@ "accept" :> "human"
ChainMust == {"P1"}
ChainDiscriminating == {"test", "doc"}
ChainPolicy == [c \in {"test", "doc", "accept"} |-> "allow"]
ChainPasses == "test" :> {"new"} @@ "doc" :> {"new", "bad"} @@ "accept" :> {}
ChainBroken == "test" :> {"bad"} @@ "doc" :> {} @@ "accept" :> {}
ChainLifted == {"test"}

CourtOrder == <<"gated", "banned", "review", "accept">>
CourtPropertyOf == "gated" :> "P1" @@ "banned" :> "P2" @@ "review" :> "P3" @@ "accept" :> "P3"
CourtKind == "gated" :> "command" @@ "banned" :> "command"
             @@ "review" :> "agent" @@ "accept" :> "human"
CourtMust == {"P1", "P2", "P3"}
CourtDiscriminating == {"gated"}
CourtPolicy == "gated" :> "approval" @@ "banned" :> "deny"
               @@ "review" :> "allow" @@ "accept" :> "allow"
CourtPasses == "gated" :> {"new"} @@ "banned" :> {} @@ "review" :> {} @@ "accept" :> {}
CourtBroken == "gated" :> {"bad"} @@ "banned" :> {} @@ "review" :> {} @@ "accept" :> {}
=============================================================================
