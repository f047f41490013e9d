--------------------------- MODULE MCHarnessQueue ---------------------------
(* Two requests of one key: a run asks, and after it a second run asks for *)
(* the same thing again.                                                   *)
EXTENDS HarnessQueue, TLC

CONSTANTS c1, c2

MCCalls == {c1, c2}
MCRun == c1 :> "first" @@ c2 :> "second"
MCPayload == c1 :> "task" @@ c2 :> "task"
MCSeeded == {c2}
MCWindow == c1 :> 2 @@ c2 :> 1
MCWorth == [k \in Candidates |-> "valid"]
=============================================================================
