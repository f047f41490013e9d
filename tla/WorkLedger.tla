----------------------------- MODULE WorkLedger -----------------------------
(***************************************************************************)
(* What the event log of a run promises about work, whatever crashes,      *)
(* resumes, retries and amendments happen: a task is entered as done only  *)
(* out of a recorded execution, and what is done is never opened again.    *)
(***************************************************************************)
CONSTANT Tasks

VARIABLE ledger   \* "open", "running", "closed" or "done" for each task

Init == ledger = [t \in Tasks |-> "open"]

Move(t, from, to) == ledger[t] \in from /\ ledger' = [ledger EXCEPT ![t] = to]

\* Execution starts, is opened again for another attempt, or is done.
Start(t) == Move(t, {"open"}, "running")
Again(t) == Move(t, {"running", "closed"}, "open")
Finish(t) == Move(t, {"running"}, "done")

\* A task is given up, executed or not.
Close(t) == Move(t, {"open", "running"}, "closed")

\* The plan changes: tasks that are not done are dropped or opened.
Amend ==
    /\ ledger' \in [Tasks -> {"open", "running", "closed", "done"}]
    /\ \A t \in Tasks : ledger'[t] = ledger[t]
                        \/ (ledger[t] # "done" /\ ledger'[t] \in {"open", "closed"})

Next == (\E t \in Tasks : Start(t) \/ Again(t) \/ Finish(t) \/ Close(t)) \/ Amend

Spec == Init /\ [][Next]_ledger
=============================================================================
