--------------------------- MODULE WorkspaceLease ---------------------------
(***************************************************************************)
(* What the ownership boundary promises: a workspace has at most one       *)
(* owner, and a mark (the safety block) that outlives owners.  Only the    *)
(* owner may lift the mark; anybody may leave one.                         *)
(***************************************************************************)
CONSTANTS Procs, None

VARIABLES owner, blocked

Init == owner = None /\ blocked = FALSE

\* The workspace is taken when nobody has it.
Take(p) == owner = None /\ owner' = p /\ UNCHANGED blocked

\* It is given up, or its owner dies: what it left behind stays.
Leave == owner # None /\ owner' = None /\ UNCHANGED blocked

\* A mark is left by the owner before it works, or by a canceller.
Block == blocked' = TRUE /\ UNCHANGED owner

\* The owner, and nobody else, lifts it.
Unblock == owner # None /\ blocked' = FALSE /\ UNCHANGED owner

Next == (\E p \in Procs : Take(p)) \/ Leave \/ Block \/ Unblock

Spec == Init /\ [][Next]_<<owner, blocked>>
=============================================================================
