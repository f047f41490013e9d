-------------------------- MODULE MCApplyOwnership --------------------------
(***************************************************************************)
(* Small instances of ApplyOwnership.                                      *)
(***************************************************************************)
EXTENDS ApplyOwnership, TLC

\* Every fresh apply executes a plan of its own.
OwnPlans == [r \in Coordinators |-> r]

Symmetry == Permutations(Coordinators) \cup Permutations(Cancellers)
            \cup Permutations(Recoverers)
=============================================================================
