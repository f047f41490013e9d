---------------------------- MODULE MCRunRecords ----------------------------
(* The owner of a run and two follow-ups that another process resolves.    *)
EXTENDS RunRecords, TLC

=============================================================================
