------------------------- MODULE MCOperationRunner -------------------------
(***************************************************************************)
(* Small instances of OperationRunner for TLC.  The workers are            *)
(* interchangeable: no action tells them apart.                            *)
(***************************************************************************)
EXTENDS OperationRunner, TLC

Symmetry == Permutations(Workers)

=============================================================================
