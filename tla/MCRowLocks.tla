------------------------------ MODULE MCRowLocks ------------------------------
(* RowLocks for TLC: three connections.                                    *)
EXTENDS RowLocks, TLC

WorkerSymmetry == Permutations(Workers)
=============================================================================
