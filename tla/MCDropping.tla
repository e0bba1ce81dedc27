------------------------------ MODULE MCDropping ------------------------------
EXTENDS Dropping, TLC

\* Workers are alike.
Symmetry == Permutations(Worker)
=============================================================================
