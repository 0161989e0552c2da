------------------------------ MODULE MCPreview ------------------------------
EXTENDS Preview, TLC

\* Two checks on step 1, in different files, and none on step 2.
MCChecks == <<[step |-> 1, path |-> "a"], [step |-> 1, path |-> "b"]>>

Symmetry == Permutations(Runs) \cup Permutations(Verifies)
=============================================================================
