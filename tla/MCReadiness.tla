---- MODULE MCReadiness ----
EXTENDS Readiness, TLC

Symmetry == Permutations(Run) \union Permutations(Commit)
====
