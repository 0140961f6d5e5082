------------------------------ MODULE MCAutosave ------------------------------
(***************************************************************************)
(* Autosave for TLC: two programs, two documents.                          *)
(***************************************************************************)
EXTENDS Autosave, TLC

CONSTANTS b1, b2

NoLines == {}

\* A journal written by a newer build: one line, for sequence number 1.
ForeignLine == {[seq |-> 1, body |-> b1]}

Symmetric == Permutations(Proc) \cup Permutations(Body)
===============================================================================
