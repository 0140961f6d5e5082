---------------------------- MODULE MCSessionTabs ----------------------------
(***************************************************************************)
(* Small instances of SessionTabs for TLC.  The files are interchangeable, *)
(* and no property names one.                                              *)
(***************************************************************************)
EXTENDS SessionTabs, TLC

Symmetry == Permutations(Path)
===============================================================================
