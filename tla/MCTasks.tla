------------------------------ MODULE MCTasks ------------------------------
(***************************************************************************)
(* Instances of Tasks for TLC.                                             *)
(***************************************************************************)
EXTENDS Tasks, TLC

\* Workers are interchangeable, and so are submission ids and request slots.
Symmetry == Permutations(Workers) \cup Permutations(Subs) \cup Permutations(Http)
=============================================================================
