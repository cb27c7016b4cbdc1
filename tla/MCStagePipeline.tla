--------------------------- MODULE MCStagePipeline ---------------------------
(***************************************************************************)
(* Instances of StagePipeline for TLC.                                     *)
(***************************************************************************)
EXTENDS StagePipeline, TLC

\* Jobs differ in nothing, nor do the requests served.
Alike == Permutations(Tasks) \cup Permutations(Jobs)
==============================================================================
