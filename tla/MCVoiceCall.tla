----------------------------- MODULE MCVoiceCall -----------------------------
(***************************************************************************)
(* Instances of VoiceCall for TLC.                                         *)
(***************************************************************************)
EXTENDS VoiceCall, TLC

\* The API process serves any request in any order.
Requests == Permutations(Tasks)
==============================================================================
