---------------------------- MODULE MCTeamAccess ----------------------------
(***************************************************************************)
(* An instance of TeamAccess: two organizations, one of which may be       *)
(* seeded, two people, two invitations and two requests at a time.         *)
(***************************************************************************)
EXTENDS TeamAccess, TLC

Symmetry == Permutations(People) \cup Permutations(Invites) \cup Permutations(Clients)

=============================================================================
