--------------------------- MODULE MCTeamRegistry ---------------------------
(* TeamRegistry on a small instance: the sizes of TeamId and Token bound    *)
(* how many teams are ever created and how many invitations ever sent.     *)
EXTENDS TeamRegistry, TLC

Symmetry ==
  Permutations(User) \cup Permutations(TeamId)
    \cup Permutations(Slug) \cup Permutations(Token)
=============================================================================
