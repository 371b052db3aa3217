-------------------------- MODULE MCPropertyListing --------------------------
(* PropertyListing on a small instance: the posts, who posts them and what  *)
(* the hotels are called.  Two posts may name the same hotel.               *)
EXTENDS PropertyListing, TLC

CONSTANTS u1, u2, s1, s2, p1, p2, p3

ThreePosts == {p1, p2, p3}
TwoOwners == p1 :> u1 @@ p2 :> u1 @@ p3 :> u2
HotelNames == p1 :> s1 @@ p2 :> s2 @@ p3 :> s1

VARIABLE diskFailed  \* whether a save was ever lost to an OSError

ListingInit == PropertyInit /\ diskFailed = FALSE
ListingNext ==
  /\ PropertyNext
  /\ diskFailed' = (diskFailed \/ \E w \in Worker : pc[w] = "writing" /\ pc'[w] = "saved")
ListingSpec == ListingInit /\ [][ListingNext]_<<propertyVars, diskFailed>>

(* As long as the disk is intact, with a crash at any step of the handler, *)
(* a listed row has a team its owner had room for.                         *)
ListedHasTeamIfSaved == PropertyTypeOK /\ (diskFailed \/ ListedHasTeam)

TeamIdSymmetry == Permutations(TeamId)
=============================================================================
