SPECIFICATION ListingSpec
CONSTANTS
  Worker = {w1}
  u1 = u1
  u2 = u2
  s1 = s1
  s2 = s2
  p1 = p1
  p2 = p2
  p3 = p3
  User = {u1, u2}
  TeamId = {t1, t2, t3, t4}
  Slug = {s1, s2}
  Token = {}
  AskedRole = {}
  MaxTeams = 2
  MaxMembers = 2
  Faults = {"crash", "disk"}
  NoTeam = NoTeam
  NoInvite = NoInvite
  Absent = Absent
  Blank = Blank
  Torn = Torn
  NoReq = NoReq
  NoPost = NoPost
  Post <- ThreePosts
  OwnerOf <- TwoOwners
  SlugOf <- HotelNames
SYMMETRY TeamIdSymmetry
INVARIANT ListedHasTeamIfSaved
PROPERTY TeamIsStable
