SPECIFICATION TeamSpec
CONSTANTS
  User = {u1, u2, u3}
  TeamId = {t1, t2}
  Slug = {s1, s2}
  Token = {k1, k2}
  AskedRole = {"owner", "admin", "member", "unlisted"}
  MaxTeams = 2
  MaxMembers = 2
  NoTeam = NoTeam
  NoInvite = NoInvite
SYMMETRY Symmetry
INVARIANT QuotaStaysExact
PROPERTY OwnerSeatIsTheOwners
PROPERTY NoSeatFromNothing
CHECK_DEADLOCK FALSE
