SPECIFICATION MCSpec
CONSTANTS
  Worker = {w1, w2}
  User = {u1, u2}
  TeamId = {t1, t2}
  Slug = {s1, s2}
  Token = {k1}
  AskedRole = {"admin"}
  MaxTeams = 2
  MaxMembers = 2
  Faults = {"crash", "disk"}
  NoTeam = NoTeam
  NoInvite = NoInvite
  Absent = Absent
  Blank = Blank
  Torn = Torn
  NoReq = NoReq
SYMMETRY Symmetry
CHECK_DEADLOCK FALSE
INVARIANT CopiesConsistent
INVARIANT AnsweredSurvivesAlone
PROPERTY AtomicAlone
