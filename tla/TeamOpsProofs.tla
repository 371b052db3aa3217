--------------------------- MODULE TeamOpsProofs ---------------------------
(***************************************************************************)
(* Every operation of the team block preserves the consistency of the      *)
(* registry it is applied to.  These lemmas speak of one registry value    *)
(* and one request; TeamRegistryProofs and TeamStoreProofs lift them to    *)
(* the behaviours of the two specifications.                               *)
(***************************************************************************)
EXTENDS TeamOps, FiniteSetTheorems, SequenceTheorems, TLAPS

(* What every registry in the system satisfies: its type, finitely many    *)
(* seats in each team (so that counting them means something), unique      *)
(* slugs and exact quotas.                                                 *)
Sound(r) ==
  /\ r \in Registry
  /\ \A t \in TeamId : IsFiniteSet(SeatSet(r.members[t]))
  /\ Consistent(r)

----------------------------------------------------------------------------
(* A seat is a user with the number of one of his membership entries.      *)
LEMMA SeatElement ==
  ASSUME NEW seats \in Seats, NEW u \in User, NEW i
  PROVE  <<u, i>> \in SeatSet(seats) <=> i \in 1 .. Len(seats[u])
BY DEF SeatSet

LEMMA SeatShape ==
  ASSUME NEW seats \in Seats, NEW s \in SeatSet(seats)
  PROVE  \E u \in User, i \in Nat : s = <<u, i>> /\ i \in 1 .. Len(seats[u])
BY DEF SeatSet, Seats

(* The founder of a team holds its only seat.                              *)
LEMMA FounderSeat ==
  ASSUME NEW u \in User
  PROVE  LET seats == [NoSeats EXCEPT ![u] = <<"owner">>]
         IN  /\ seats \in Seats
             /\ SeatSet(seats) = {<<u, 1>>}
<1> DEFINE seats == [NoSeats EXCEPT ![u] = <<"owner">>]
<1>1. \A v \in User : seats[v] = IF v = u THEN <<"owner">> ELSE << >>
  BY DEF NoSeats
<1>2. seats \in Seats
  <2>1. <<"owner">> \in Seq(StoredRole) /\ << >> \in Seq(StoredRole)
    BY DEF StoredRole, TeamRole
  <2>2. NoSeats \in Seats
    BY <2>1 DEF NoSeats, Seats
  <2>3. QED BY <2>1, <2>2 DEF Seats
<1>3. \A v \in User : Len(seats[v]) = IF v = u THEN 1 ELSE 0
  <2> HIDE DEF seats
  <2> TAKE v \in User
  <2>1. CASE v = u
    BY <1>1, <2>1
  <2>2. CASE v # u
    BY <1>1, <2>2
  <2>3. QED BY <2>1, <2>2
<1> HIDE DEF seats
<1>4. ASSUME NEW s \in SeatSet(seats)
      PROVE  s = <<u, 1>>
  <2>1. PICK v \in User, i \in Nat : s = <<v, i>> /\ i \in 1 .. Len(seats[v])
    BY <1>2, SeatShape
  <2>2. v = u /\ i = 1
    BY <1>3, <2>1
  <2>3. QED BY <2>1, <2>2
<1>5. <<u, 1>> \in SeatSet(seats)
  <2>1. 1 \in 1 .. Len(seats[u])
    BY <1>3
  <2>2. QED BY <1>2, <2>1, SeatElement
<1>6. QED BY <1>2, <1>4, <1>5 DEF seats

(* An acceptance adds one seat to those of the team.                       *)
LEMMA JoinerSeat ==
  ASSUME NEW seats \in Seats, NEW u \in User, NEW role \in StoredRole
  PROVE  LET new == [seats EXCEPT ![u] = Append(@, role)]
         IN  /\ new \in Seats
             /\ SeatSet(new) = SeatSet(seats) \cup {<<u, Len(seats[u]) + 1>>}
<1> DEFINE new == [seats EXCEPT ![u] = Append(@, role)]
<1>1. new \in Seats
  BY DEF Seats
<1>2. \A v \in User : Len(new[v]) = IF v = u THEN Len(seats[v]) + 1 ELSE Len(seats[v])
  BY DEF Seats
<1>3. \A v \in User : Len(seats[v]) \in Nat
  BY DEF Seats
<1>4. ASSUME NEW s \in SeatSet(new)
      PROVE  s \in SeatSet(seats) \cup {<<u, Len(seats[u]) + 1>>}
  <2>1. PICK v \in User, i \in Nat : s = <<v, i>> /\ i \in 1 .. Len(new[v])
    BY <1>1, SeatShape
  <2>2. CASE i \in 1 .. Len(seats[v])
    BY <2>1, <2>2, SeatElement
  <2>3. CASE v = u /\ i = Len(seats[u]) + 1
    BY <2>1, <2>3
  <2>4. QED BY <1>2, <1>3, <2>1, <2>2, <2>3
<1>5. ASSUME NEW s \in SeatSet(seats)
      PROVE  s \in SeatSet(new)
  <2>1. PICK v \in User, i \in Nat : s = <<v, i>> /\ i \in 1 .. Len(seats[v])
    BY SeatShape
  <2>2. i \in 1 .. Len(new[v])
    BY <1>2, <1>3, <2>1
  <2>3. QED BY <1>1, <2>1, <2>2, SeatElement
<1>6. <<u, Len(seats[u]) + 1>> \in SeatSet(new)
  <2>1. Len(seats[u]) + 1 \in 1 .. Len(new[u])
    BY <1>2, <1>3
  <2>2. QED BY <1>1, <2>1, SeatElement
<1>7. QED BY <1>1, <1>4, <1>5, <1>6

(* Taking a member's entries away leaves a part of the seats.              *)
LEMMA LeaverSeat ==
  ASSUME NEW seats \in Seats, NEW u \in User
  PROVE  LET new == [seats EXCEPT ![u] = << >>]
         IN  /\ new \in Seats
             /\ SeatSet(new) \in SUBSET SeatSet(seats)
<1> DEFINE new == [seats EXCEPT ![u] = << >>]
<1>1. new \in Seats
  BY DEF Seats
<1>2. \A v \in User : new[v] = IF v = u THEN << >> ELSE seats[v]
  BY DEF Seats
<1>3. ASSUME NEW s \in SeatSet(new)
      PROVE  s \in SeatSet(seats)
  <2>1. PICK v \in User, i \in Nat : s = <<v, i>> /\ i \in 1 .. Len(new[v])
    BY <1>1, SeatShape
  <2>2. v # u /\ i \in 1 .. Len(seats[v])
    BY <1>2, <2>1
  <2>3. QED BY <2>1, <2>2, SeatElement
<1>4. QED BY <1>1, <1>3

(* A changed role changes no seat.                                         *)
LEMMA PromotedSeat ==
  ASSUME NEW seats \in Seats, NEW u \in User, NEW role \in StoredRole,
         seats[u] # << >>
  PROVE  LET new == [seats EXCEPT ![u][1] = role]
         IN  /\ new \in Seats
             /\ SeatSet(new) = SeatSet(seats)
<1> DEFINE list == [seats[u] EXCEPT ![1] = role]
           new == [seats EXCEPT ![u] = list]
<1>1. list \in Seq(StoredRole) /\ Len(list) = Len(seats[u])
  <2>1. seats[u] \in Seq(StoredRole)
    BY DEF Seats
  <2>2. 1 \in 1 .. Len(seats[u])
    BY <2>1
  <2>3. QED BY <2>1, <2>2, ExceptSeq
<1>2. new \in Seats
  BY <1>1 DEF Seats
<1>3. \A v \in User : Len(new[v]) = Len(seats[v])
  BY <1>1 DEF Seats
<1>4. SeatSet(new) = SeatSet(seats)
  BY <1>3 DEF SeatSet
<1>5. QED BY <1>2, <1>4

----------------------------------------------------------------------------
(* Putting a team and its seats in a registry: enough for every operation  *)
(* that touches one team.  A live team brings an exact quota and a slug    *)
(* that no other live team has.                                            *)
LEMMA OneTeamChanges ==
  ASSUME NEW r \in Registry, Sound(r), NEW t \in TeamId,
         NEW team \in Team \cup {NoTeam}, NEW seats \in Seats,
         IsFiniteSet(SeatSet(seats)),
         team # NoTeam => /\ team.used = MemberCount(seats)
                          /\ \A x \in TeamId \ {t} :
                               Exists(r, x) => r.teams[x].slug # team.slug
  PROVE  Sound([r EXCEPT !.teams[t] = team, !.members[t] = seats])
<1> DEFINE new == [r EXCEPT !.teams[t] = team, !.members[t] = seats]
<1>1. new \in Registry
  BY DEF Registry
<1>2. \A x \in TeamId :
         /\ new.teams[x] = IF x = t THEN team ELSE r.teams[x]
         /\ new.members[x] = IF x = t THEN seats ELSE r.members[x]
  BY DEF Registry
<1> HIDE DEF new
<1>3. \A x \in TeamId : IsFiniteSet(SeatSet(new.members[x]))
  BY <1>2 DEF Sound
<1>4. SlugsUnique(new)
  BY <1>2 DEF Sound, Consistent, SlugsUnique, Exists
<1>5. QuotaExact(new)
  BY <1>2 DEF Sound, Consistent, QuotaExact, Exists
<1>6. QED BY <1>1, <1>3, <1>4, <1>5 DEF Sound, Consistent, new

(* Invitations have no part in consistency.                                *)
LEMMA OneInviteChanges ==
  ASSUME NEW r \in Registry, Sound(r), NEW k \in Token,
         NEW invite \in Invite \cup {NoInvite}
  PROVE  Sound([r EXCEPT !.invites[k] = invite])
<1> DEFINE new == [r EXCEPT !.invites[k] = invite]
<1>1. new \in Registry /\ new.teams = r.teams /\ new.members = r.members
  BY DEF Registry
<1> HIDE DEF new
<1>2. Sound(new)
  BY <1>1 DEF Sound, Consistent, SlugsUnique, QuotaExact, Exists
<1>3. QED BY <1>2 DEF new

LEMMA EmptySound == Sound(EmptyRegistry)
<1>1. << >> \in Seq(StoredRole)
  OBVIOUS
<1>2. EmptyRegistry \in Registry
  BY <1>1 DEF EmptyRegistry, Registry, NoSeats, Seats
<1>3. SeatSet(NoSeats) = {}
  <2>1. NoSeats \in Seats /\ \A u \in User : Len(NoSeats[u]) = 0
    BY <1>1 DEF NoSeats, Seats
  <2>2. ASSUME NEW s \in SeatSet(NoSeats) PROVE FALSE
    BY <2>1, SeatShape
  <2>3. QED BY <2>2
<1>4. \A t \in TeamId : IsFiniteSet(SeatSet(EmptyRegistry.members[t]))
  BY <1>3, FS_EmptySet DEF EmptyRegistry
<1>5. Consistent(EmptyRegistry)
  BY DEF Consistent, SlugsUnique, QuotaExact, Exists, EmptyRegistry
<1>6. QED BY <1>2, <1>4, <1>5 DEF Sound

(* Which teams exist, and whose they are.                                  *)
SameTeams(r, new) ==
  \A x \in TeamId : /\ Exists(new, x) <=> Exists(r, x)
                    /\ Exists(r, x) => new.teams[x].owner = r.teams[x].owner

(* A team that exists is a record with an owner, a slug and a quota.       *)
LEMMA LiveTeam ==
  ASSUME NEW r \in Registry, NEW t \in TeamId, Exists(r, t)
  PROVE  r.teams[t] \in Team
BY DEF Exists, Registry

----------------------------------------------------------------------------
(* create_team: its slug is new and its quota is the founder's seat.       *)
LEMMA CreateSound ==
  ASSUME NEW r \in Registry, Sound(r), NEW q \in Request,
         q.op = "create_team", MayCreate(r, q)
  PROVE  Sound(Create(r, q))
<1> DEFINE team == [owner |-> q.user, slug |-> q.slug, used |-> 1]
           seats == [NoSeats EXCEPT ![q.user] = <<"owner">>]
<1>1. q.user \in User /\ q.team \in TeamId /\ q.slug \in Slug
  BY DEF Request
<1>2. team \in Team
  BY <1>1 DEF Team
<1>3. /\ seats \in Seats
      /\ IsFiniteSet(SeatSet(seats))
      /\ MemberCount(seats) = 1
  BY <1>1, FounderSeat, FS_Singleton DEF MemberCount
<1>4. \A x \in TeamId \ {q.team} : Exists(r, x) => r.teams[x].slug # team.slug
  BY DEF MayCreate
<1>5. team.used = 1
  OBVIOUS
<1> HIDE DEF team, seats
<1>6. Sound([r EXCEPT !.teams[q.team] = team, !.members[q.team] = seats])
  BY <1>1, <1>2, <1>3, <1>4, <1>5, OneTeamChanges
<1>7. QED BY <1>6 DEF Create, team, seats

(* delete_team: no team, no seats.                                         *)
LEMMA DeleteSound ==
  ASSUME NEW r \in Registry, Sound(r), NEW q \in Request,
         q.op = "delete_team"
  PROVE  Sound(Delete(r, q))
<1>1. q.team \in TeamId
  BY DEF Request
<1>2. NoSeats \in Seats /\ IsFiniteSet(SeatSet(NoSeats))
  BY <1>1, EmptySound DEF Sound, EmptyRegistry, Registry
<1>3. QED BY <1>1, <1>2, OneTeamChanges DEF Delete

(* invite_member touches invitations only.                                 *)
LEMMA InviteSound ==
  ASSUME NEW r \in Registry, Sound(r), NEW q \in Request,
         q.op = "invite_member"
  PROVE  Sound(InviteTo(r, q))
<1>1. q.token \in Token /\ [team |-> q.team, role |-> q.role] \in Invite
  BY TeamRolesAsked DEF Request, Invite
<1>2. QED BY <1>1, OneInviteChanges DEF InviteTo

(* accept_invitation: the quota follows the new seat, if there is a team.  *)
LEMMA AcceptSound ==
  ASSUME NEW r \in Registry, Sound(r), NEW q \in Request,
         q.op = "accept_invitation", r.invites[q.token] # NoInvite
  PROVE  Sound(Accept(r, q)) /\ SameTeams(r, Accept(r, q))
<1> DEFINE invite == r.invites[q.token]
           t == invite.team
           seats == [r.members[t] EXCEPT ![q.user] = Append(@, invite.role)]
           team == IF Exists(r, t)
                   THEN [r.teams[t] EXCEPT !.used = MemberCount(seats)]
                   ELSE NoTeam
           joined == [r EXCEPT !.teams[t] = team, !.members[t] = seats]
<1>1. q.user \in User /\ q.token \in Token
  BY DEF Request
<1>2. invite \in Invite /\ t \in TeamId /\ invite.role \in StoredRole
  BY <1>1 DEF Registry, Invite
<1>3. r.members[t] \in Seats /\ IsFiniteSet(SeatSet(r.members[t]))
  BY <1>2 DEF Registry, Sound
<1>4. seats \in Seats /\ IsFiniteSet(SeatSet(seats))
  <2> DEFINE old == r.members[t]
             role == invite.role
  <2>1. old \in Seats /\ IsFiniteSet(SeatSet(old)) /\ role \in StoredRole
    BY <1>2, <1>3
  <2> HIDE DEF old, role
  <2>2. LET new == [old EXCEPT ![q.user] = Append(@, role)]
        IN  /\ new \in Seats
            /\ SeatSet(new) = SeatSet(old) \cup {<<q.user, Len(old[q.user]) + 1>>}
    BY <1>1, <2>1, JoinerSeat
  <2>3. IsFiniteSet(SeatSet(old) \cup {<<q.user, Len(old[q.user]) + 1>>})
    BY <2>1, FS_AddElement
  <2>4. QED BY <2>2, <2>3 DEF old, role
<1>5. MemberCount(seats) \in Nat
  BY <1>4, FS_CardinalityType DEF MemberCount
<1>6. ASSUME Exists(r, t)
      PROVE  team \in Team /\ team.used = MemberCount(seats)
                           /\ team.slug = r.teams[t].slug
                           /\ team.owner = r.teams[t].owner
  <2>1. r.teams[t] \in Team
    BY <1>2, <1>6, LiveTeam
  <2>2. team = [r.teams[t] EXCEPT !.used = MemberCount(seats)]
    BY <1>6
  <2> HIDE DEF seats, team
  <2>3. QED BY <1>5, <2>1, <2>2 DEF Team
<1>7. ~Exists(r, t) => team = NoTeam
  OBVIOUS
<1>8. \A x \in TeamId \ {t} :
         Exists(r, t) /\ Exists(r, x) => r.teams[x].slug # r.teams[t].slug
  BY <1>2 DEF Sound, Consistent, SlugsUnique
<1> HIDE DEF team, seats
<1>9. Sound(joined)
  BY <1>2, <1>4, <1>6, <1>7, <1>8, OneTeamChanges
<1>10. joined \in Registry
  BY <1>9 DEF Sound
<1> HIDE DEF t
<1>11. Sound([joined EXCEPT !.invites[q.token] = NoInvite])
  <2> HIDE DEF joined
  <2>1. QED BY <1>1, <1>9, <1>10, OneInviteChanges
<1>12. Accept(r, q) = [joined EXCEPT !.invites[q.token] = NoInvite]
  BY DEF Accept, t, seats, team, Registry
<1>13. SameTeams(r, Accept(r, q))
  <2>1. Accept(r, q).teams = [r.teams EXCEPT ![t] = team]
    BY <1>12 DEF joined, Registry
  <2>2. Exists(r, t) => team # NoTeam
    BY <1>6, TeamSentinels
  <2>3. QED BY <1>2, <1>6, <1>7, <2>1, <2>2 DEF SameTeams, Exists, Registry
<1>14. QED BY <1>11, <1>12, <1>13

(* remove_member and leave_team: the quota follows the seats that go.      *)
LEMMA WithoutSound ==
  ASSUME NEW r \in Registry, Sound(r), NEW t \in TeamId, NEW u \in User,
         Exists(r, t)
  PROVE  Sound(WithoutMember(r, t, u)) /\ SameTeams(r, WithoutMember(r, t, u))
<1> DEFINE seats == [r.members[t] EXCEPT ![u] = << >>]
           team == [r.teams[t] EXCEPT !.used = MemberCount(seats)]
<1>1. r.members[t] \in Seats /\ IsFiniteSet(SeatSet(r.members[t]))
  BY DEF Registry, Sound
<1>2. seats \in Seats /\ IsFiniteSet(SeatSet(seats))
  BY <1>1, LeaverSeat, FS_Subset
<1>3. MemberCount(seats) \in Nat
  BY <1>2, FS_CardinalityType DEF MemberCount
<1>4. /\ team \in Team
      /\ team.used = MemberCount(seats)
      /\ team.slug = r.teams[t].slug
      /\ team.owner = r.teams[t].owner
  <2> HIDE DEF seats
  <2>1. QED BY <1>3, LiveTeam DEF Team
<1>5. \A x \in TeamId \ {t} : Exists(r, x) => r.teams[x].slug # r.teams[t].slug
  BY DEF Sound, Consistent, SlugsUnique
<1>6. WithoutMember(r, t, u) = [r EXCEPT !.teams[t] = team, !.members[t] = seats]
  BY DEF WithoutMember, Registry
<1> HIDE DEF team, seats
<1>7. Sound([r EXCEPT !.teams[t] = team, !.members[t] = seats])
  BY <1>2, <1>4, <1>5, OneTeamChanges
<1>8. SameTeams(r, WithoutMember(r, t, u))
  <2>1. WithoutMember(r, t, u).teams = [r.teams EXCEPT ![t] = team]
    BY <1>6 DEF Registry
  <2>2. team # NoTeam
    BY <1>4, TeamSentinels
  <2>3. QED BY <1>4, <2>1, <2>2 DEF SameTeams, Exists, Registry
<1>9. QED BY <1>6, <1>7, <1>8

(* set_role: a role changes, the seats and the quota do not.               *)
LEMMA SetRoleSound ==
  ASSUME NEW r \in Registry, Sound(r), NEW q \in Request,
         q.op = "set_role", MaySetRole(r, q)
  PROVE  Sound(SetRole(r, q))
<1> DEFINE t == q.team
           seats == [r.members[t] EXCEPT ![q.target][1] = q.role]
           team == r.teams[t]
<1>1. t \in TeamId /\ q.target \in User /\ q.role \in StoredRole
  BY TeamRolesAsked DEF Request
<1>2. Exists(r, t) /\ r.members[t][q.target] # << >>
  BY DEF MaySetRole, Member
<1>3. r.members[t] \in Seats /\ IsFiniteSet(SeatSet(r.members[t]))
  BY <1>1 DEF Registry, Sound
<1>4. seats \in Seats /\ SeatSet(seats) = SeatSet(r.members[t])
  BY <1>1, <1>2, <1>3, PromotedSeat
<1>5. team \in Team /\ team.used = MemberCount(seats)
  BY <1>1, <1>2, <1>4, LiveTeam DEF Sound, Consistent, QuotaExact, MemberCount
<1>6. \A x \in TeamId \ {t} : Exists(r, x) => r.teams[x].slug # team.slug
  BY <1>1, <1>2 DEF Sound, Consistent, SlugsUnique
<1>7. SetRole(r, q) = [r EXCEPT !.teams[t] = team, !.members[t] = seats]
  BY <1>1 DEF SetRole, Registry
<1> HIDE DEF team, seats, t
<1>8. Sound([r EXCEPT !.teams[t] = team, !.members[t] = seats])
  BY <1>1, <1>3, <1>4, <1>5, <1>6, OneTeamChanges
<1>9. QED BY <1>7, <1>8

(* Any accepted request.                                                   *)
LEMMA ResultSound ==
  ASSUME NEW r \in Registry, Sound(r), NEW q \in Request, NEW lapsed,
         Accepts(r, q, lapsed)
  PROVE  Sound(Result(r, q))
<1>1. CASE q.op = "create_team" /\ MayCreate(r, q)
  BY <1>1, CreateSound DEF Result
<1>2. CASE q.op = "delete_team" /\ MayDelete(r, q)
  BY <1>2, DeleteSound DEF Result
<1>3. CASE q.op = "update_team" /\ MayUpdate(r, q)
  BY <1>3 DEF Result, Update
<1>4. CASE q.op = "leave_team" /\ MayLeave(r, q)
  <2>1. q.team \in TeamId /\ q.user \in User
    BY <1>4 DEF Request
  <2>2. QED BY <1>4, <2>1, WithoutSound DEF Result, MayLeave, Leave
<1>5. CASE q.op = "invite_member" /\ MayInvite(r, q)
  BY <1>5, InviteSound DEF Result
<1>6. CASE q.op = "accept_invitation" /\ MayAccept(r, q, lapsed)
  BY <1>6, AcceptSound DEF Result, MayAccept
<1>7. CASE q.op = "remove_member" /\ MayRemove(r, q)
  <2>1. q.team \in TeamId /\ q.target \in User
    BY <1>7 DEF Request
  <2>2. QED BY <1>7, <2>1, WithoutSound DEF Result, MayRemove, Remove
<1>8. CASE q.op = "set_role" /\ MaySetRole(r, q)
  BY <1>8, SetRoleSound DEF Result
<1>9. QED BY <1>1, <1>2, <1>3, <1>4, <1>5, <1>6, <1>7, <1>8 DEF Accepts

(* The ids a request draws are team ids and tokens.                        *)
LEMMA DrawsAreIds ==
  ASSUME NEW q \in Request
  PROVE  Draws(q) \subseteq TeamId \cup Token
BY DEF Draws, Request

(* A request that makes a live team disappear is its owner's delete_team   *)
(* of that team.                                                           *)
LEMMA TeamsEndStep ==
  ASSUME NEW r \in Registry, Sound(r), NEW q \in Request, NEW expired,
         Accepts(r, q, expired), NEW t \in TeamId,
         Exists(r, t), ~Exists(Result(r, q), t)
  PROVE  q.op = "delete_team" /\ q.team = t /\ q.user = r.teams[t].owner
<1>1. CASE q.op = "create_team" /\ MayCreate(r, q)
  <2>1. [owner |-> q.user, slug |-> q.slug, used |-> 1] \in Team
    BY <1>1 DEF Request, Team
  <2>2. QED BY <1>1, <2>1, TeamSentinels DEF Result, Create, Exists, Registry
<1>2. CASE q.op = "delete_team" /\ MayDelete(r, q)
  BY <1>2 DEF Result, Delete, MayDelete, Exists, Registry
<1>3. CASE q.op = "update_team"
  BY <1>3 DEF Result, Update
<1>4. CASE q.op = "leave_team" /\ MayLeave(r, q)
  <2>1. q.team \in TeamId /\ q.user \in User
    BY <1>4 DEF Request
  <2>2. QED BY <1>4, <2>1, WithoutSound DEF SameTeams, Result, Leave, MayLeave
<1>5. CASE q.op = "invite_member"
  BY <1>5 DEF Result, InviteTo, Exists, Registry
<1>6. CASE q.op = "accept_invitation" /\ MayAccept(r, q, expired)
  BY <1>6, AcceptSound DEF SameTeams, Result, MayAccept
<1>7. CASE q.op = "remove_member" /\ MayRemove(r, q)
  <2>1. q.team \in TeamId /\ q.target \in User
    BY <1>7 DEF Request
  <2>2. QED BY <1>7, <2>1, WithoutSound DEF SameTeams, Result, Remove, MayRemove
<1>8. CASE q.op = "set_role"
  BY <1>8 DEF Result, SetRole, Exists, Registry
<1>9. QED BY <1>1, <1>2, <1>3, <1>4, <1>5, <1>6, <1>7, <1>8 DEF Accepts
============================================================================
