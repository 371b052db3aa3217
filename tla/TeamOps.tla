------------------------------ MODULE TeamOps ------------------------------
(***************************************************************************)
(* The team block's operations as operators on one registry value: the     *)
(* three dictionaries (teams, memberships, invitations) that TeamBlock     *)
(* loads, changes in memory and saves.  For every operation X there is a   *)
(* guard MayX (the early returns of the handler that answer an error, and  *)
(* the exceptions it can raise) and an effect X (its assignments).         *)
(*                                                                         *)
(* The list of memberships of a team is kept as one sequence of roles per  *)
(* user, in joining order: no operation depends on the order in which      *)
(* different users joined, and every lookup takes a user's first entry.    *)
(* A team without a memberships key and a team with an empty list behave   *)
(* alike everywhere, so both are the empty function.                       *)
(***************************************************************************)
EXTENDS Naturals, Sequences, FiniteSets

CONSTANTS
  User,        \* user ids
  TeamId,      \* team ids (secrets.token_hex: never issued twice)
  Slug,        \* team slugs
  Token,       \* invitation tokens (secrets.token_urlsafe: never issued twice)
  AskedRole,   \* the roles requests name
  MaxTeams,    \* config max_teams_per_org
  MaxMembers,  \* config max_members_per_team
  NoTeam,      \* no entry in self.teams
  NoInvite     \* no entry in self.invitations

(* TeamRole, and the roles it does not list: invite_member stores any role *)
(* it is given, and TeamRole(role) raises on it later.                     *)
TeamRole == {"owner", "admin", "developer", "member", "viewer"}
Unlisted == "unlisted"
StoredRole == TeamRole \cup {Unlisted}

(* ROLE_HIERARCHY: whom a member may remove.                               *)
Outranks(role) ==
  CASE role = "owner"     -> {"admin", "developer", "member", "viewer"}
    [] role = "admin"     -> {"developer", "member", "viewer"}
    [] role = "developer" -> {"member", "viewer"}
    [] role = "member"    -> {"viewer"}
    [] OTHER              -> {}

Team == [owner : User, slug : Slug, used : Nat]
Invite == [team : TeamId, role : StoredRole]
Seats == [User -> Seq(StoredRole)]

Registry == [teams   : [TeamId -> Team \cup {NoTeam}],
             members : [TeamId -> Seats],
             invites : [Token -> Invite \cup {NoInvite}]]

ASSUME TeamSentinels == NoTeam \notin Team /\ NoInvite \notin Invite
ASSUME TeamLimits == MaxTeams \in Nat \ {0} /\ MaxMembers \in Nat \ {0}
ASSUME TeamRolesAsked == AskedRole \subseteq StoredRole

NoSeats == [u \in User |-> << >>]

(* What _load_state answers for a missing or unreadable file.              *)
EmptyRegistry == [teams   |-> [t \in TeamId |-> NoTeam],
                  members |-> [t \in TeamId |-> NoSeats],
                  invites |-> [k \in Token |-> NoInvite]]

----------------------------------------------------------------------------
Exists(r, t) == r.teams[t] # NoTeam
Member(r, t, u) == r.members[t][u] # << >>
FirstRole(r, t, u) == r.members[t][u][1]

(* len(self.memberships[team]): one seat per membership entry, so a user   *)
(* who accepted two invitations holds two.                                 *)
SeatSet(seats) == UNION {{u} \X (1 .. Len(seats[u])) : u \in User}
MemberCount(seats) == Cardinality(SeatSet(seats))

(* len(_get_user_teams(user)): counts entries, those in deleted teams too. *)
TeamCount(r, u) ==
  Cardinality(UNION {{t} \X (1 .. Len(r.members[t][u])) : t \in TeamId})

(* _has_permission for members.invite, team.manage and settings.edit: the  *)
(* owner holds "*", the admin role lists all three, no other role lists    *)
(* any, and a role outside TeamRole raises.                                *)
Manages(r, t, u) == Member(r, t, u) /\ FirstRole(r, t, u) \in {"owner", "admin"}

----------------------------------------------------------------------------
(* Faulty variants (never used by the specifications) stand before the     *)
(* definition they would replace; each shows that a property can fail.     *)
CreateAnySlug(r, q) == TeamCount(r, q.user) < MaxTeams

MayCreate(r, q) ==
  /\ TeamCount(r, q.user) < MaxTeams
  /\ \A t \in TeamId : Exists(r, t) => r.teams[t].slug # q.slug

Create(r, q) ==
  [r EXCEPT
     !.teams[q.team] = [owner |-> q.user, slug |-> q.slug, used |-> 1],
     !.members[q.team] = [NoSeats EXCEPT ![q.user] = <<"owner">>]]

MayDelete(r, q) == Exists(r, q.team) /\ r.teams[q.team].owner = q.user

(* Invitations to the team stay behind.                                    *)
Delete(r, q) ==
  [r EXCEPT !.teams[q.team] = NoTeam, !.members[q.team] = NoSeats]

(* The limit is compared with the members of now: invitations that are     *)
(* still out are not counted.                                              *)
MayInvite(r, q) ==
  /\ Exists(r, q.team)
  /\ Manages(r, q.team, q.user)
  /\ MemberCount(r.members[q.team]) < MaxMembers

InviteTo(r, q) ==
  [r EXCEPT !.invites[q.token] = [team |-> q.team, role |-> q.role]]

(* lapsed: the tokens whose expires_at has passed.                         *)
MayAccept(r, q, lapsed) == r.invites[q.token] # NoInvite /\ q.token \notin lapsed

(* Faulty: the quota is not brought up to date.                            *)
AcceptKeepingQuota(r, q) ==
  LET t == r.invites[q.token].team
  IN  [r EXCEPT !.members[t][q.user] = Append(@, r.invites[q.token].role),
                !.invites[q.token] = NoInvite]

(* Faulty: the invitation can be used again.                               *)
AcceptKeepingToken(r, q) ==
  LET t == r.invites[q.token].team
      seats == [r.members[t] EXCEPT ![q.user] = Append(@, r.invites[q.token].role)]
  IN  [r EXCEPT !.members[t] = seats,
                !.teams[t] = IF Exists(r, t)
                             THEN [@ EXCEPT !.used = MemberCount(seats)]
                             ELSE @]

(* Appends without looking at the limit or at earlier entries of the user; *)
(* the team may be gone, and then no quota is updated.                     *)
Accept(r, q) ==
  LET t == r.invites[q.token].team
      seats == [r.members[t] EXCEPT ![q.user] = Append(@, r.invites[q.token].role)]
      team == IF Exists(r, t)
              THEN [r.teams[t] EXCEPT !.used = MemberCount(seats)]
              ELSE NoTeam
  IN  [r EXCEPT !.members[t] = seats,
                !.teams[t] = team,
                !.invites[q.token] = NoInvite]

MayRemove(r, q) ==
  /\ Exists(r, q.team)
  /\ Member(r, q.team, q.user)
  /\ Member(r, q.team, q.target)
  /\ \/ FirstRole(r, q.team, q.target) # "owner"
     \/ r.teams[q.team].owner = q.user
  /\ FirstRole(r, q.team, q.target) \in Outranks(FirstRole(r, q.team, q.user))

WithoutMember(r, t, u) ==
  LET seats == [r.members[t] EXCEPT ![u] = << >>]
  IN  [r EXCEPT !.members[t] = seats, !.teams[t].used = MemberCount(seats)]

Remove(r, q) == WithoutMember(r, q.team, q.target)

(* Faulty: the owner's role is not protected.                              *)
SetAnyRole(r, q) ==
  /\ q.role \in TeamRole
  /\ Exists(r, q.team)
  /\ Manages(r, q.team, q.user)
  /\ Member(r, q.team, q.target)

MaySetRole(r, q) ==
  /\ q.role \in TeamRole
  /\ Exists(r, q.team)
  /\ Manages(r, q.team, q.user)
  /\ q.target = r.teams[q.team].owner => q.user = r.teams[q.team].owner
  /\ Member(r, q.team, q.target)

(* Only the first entry of the target changes.                             *)
SetRole(r, q) == [r EXCEPT !.members[q.team][q.target][1] = q.role]

(* update_team writes the name and the settings, which the model leaves    *)
(* out: the slug keeps its value when the name changes.                    *)
MayUpdate(r, q) == Exists(r, q.team) /\ Manages(r, q.team, q.user)

Update(r, q) == r

(* A user who is no member may "leave" too: nothing changes, all is saved. *)
MayLeave(r, q) == Exists(r, q.team) /\ r.teams[q.team].owner # q.user

Leave(r, q) == WithoutMember(r, q.team, q.user)

----------------------------------------------------------------------------
(* The requests process() is given, and its dispatch on "action".  The     *)
(* team of a create request and the token of an invite request are the     *)
(* random ids the handler draws.                                           *)
Request ==
  [op : {"create_team"}, user : User, team : TeamId, slug : Slug]
    \cup [op : {"delete_team", "update_team", "leave_team"},
          user : User, team : TeamId]
    \cup [op : {"invite_member"}, user : User, team : TeamId,
          token : Token, role : AskedRole]
    \cup [op : {"accept_invitation"}, user : User, token : Token]
    \cup [op : {"remove_member"}, user : User, team : TeamId, target : User]
    \cup [op : {"set_role"}, user : User, team : TeamId, target : User,
          role : AskedRole]

Accepts(r, q, lapsed) ==
  \/ q.op = "create_team" /\ MayCreate(r, q)
  \/ q.op = "delete_team" /\ MayDelete(r, q)
  \/ q.op = "update_team" /\ MayUpdate(r, q)
  \/ q.op = "leave_team" /\ MayLeave(r, q)
  \/ q.op = "invite_member" /\ MayInvite(r, q)
  \/ q.op = "accept_invitation" /\ MayAccept(r, q, lapsed)
  \/ q.op = "remove_member" /\ MayRemove(r, q)
  \/ q.op = "set_role" /\ MaySetRole(r, q)

Result(r, q) ==
  CASE q.op = "create_team"       -> Create(r, q)
    [] q.op = "delete_team"       -> Delete(r, q)
    [] q.op = "update_team"       -> Update(r, q)
    [] q.op = "leave_team"        -> Leave(r, q)
    [] q.op = "invite_member"     -> InviteTo(r, q)
    [] q.op = "accept_invitation" -> Accept(r, q)
    [] q.op = "remove_member"     -> Remove(r, q)
    [] q.op = "set_role"          -> SetRole(r, q)

(* The ids a request draws at random: they have not been drawn before.     *)
Draws(q) == CASE q.op = "create_team"   -> {q.team}
              [] q.op = "invite_member" -> {q.token}
              [] OTHER                  -> {}

----------------------------------------------------------------------------
(* No two teams share a slug: create_team looks for the slug first, and no *)
(* operation changes a slug afterwards.                                    *)
SlugsUnique(r) ==
  \A t1, t2 \in TeamId :
    /\ Exists(r, t1) /\ Exists(r, t2) /\ t1 # t2
    => r.teams[t1].slug # r.teams[t2].slug

(* quotas.members_used of a team is the number of its membership entries:  *)
(* it is stored beside the list and updated by some operations only.       *)
QuotaExact(r) ==
  \A t \in TeamId : Exists(r, t) => r.teams[t].used = MemberCount(r.members[t])

Consistent(r) == SlugsUnique(r) /\ QuotaExact(r)
=============================================================================
